---------------------------- MODULE AuthSession ----------------------------
(***************************************************************************)
(* The life of one gateway session: its row in SQLite (src/src/db.rs), the *)
(* auth checks that read, refresh and touch it (auth_decision and what it  *)
(* calls in src/src/server.rs), the single-flight registry they share      *)
(* (src/src/flight.rs), logout, pruning, process crashes, and the remote   *)
(* auth-mini service that rotates the refresh token.                       *)
(*                                                                         *)
(* Grain of atomicity.  One SQL statement, one operation on the flight     *)
(* registry, one answer of the remote is one step.  A store operation      *)
(* reads the clock before its statement runs, so the time it uses is any   *)
(* moment between the start of the operation and the statement.  A flight  *)
(* publishes its outcome to all its waiters in one step; FlightCoordinator *)
(* shows the locks and the condition variable that make it look so.        *)
(***************************************************************************)
EXTENDS SessionRow

CONSTANTS
    Requests,       \* auth checks that carry this session's signed cookie
    NoRequest,      \* "no leader"
    Procs,          \* gateway processes that use the database
    Home,           \* the process that runs each auth check
    Configs,        \* [aud, allow]: audience, and the policy's verdict on the user
    Owner,          \* the user who logged in
    OwnAudience,    \* the audience configured when they did
    AccessTTL,      \* life of an access token auth-mini issues
    MaxTries,       \* iterations of auth_decision's loop (8 in the code)
    StartTime,      \* when the session was created
    MaxTime,        \* bound: last value of the clock
    MaxRotations    \* bound: rotations auth-mini performs

ASSUME AuthSessionAssumption ==
    /\ NoRequest \notin Requests
    /\ Home \in [Requests -> Procs]
    /\ Configs \subseteq [aud : Audiences, allow : BOOLEAN]
    /\ Owner \in Users /\ OwnAudience \in Audiences
    /\ AccessTTL \in Nat \ {0} /\ MaxTries \in Nat \ {0}
    /\ StartTime \in Nat \ {0} /\ MaxTime \in Nat /\ MaxRotations \in Nat

VARIABLES
    now,        \* the clock
    stored,     \* the row has not been deleted by prune
    row,        \* the row of the session
    remote,     \* auth-mini: its current refresh token, and is its session alive
    orphan,     \* a refresh call nobody waits for may still reach auth-mini
    config,     \* configuration of each process
    flight,     \* registry entry of each process: leader, accepted versions
    logout,     \* the logout handler of each process
    pc,         \* where each auth check is
    tries,      \* iterations of the loop it has left
    since,      \* earliest clock value its current operation may have read
    snap,       \* `session` of auth_decision
    work,       \* `pending` or `expected` of the flight's later steps
    why,        \* reason for which the leader wants to revoke
    call,       \* the leader's refresh call
    late,       \* history: the session was over when the auth check started
    lapsed,     \* history: the session was inactive at some moment so far
    lost,       \* history: the tokens of a rotation were thrown away
    verified    \* history: generations whose identity check succeeded

flightVars == <<flight, tries, snap, work, why, call>>
ghostVars  == <<late, lapsed, lost, verified>>
vars == <<now, stored, row, remote, orphan, config, logout, pc, since,
          flightVars, ghostVars>>

-----------------------------------------------------------------------------
Decisions  == {"allow", "unauthenticated", "forbidden", "unavailable"}
Resting    == {"idle"} \cup Decisions
Publishing == {"publish_ready", "publish_rejected", "publish_unavailable"}
LeaderPCs  == {"execute", "refresh", "persist", "persisted", "persist_lost",
               "recover", "finalize", "finalized", "finalize_lost",
               "revoke_lookup", "revoke", "revoke_recheck"} \cup Publishing
LoopPCs    == {"lookup", "check", "joined", "closing", "touch", "touch_update",
               "touched"}
PCs        == Resting \cup LoopPCs \cup LeaderPCs
LogoutPCs  == {"idle", "revoke", "revoke_with_token", "remote"}

FirstAccess == [exp |-> StartTime + AccessTTL, aud |-> OwnAudience, user |-> Owner]
FirstRow    == create_session(StartTime, 0, FirstAccess)
NoFlight    == [leader |-> NoRequest, accepted |-> {}]
NoCall      == [st |-> "none", token |-> 0, access |-> FirstAccess]

Init ==
    /\ now = StartTime
    /\ stored = TRUE
    /\ row = FirstRow
    /\ remote = [current |-> 0, alive |-> TRUE]
    /\ orphan = FALSE
    /\ config \in [Procs -> {c \in Configs : c.aud = OwnAudience}]
    /\ flight = [p \in Procs |-> NoFlight]
    /\ logout = [p \in Procs |-> "idle"]
    /\ pc = [r \in Requests |-> "idle"]
    /\ tries = [r \in Requests |-> 0]
    /\ since = [r \in Requests |-> StartTime]
    /\ snap = [r \in Requests |-> FirstRow]
    /\ work = [r \in Requests |-> FirstRow]
    /\ why = [r \in Requests |-> "no"]
    /\ call = [r \in Requests |-> NoCall]
    /\ late = [r \in Requests |-> FALSE]
    /\ lapsed = FALSE
    /\ lost = FALSE
    /\ verified = {0}

-----------------------------------------------------------------------------
(* Steps of an auth check: control helpers.                                *)

\* An operation whose clock says t finds the session.
Active(t) == stored /\ is_active(row, t)

\* The session has ended for good: revoked, deleted or past its absolute deadline.
Over == ~stored \/ row.revoked # "no" \/ row.absolute_expires_at <= now

\* The clock values an operation of r may have read.
Clock(r) == since[r] .. now

\* Between operations no clock value is remembered.
ClockPCs == {"lookup", "touch_update", "persist", "finalize",
             "revoke_lookup", "revoke", "revoke_recheck"}

Goto(r, next) ==
    /\ pc' = [pc EXCEPT ![r] = next]
    /\ since' = [since EXCEPT ![r] = IF next \in ClockPCs THEN now ELSE StartTime]

\* The next step goes on with the clock value t this operation has read.
GotoAt(r, next, t) ==
    /\ pc' = [pc EXCEPT ![r] = next]
    /\ since' = [since EXCEPT ![r] = t]

\* auth_decision returns d; its locals are gone.
Decide(r, d) ==
    /\ pc' = [pc EXCEPT ![r] = d]
    /\ since' = [since EXCEPT ![r] = StartTime]
    /\ tries' = [tries EXCEPT ![r] = 0]
    /\ snap' = [snap EXCEPT ![r] = FirstRow]

\* `continue` of the loop in auth_decision.
Continue(r) ==
    /\ Goto(r, "lookup")
    /\ snap' = [snap EXCEPT ![r] = FirstRow]
    /\ tries' = tries

-----------------------------------------------------------------------------
(* The loop of auth_decision.                                              *)

Start(r) ==
    /\ pc[r] \in Resting
    /\ Goto(r, "lookup")
    /\ tries' = [tries EXCEPT ![r] = MaxTries]
    /\ late' = [late EXCEPT ![r] = Over]
    /\ UNCHANGED <<now, stored, row, remote, orphan, config, logout, flight,
                   snap, work, why, call, lapsed, lost, verified>>

\* `for _ in 0..8`.
IterationLeft(r) == tries[r] > 0

\* lookup_session: the row, no active row, or an error of the database; a
\* request that has used up its iterations gives up.
Lookup(r) ==
    /\ pc[r] = "lookup"
    /\ \/ /\ IterationLeft(r)
          /\ \E t \in Clock(r) : Active(t)
          /\ Goto(r, "check")
          /\ tries' = [tries EXCEPT ![r] = @ - 1]
          /\ snap' = [snap EXCEPT ![r] = row]
       \/ /\ IterationLeft(r)
          /\ \E t \in Clock(r) : ~Active(t)
          /\ Decide(r, "unauthenticated")
       \/ Decide(r, "unavailable")
    /\ UNCHANGED <<now, stored, row, remote, orphan, config, logout, flight,
                   work, why, call, ghostVars>>

acquire_Mutant(r) ==
    /\ flight' = [flight EXCEPT ![Home[r]] =
                     [leader |-> r, accepted |-> {observed_version(snap[r])}]]
    /\ Goto(r, "execute")
    /\ UNCHANGED snap

\* FlightCoordinator::acquire.
acquire(r) ==
    LET f == flight[Home[r]]
    IN  \/ /\ f.leader = NoRequest
           /\ flight' = [flight EXCEPT ![Home[r]] =
                            [leader |-> r, accepted |-> {observed_version(snap[r])}]]
           /\ Goto(r, "execute")
           /\ UNCHANGED snap
        \/ /\ f.leader # NoRequest
           /\ Goto(r, IF observed_version(snap[r]) \in f.accepted
                      THEN "joined" ELSE "closing")
           /\ snap' = [snap EXCEPT ![r] = FirstRow]
           /\ UNCHANGED flight

\* A pending or expiring session goes to the flight, another one to the policy.
Check(r) ==
    LET refresh == \/ snap[r].identity_state = "pending"
                   \/ session_needs_refresh(snap[r], now)
    IN  /\ pc[r] = "check"
        /\ \/ /\ refresh
              /\ acquire(r)
              /\ UNCHANGED tries
           \/ /\ ~refresh /\ config[Home[r]].allow
              /\ Goto(r, "touch")
              /\ UNCHANGED <<tries, snap, flight>>
           \/ /\ ~refresh /\ ~config[Home[r]].allow
              /\ Decide(r, "forbidden")
              /\ UNCHANGED flight
        /\ UNCHANGED <<now, stored, row, remote, orphan, config, logout,
                       work, why, call, ghostVars>>

\* touch_ready up to its statement: it reads the clock and its own snapshot.
Touch(r) ==
    /\ pc[r] = "touch"
    /\ \/ /\ ~is_active(snap[r], now)
          /\ Continue(r)
       \/ /\ is_active(snap[r], now) /\ touch_NotDue(snap[r], now)
          /\ Decide(r, "allow")
       \/ /\ is_active(snap[r], now) /\ ~touch_NotDue(snap[r], now)
          /\ Goto(r, "touch_update")
          /\ UNCHANGED <<tries, snap>>
    /\ UNCHANGED <<now, stored, row, remote, orphan, config, logout, flight,
                   work, why, call, ghostVars>>

\* The UPDATE of touch_ready, with the clock value Touch has read.
TouchUpdate(r) ==
    LET t       == since[r]
        matches == stored /\ touch_ready_Matches(row, snap[r], t)
    IN  /\ pc[r] = "touch_update"
        /\ \/ /\ matches
              /\ row' = touch_ready_Update(row, touch_Candidate(snap[r], t), t)
              /\ GotoAt(r, "touched", t)
              /\ UNCHANGED <<tries, snap>>
           \/ /\ ~matches
              /\ Continue(r)
              /\ UNCHANGED row
           \/ /\ Decide(r, "unavailable")
              /\ UNCHANGED row
        /\ UNCHANGED <<now, stored, remote, orphan, config, logout, flight,
                       work, why, call, ghostVars>>

\* The lookup that follows a touch, at the same clock value.
Touched(r) ==
    /\ pc[r] = "touched"
    /\ \/ Active(since[r]) /\ Decide(r, "allow")
       \/ ~Active(since[r]) /\ Continue(r)
       \/ Decide(r, "unavailable")
    /\ UNCHANGED <<now, stored, row, remote, orphan, config, logout, flight,
                   work, why, call, ghostVars>>

-----------------------------------------------------------------------------
(* The leader of a flight: execute_flight and the functions it calls.      *)

leaderFrame == <<now, stored, config, logout, tries, late, lapsed>>
flightLocals == <<snap, work, why, call, lost>>

\* The flight goes on to its next operation with the values it has.
Proceed(r, next) == Goto(r, next) /\ UNCHANGED flightLocals

\* The flight goes on with `session` alone, or with nothing; the answer of a refresh
\* that is not in the database by now is lost.
GoOnWith(r, next, session, reason) ==
    /\ Goto(r, next)
    /\ snap' = [snap EXCEPT ![r] = FirstRow]
    /\ work' = [work EXCEPT ![r] = session]
    /\ why' = [why EXCEPT ![r] = reason]
    /\ call' = [call EXCEPT ![r] = NoCall]
    /\ lost' = (lost \/ call[r].st = "ok")

\* execute_flight returns.
Publish(r, outcome) == GoOnWith(r, outcome, FirstRow, "no")

\* recover_pending_identity(session).
RecoverWith(r, session) == GoOnWith(r, "recover", session, "no")

\* revoke_expected_generation(session, reason).
RevokeExpected(r, session, reason) == GoOnWith(r, "revoke_lookup", session, reason)

\* use_current_session_without_refresh(row).
UseCurrentWithoutRefresh(r) ==
    IF row.identity_state = "pending" THEN RecoverWith(r, row)
                                      ELSE Publish(r, "publish_ready")

\* use_current_session(row).
UseCurrent(r) ==
    IF row.identity_state = "pending" /\ session_needs_refresh(row, now)
    THEN Publish(r, "publish_unavailable")
    ELSE UseCurrentWithoutRefresh(r)

\* execute_flight: refresh, recover, or nothing left to do.  A refresh starts
\* with prepare_refresh_verifier, which may fail before anything is sent.
Execute(r) ==
    /\ pc[r] = "execute"
    /\ IF session_needs_refresh(snap[r], now)
       THEN \/ /\ Goto(r, "refresh")
               /\ call' = [call EXCEPT ![r] = [NoCall EXCEPT !.st = "sent",
                                                 !.token = snap[r].refresh_token]]
               /\ UNCHANGED <<snap, work, why, lost>>
            \/ Publish(r, "publish_unavailable")
       ELSE IF snap[r].identity_state = "pending"
            THEN RecoverWith(r, snap[r])
            ELSE Publish(r, "publish_ready")
    /\ UNCHANGED <<leaderFrame, row, remote, orphan, flight, verified>>

\* A refresh call that nobody waits for any more may still be on its way; it
\* matters as long as it carries auth-mini's current token.
InTransit(r) == call[r].st = "sent" /\ call[r].token = remote.current

Abandon(r) == orphan' = (orphan \/ InTransit(r))

\* The refresh call ends without a usable answer: transport error, timeout, 408,
\* 429, 5xx, unknown body, drifted session id, or a token that does not verify.
RefreshFails(r) ==
    /\ pc[r] = "refresh"
    /\ Abandon(r)
    /\ Publish(r, "publish_unavailable")
    /\ UNCHANGED <<leaderFrame, row, remote, flight, verified>>

\* audience_claim_contains, for the audience r's process is configured with.
audience_ok_Mutant(r, access) == TRUE

audience_ok(r, access) == access.aud = config[Home[r]].aud

\* The comparison of the verified subject with the session's.
same_identity_Mutant(session, access) == TRUE

same_identity(session, access) == access.user = session.user_id

\* The refresh call returns auth-mini's answer.  verify_access_token looks at the
\* expiry before the audience; the subject is compared last.
RefreshReturns(r) ==
    LET access == call[r].access
        fresh  == call[r].st = "ok" /\ now < access.exp
        ours   == audience_ok(r, access)
    IN  /\ pc[r] = "refresh"
        /\ \/ /\ call[r].st = "rejected"
              /\ RevokeExpected(r, snap[r], "remote")
              /\ UNCHANGED flight
           \/ /\ fresh /\ ~ours
              /\ RevokeExpected(r, snap[r], "audience")
              /\ UNCHANGED flight
           \/ /\ fresh /\ ours /\ ~same_identity(snap[r], access)
              /\ Publish(r, "publish_unavailable")
              /\ UNCHANGED flight
           \/ /\ fresh /\ ours /\ same_identity(snap[r], access)
              /\ flight' = [flight EXCEPT ![Home[r]].accepted = @ \cup
                              {[generation |-> snap[r].refresh_generation + 1,
                                identity_state |-> "pending"]}]
              /\ Proceed(r, "persist")
        /\ UNCHANGED <<leaderFrame, row, remote, orphan, verified>>

\* The UPDATE of persist_pending.
PersistPending(r) ==
    /\ pc[r] = "persist"
    /\ \/ \E t \in Clock(r) :
             LET matches == stored /\ persist_pending_Matches(row, snap[r], t)
             IN  /\ IF matches
                    THEN /\ row' = persist_pending_Update(row, call[r].token, call[r].access)
                         /\ call' = [call EXCEPT ![r] = NoCall]
                         /\ GotoAt(r, "persisted", t)
                    ELSE /\ GotoAt(r, "persist_lost", t)
                         /\ UNCHANGED <<row, call>>
                 /\ UNCHANGED <<snap, work, why, lost>>
       \/ /\ Publish(r, "publish_unavailable")
          /\ UNCHANGED row
    /\ UNCHANGED <<leaderFrame, remote, orphan, flight, verified>>

\* resolve_cas after persist_pending, and what refresh_gateway_session makes of it.
PersistResolved(r) ==
    LET t == since[r]
    IN  /\ pc[r] \in {"persisted", "persist_lost"}
        /\ \/ Active(t) /\ pc[r] = "persisted" /\ RecoverWith(r, row)
           \/ /\ Active(t) /\ pc[r] = "persist_lost" /\ has_changed(row, snap[r])
              /\ UseCurrent(r)
           \/ ~Active(t) /\ Publish(r, "publish_rejected")
           \/ Publish(r, "publish_unavailable")
        /\ UNCHANGED <<leaderFrame, row, remote, orphan, flight, verified>>

\* recover_pending_identity up to its statement: fetch the keys, verify the stored
\* access token again.  Either may fail without an answer about the token.
Recover(r) ==
    LET access == work[r].access
        fresh  == now < access.exp
        ours   == audience_ok(r, access)
    IN  /\ pc[r] = "recover"
        /\ \/ /\ fresh /\ ours /\ same_identity(work[r], access)
              /\ verified' = verified \cup {work[r].refresh_generation}
              /\ Proceed(r, "finalize")
           \/ /\ fresh /\ ~ours
              /\ RevokeExpected(r, work[r], "audience")
              /\ UNCHANGED verified
           \/ /\ Publish(r, "publish_unavailable")
              /\ UNCHANGED verified
        /\ UNCHANGED <<leaderFrame, row, remote, orphan, flight>>

\* The UPDATE of finalize_pending.
FinalizePending(r) ==
    /\ pc[r] = "finalize"
    /\ \/ \E t \in Clock(r) :
             /\ IF stored /\ finalize_pending_Matches(row, work[r], t)
                THEN /\ row' = finalize_pending_Update(row)
                     /\ GotoAt(r, "finalized", t)
                ELSE /\ GotoAt(r, "finalize_lost", t)
                     /\ UNCHANGED row
             /\ UNCHANGED flightLocals
       \/ /\ Publish(r, "publish_unavailable")
          /\ UNCHANGED row
    /\ UNCHANGED <<leaderFrame, remote, orphan, flight, verified>>

\* resolve_cas after finalize_pending, and what recover_pending_identity makes of it.
FinalizeResolved(r) ==
    LET t     == since[r]
        ready == /\ row.identity_state = "ready"
                 /\ \/ pc[r] = "finalized"
                    \/ row.refresh_generation = work[r].refresh_generation
    IN  /\ pc[r] \in {"finalized", "finalize_lost"}
        /\ \/ Active(t) /\ ready /\ Publish(r, "publish_ready")
           \/ ~Active(t) /\ Publish(r, "publish_rejected")
           \/ Publish(r, "publish_unavailable")
        /\ UNCHANGED <<leaderFrame, row, remote, orphan, flight, verified>>

\* The lookups of revoke_expected_generation before and after its statement.
RevokeLookup(r) ==
    /\ pc[r] \in {"revoke_lookup", "revoke_recheck"}
    /\ \/ \E t \in Clock(r) :
             \/ Active(t) /\ has_changed(row, work[r]) /\ UseCurrentWithoutRefresh(r)
             \/ /\ Active(t) /\ ~has_changed(row, work[r])
                /\ pc[r] = "revoke_lookup"
                /\ Proceed(r, "revoke")
             \/ ~Active(t) /\ Publish(r, "publish_rejected")
       \/ Publish(r, "publish_unavailable")
    /\ UNCHANGED <<leaderFrame, row, remote, orphan, flight, verified>>

\* conditional_revoke.
ConditionalRevoke(r) ==
    /\ pc[r] = "revoke"
    /\ \/ \E t \in Clock(r) :
             IF stored /\ conditional_revoke_Matches(row, work[r], t)
             THEN /\ row' = revoke_Update(row, why[r])
                  /\ lapsed' = TRUE
                  /\ Publish(r, "publish_rejected")
             ELSE /\ Proceed(r, "revoke_recheck")
                  /\ UNCHANGED <<row, lapsed>>
       \/ /\ Publish(r, "publish_unavailable")
          /\ UNCHANGED <<row, lapsed>>
    /\ UNCHANGED <<now, stored, config, logout, tries, late,
                   remote, orphan, flight, verified>>

\* The leader panics; catch_unwind turns it into Indeterminate(LeaderAborted).
Panic(r) ==
    /\ pc[r] \in LeaderPCs \ Publishing
    /\ Abandon(r)
    /\ Publish(r, "publish_unavailable")
    /\ UNCHANGED <<leaderFrame, row, remote, flight, verified>>

\* The requests of r's process that wait for the outcome of the flight, and those
\* that wait for it to close.
Joined(r) == {q \in Requests : Home[q] = Home[r] /\ pc[q] = "joined"}

Closing_Mutant(r) == {}

Closing(r) == {q \in Requests : Home[q] = Home[r] /\ pc[q] = "closing"}

\* What auth_decision does with the outcome: Ready starts another iteration.
OutcomeDecision_Mutant(outcome) ==
    IF outcome = "publish_ready" THEN "lookup" ELSE "unauthenticated"

OutcomeDecision(outcome) ==
    CASE outcome = "publish_ready"       -> "lookup"
      [] outcome = "publish_rejected"    -> "unauthenticated"
      [] outcome = "publish_unavailable" -> "unavailable"

\* FlightLeader::complete: the outcome is published, the entry is removed, and the
\* leader and the requests that joined act on the outcome; the requests that only
\* waited for the flight to close start their next iteration.
Complete(r) ==
    LET members == {r} \cup Joined(r)
        next    == OutcomeDecision(pc[r])
        loop    == Closing(r) \cup (IF next = "lookup" THEN members ELSE {})
    IN  /\ pc[r] \in Publishing
        /\ pc' = [q \in Requests |-> IF q \in loop THEN "lookup"
                                     ELSE IF q \in members THEN next ELSE pc[q]]
        /\ since' = [q \in Requests |-> IF q \in loop THEN now ELSE since[q]]
        /\ tries' = [q \in Requests |-> IF q \in members \ loop THEN 0 ELSE tries[q]]
        /\ flight' = IF flight[Home[r]].leader = r
                     THEN [flight EXCEPT ![Home[r]] = NoFlight] ELSE flight
        /\ UNCHANGED <<now, stored, row, remote, orphan, config, logout,
                       snap, work, why, call, ghostVars>>

-----------------------------------------------------------------------------
(* The remote auth-mini service, as the gateway's calls and answers show it. *)
(* It holds one current refresh token per session; refreshing with it issues *)
(* the next one, refreshing with another one is answered "superseded".       *)

\* Access tokens auth-mini may issue now; a well-formed answer may still carry
\* another subject or audience, which the gateway has to notice.
Issued == [exp : {now + AccessTTL}, aud : Audiences, user : Users]

RemoteFrame == <<now, stored, row, config, logout, pc, since, flight, tries, snap,
                 work, why, late, lapsed, verified>>

\* auth-mini handles r's refresh call.
RemoteRefresh(r) ==
    LET rotates == remote.alive /\ call[r].token = remote.current
    IN  /\ pc[r] = "refresh" /\ call[r].st = "sent"
        /\ \/ /\ rotates /\ remote.current < MaxRotations
              /\ remote' = [remote EXCEPT !.current = @ + 1]
              /\ orphan' = FALSE
              /\ \E access \in Issued :
                    call' = [call EXCEPT ![r] = [st |-> "ok", token |-> remote.current + 1,
                                                 access |-> access]]
           \/ /\ ~rotates
              /\ call' = [call EXCEPT ![r].st = "rejected"]
              /\ UNCHANGED <<remote, orphan>>
        /\ UNCHANGED <<RemoteFrame, lost>>

\* A refresh call that timed out at the gateway reaches auth-mini after all, or is
\* lost on the way.
RemoteOrphan ==
    /\ orphan
    /\ orphan' = FALSE
    /\ \/ /\ remote.alive /\ remote.current < MaxRotations
          /\ remote' = [remote EXCEPT !.current = @ + 1]
          /\ lost' = TRUE
       \/ UNCHANGED <<remote, lost>>
    /\ UNCHANGED <<RemoteFrame, call>>

\* The session is ended at auth-mini itself.
RemoteInvalidate ==
    /\ remote.alive
    /\ remote' = [remote EXCEPT !.alive = FALSE]
    /\ UNCHANGED <<RemoteFrame, orphan, call, lost>>

-----------------------------------------------------------------------------
(* handle_logout, pruning by logins and callbacks, time and crashes.        *)

logoutFrame == <<now, orphan, config, pc, since, flightVars, late, lost, verified>>

\* logout_access_snapshot; an error of it counts as "no token".  Bound: one logout
\* of the session at a time.
LogoutSnapshot(p) ==
    /\ \A q \in Procs : logout[q] = "idle"
    /\ \/ logout' = [logout EXCEPT ![p] = "revoke"]
       \/ /\ stored /\ row.revoked = "no"
          /\ logout' = [logout EXCEPT ![p] = "revoke_with_token"]
    /\ UNCHANGED <<logoutFrame, stored, row, remote, lapsed>>

\* revoke_session; on an error the handler answers 500 and skips the remote.
LogoutRevoke(p) ==
    /\ logout[p] \in {"revoke", "revoke_with_token"}
    /\ \/ /\ IF stored /\ revoke_session_Matches(row)
             THEN row' = revoke_Update(row, "logout") /\ lapsed' = TRUE
             ELSE UNCHANGED <<row, lapsed>>
          /\ logout' = [logout EXCEPT ![p] = IF @ = "revoke" THEN "idle" ELSE "remote"]
       \/ /\ logout' = [logout EXCEPT ![p] = "idle"]
          /\ UNCHANGED <<row, lapsed>>
    /\ UNCHANGED <<logoutFrame, stored, remote>>

\* The best-effort logout at auth-mini, whose result is ignored.
LogoutRemote(p) ==
    /\ logout[p] = "remote"
    /\ logout' = [logout EXCEPT ![p] = "idle"]
    /\ remote' \in {remote, [remote EXCEPT !.alive = FALSE]}
    /\ UNCHANGED <<logoutFrame, stored, row, lapsed>>

\* Store::prune; its clock may be stale, but what has expired then has expired now.
Prune ==
    /\ stored /\ prune_Matches(row, now)
    /\ stored' = FALSE
    /\ UNCHANGED <<logoutFrame, row, remote, logout, lapsed>>

Tick ==
    /\ now < MaxTime
    /\ now' = now + 1
    /\ lapsed' = (lapsed \/ (stored /\ ~is_active(row, now + 1)))
    /\ UNCHANGED <<stored, row, remote, orphan, config, logout, pc, since, flightVars,
                   late, lost, verified>>

\* Process p stops at any point and starts again, maybe with another configuration.
\* Its auth checks, its registry and its logout are gone, the database stays.
Crash(p) ==
    LET own == {r \in Requests : Home[r] = p}
        Reset(f, v) == [r \in Requests |-> IF r \in own THEN v ELSE f[r]]
    IN  /\ \E c \in Configs : config' = [config EXCEPT ![p] = c]
        /\ orphan' = (orphan \/ \E r \in own : InTransit(r))
        /\ lost' = (lost \/ \E r \in own : call[r].st = "ok")
        /\ flight' = [flight EXCEPT ![p] = NoFlight]
        /\ logout' = [logout EXCEPT ![p] = "idle"]
        /\ pc' = Reset(pc, "idle")
        /\ tries' = Reset(tries, 0)
        /\ since' = Reset(since, StartTime)
        /\ snap' = Reset(snap, FirstRow)
        /\ work' = Reset(work, FirstRow)
        /\ why' = Reset(why, "no")
        /\ call' = Reset(call, NoCall)
        /\ late' = Reset(late, FALSE)
        /\ UNCHANGED <<now, stored, row, remote, lapsed, verified>>

-----------------------------------------------------------------------------
\* The steps the code itself takes for request r.
Step(r) ==
    \/ Lookup(r) \/ Check(r) \/ Touch(r) \/ TouchUpdate(r) \/ Touched(r)
    \/ Execute(r) \/ RefreshFails(r) \/ RefreshReturns(r)
    \/ PersistPending(r) \/ PersistResolved(r)
    \/ Recover(r) \/ FinalizePending(r) \/ FinalizeResolved(r)
    \/ RevokeLookup(r) \/ ConditionalRevoke(r) \/ Complete(r)

Next ==
    \/ \E r \in Requests : Start(r) \/ Step(r) \/ Panic(r) \/ RemoteRefresh(r)
    \/ \E p \in Procs : LogoutSnapshot(p) \/ LogoutRevoke(p) \/ LogoutRemote(p) \/ Crash(p)
    \/ RemoteOrphan
    \/ RemoteInvalidate
    \/ Prune
    \/ Tick

Spec == Init /\ [][Next]_vars

\* A running auth check is a thread that the operating system schedules, and its
\* only unbounded wait, the refresh call, has a client timeout (RefreshFails).
LiveSpec == Spec /\ \A r \in Requests : WF_vars(Step(r))

-----------------------------------------------------------------------------
(* Properties.                                                             *)

\* Every variable of the auth check, the store and the registry has its type.
TypeOK ==
    /\ now \in Nat
    /\ stored \in BOOLEAN
    /\ row \in GatewaySession
    /\ remote \in [current : Nat, alive : BOOLEAN]
    /\ orphan \in BOOLEAN
    /\ config \in [Procs -> [aud : Audiences, allow : BOOLEAN]]
    /\ flight \in [Procs -> [leader : Requests \cup {NoRequest},
                             accepted : SUBSET ObservedVersion]]
    /\ logout \in [Procs -> LogoutPCs]
    /\ pc \in [Requests -> PCs]
    /\ tries \in [Requests -> Nat]
    /\ since \in [Requests -> Nat]
    /\ snap \in [Requests -> GatewaySession]
    /\ work \in [Requests -> GatewaySession]
    /\ why \in [Requests -> Revocation]
    /\ call \in [Requests -> [st : {"none", "sent", "ok", "rejected"}, token : Nat,
                              access : AccessToken]]
    /\ late \in [Requests -> BOOLEAN]
    /\ lapsed \in BOOLEAN
    /\ lost \in BOOLEAN
    /\ verified \subseteq Nat

\* Whatever statements run in whatever order, the row they leave is one that
\* row_to_session accepts: no interleaving of persist_pending, finalize_pending and
\* touch_ready makes the session unreadable.
RowValid == validate_session_invariants(row)

\* A process runs at most one refresh or recovery of the session at a time, and it
\* is the one its registry names, also after crashes and panics; and a request waits
\* (Joined, WaitForClose) only while its process has a flight that will release it.
SingleFlight ==
    \A r \in Requests :
        /\ pc[r] \in LeaderPCs <=> flight[Home[r]].leader = r
        /\ pc[r] \in {"joined", "closing"} => flight[Home[r]].leader # NoRequest

\* conditional_revoke compares generation and token, so a refusal by auth-mini only
\* ends the session if the row still holds what auth-mini refused: a row revoked
\* for it could not have been refreshed any more.
RemoteRevokeJustified ==
    row.revoked = "remote" => ~remote.alive \/ remote.current # row.refresh_token

\* A 401 that clears the cookie is given only if the session has at some moment been
\* revoked or past a deadline; failures of the database, of auth-mini or of the
\* process never look like the end of the session.
UnauthenticatedOnlyAfterLapse ==
    \A r \in Requests : pc[r] = "unauthenticated" => lapsed

\* A session that was revoked, deleted or past its absolute deadline when an auth
\* check began is not allowed by it, whatever refresh, finalize or touch is still
\* under way.
LateNeverAllowed ==
    \A r \in Requests : pc[r] = "allow" => ~late[r]

\* The row says "ready" only if the identity of that very generation has been
\* verified: finalize_pending cannot promote a newer rotation than it checked.
ReadyOnlyVerified ==
    row.identity_state = "ready" => row.refresh_generation \in verified

\* With one process, auth-mini can only have refused a live session's token because
\* the tokens of an earlier rotation were lost (call timed out, process crashed,
\* answer not usable, row not written): the flight never refreshes with a token that
\* another of its own requests has just used.
RefusedOnlyAfterLostRotation ==
    row.revoked = "remote" /\ remote.alive => lost

\* Every step keeps the absolute deadline and the user, never moves the idle deadline
\* back or past the absolute one, and raises the generation by one at most, and only
\* into the pending state.
DeadlinesAndGenerations ==
    [][ /\ row'.absolute_expires_at = row.absolute_expires_at
        /\ row'.user_id = row.user_id
        /\ row'.idle_expires_at >= row.idle_expires_at
        /\ row'.refresh_generation # row.refresh_generation =>
              /\ row'.refresh_generation = row.refresh_generation + 1
              /\ row'.identity_state = "pending" ]_vars

\* A revoked row is frozen until prune deletes it, and a deleted one never returns:
\* no refresh, recovery or touch that was under way resurrects it.
RevokedIsTerminal ==
    [][ /\ row.revoked # "no" => row' = row
        /\ ~stored => ~stored' /\ row' = row ]_vars

\* A rotation becomes usable only with an access token for an audience a process is
\* configured with, also when the process restarted with another configuration while
\* the row was pending.
FinalizedForConfiguredAudience ==
    [][ row.identity_state = "pending" /\ row'.identity_state = "ready" =>
            row.access.aud \in {config[p].aud : p \in Procs} ]_vars

\* The lifecycle rules say of a session at or past its deadline "no
\* refresh/finalize/touch allowed": no step moves the deadline of an expired row.
ExpiredIsNotTouched ==
    [][ row'.idle_expires_at # row.idle_expires_at => is_active(row, now) ]_vars

\* Every auth check that starts comes to a decision.
EveryCheckDecides ==
    \A r \in Requests : pc[r] \notin Resting ~> pc[r] \in Resting
=============================================================================
