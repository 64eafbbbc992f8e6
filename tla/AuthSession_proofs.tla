------------------------- MODULE AuthSession_proofs -------------------------
(***************************************************************************)
(* Theorems about AuthSession, for any number of requests and processes,   *)
(* any configuration that Config::validate accepts and any bounds: the     *)
(* types, what may become of the row, what an auth check may answer, the   *)
(* single flight, and the refresh and access tokens (which copies of the   *)
(* row are out of date, and what a refusal by auth-mini and a verified     *)
(* audience say about the row they are applied to).                        *)
(***************************************************************************)
EXTENDS AuthSession, TLAPS

\* The SET clause of every statement yields a row again.
LEMMA RowRevoke ==
    ASSUME NEW s \in GatewaySession, NEW by \in Revocation
    PROVE  revoke_Update(s, by) \in GatewaySession
BY Zenon DEF revoke_Update, GatewaySession

LEMMA RowPersist ==
    ASSUME NEW s \in GatewaySession, NEW token \in Nat, NEW access \in AccessToken
    PROVE  persist_pending_Update(s, token, access) \in GatewaySession
<1>1. access.user \in Users
  BY Zenon DEF AccessToken
<1> QED BY <1>1 DEF persist_pending_Update, GatewaySession, IdentityState, COMPAT_DENY_AT

LEMMA RowFinalize ==
    ASSUME NEW s \in GatewaySession
    PROVE  finalize_pending_Update(s) \in GatewaySession
BY Zenon DEF finalize_pending_Update, GatewaySession, IdentityState

LEMMA RowTouch ==
    ASSUME NEW s \in GatewaySession, NEW o \in GatewaySession, NEW t \in Nat
    PROVE  /\ touch_Candidate(o, t) \in Nat
           /\ touch_ready_Update(s, touch_Candidate(o, t), t) \in GatewaySession
<1>1. touch_Candidate(o, t) \in Nat
  BY SessionRowAssumption DEF touch_Candidate, Minimum, GatewaySession
<1> QED BY Zenon, <1>1 DEF touch_ready_Update, GatewaySession

-----------------------------------------------------------------------------
(* Type correctness.                                                       *)

\* The values locals are reset to have their types.
LEMMA InitialValues ==
    /\ FirstAccess \in AccessToken
    /\ FirstRow \in GatewaySession
    /\ NoCall \in [st : {"none", "sent", "ok", "rejected"}, token : Nat, access : AccessToken]
    /\ NoFlight \in [leader : Requests \cup {NoRequest}, accepted : SUBSET ObservedVersion]
<1>1. FirstAccess \in AccessToken
  BY AuthSessionAssumption DEF FirstAccess, AccessToken
<1>2. FirstRow \in GatewaySession
  <2>1. create_session(StartTime, 0, FirstAccess) \in GatewaySession
    BY <1>1, AuthSessionAssumption, SessionRowAssumption DEF create_session, GatewaySession,
       AccessToken, IdentityState, Revocation, Minimum
  <2> QED BY Zenon, <2>1 DEF FirstRow
<1>3. NoCall \in [st : {"none", "sent", "ok", "rejected"}, token : Nat, access : AccessToken]
  BY Zenon, <1>1 DEF NoCall
<1>4. NoFlight \in [leader : Requests \cup {NoRequest}, accepted : SUBSET ObservedVersion]
  BY Zenon DEF NoFlight
<1> QED BY Zenon, <1>1, <1>2, <1>3, <1>4

\* Every clock value an operation may have read is a time.
LEMMA ClockType ==
    ASSUME TypeOK, NEW r \in Requests, NEW t \in Clock(r)
    PROVE  t \in Nat /\ since[r] <= t /\ t <= now
BY DEF TypeOK, Clock

\* The control helpers keep the types of what they assign.
LEMMA GotoType ==
    ASSUME TypeOK, NEW r \in Requests, NEW next \in PCs, Goto(r, next)
    PROVE  pc' \in [Requests -> PCs] /\ since' \in [Requests -> Nat]
BY Zenon, AuthSessionAssumption DEF TypeOK, Goto

LEMMA GotoAtType ==
    ASSUME TypeOK, NEW r \in Requests, NEW next \in PCs, NEW t \in Nat, GotoAt(r, next, t)
    PROVE  pc' \in [Requests -> PCs] /\ since' \in [Requests -> Nat]
BY Zenon DEF TypeOK, GotoAt

LEMMA DecideType ==
    ASSUME TypeOK, NEW r \in Requests, NEW d \in PCs, Decide(r, d)
    PROVE  /\ pc' \in [Requests -> PCs] /\ since' \in [Requests -> Nat]
           /\ tries' \in [Requests -> Nat] /\ snap' \in [Requests -> GatewaySession]
BY Zenon, InitialValues, AuthSessionAssumption DEF TypeOK, Decide

LEMMA ContinueType ==
    ASSUME TypeOK, NEW r \in Requests, Continue(r)
    PROVE  /\ pc' \in [Requests -> PCs] /\ since' \in [Requests -> Nat]
           /\ tries' \in [Requests -> Nat] /\ snap' \in [Requests -> GatewaySession]
<1>1. "lookup" \in PCs
  BY Zenon DEF PCs, LoopPCs
<1>2. pc' \in [Requests -> PCs] /\ since' \in [Requests -> Nat]
  BY Zenon, <1>1, GotoType DEF Continue
<1> QED BY Zenon, <1>2, InitialValues DEF TypeOK, Continue

\* The part of TypeOK that a step of a leader changes.
LocalsTyped ==
    /\ pc \in [Requests -> PCs] /\ since \in [Requests -> Nat]
    /\ snap \in [Requests -> GatewaySession]
    /\ work \in [Requests -> GatewaySession]
    /\ why \in [Requests -> Revocation]
    /\ call \in [Requests -> [st : {"none", "sent", "ok", "rejected"}, token : Nat,
                               access : AccessToken]]
    /\ lost \in BOOLEAN

LEMMA GoOnWithType ==
    ASSUME TypeOK, NEW r \in Requests, NEW next \in PCs, NEW session \in GatewaySession,
           NEW reason \in Revocation, GoOnWith(r, next, session, reason)
    PROVE  LocalsTyped'
<1>1. pc' \in [Requests -> PCs] /\ since' \in [Requests -> Nat]
  BY Zenon, GotoType DEF GoOnWith
<1> QED BY Zenon, <1>1, InitialValues DEF TypeOK, GoOnWith, LocalsTyped

\* The names of the program points.
LEMMA PCNames ==
    {"lookup", "check", "joined", "closing", "touch", "touch_update", "touched",
     "execute", "refresh", "persist", "persisted", "persist_lost", "recover",
     "finalize", "finalized", "finalize_lost", "revoke_lookup", "revoke",
     "revoke_recheck", "publish_ready", "publish_rejected", "publish_unavailable",
     "idle", "allow", "unauthenticated", "forbidden", "unavailable"} \subseteq PCs
BY Zenon DEF PCs, LoopPCs, Resting, Decisions, LeaderPCs, Publishing

\* Init has the types.
LEMMA TypeInit == Init => TypeOK
<1> SUFFICES ASSUME Init PROVE TypeOK
  OBVIOUS
<1>1. config \in [Procs -> [aud : Audiences, allow : BOOLEAN]]
  BY Zenon, AuthSessionAssumption DEF Init
<1>2. logout \in [Procs -> LogoutPCs]
  BY Zenon DEF Init, LogoutPCs
<1>3. why \in [Requests -> Revocation]
  BY Zenon DEF Init, Revocation
<1>4. flight \in [Procs -> [leader : Requests \cup {NoRequest},
                            accepted : SUBSET ObservedVersion]]
  BY Zenon, InitialValues DEF Init
<1>5. pc \in [Requests -> PCs]
  BY Zenon, PCNames DEF Init
<1>6. call \in [Requests -> [st : {"none", "sent", "ok", "rejected"}, token : Nat,
                             access : AccessToken]]
  BY Zenon, InitialValues DEF Init
<1>7. row \in GatewaySession /\ snap \in [Requests -> GatewaySession]
      /\ work \in [Requests -> GatewaySession]
  BY Zenon, InitialValues DEF Init
<1>8. now \in Nat /\ since \in [Requests -> Nat] /\ tries \in [Requests -> Nat]
      /\ remote \in [current : Nat, alive : BOOLEAN] /\ verified \subseteq Nat
      /\ late \in [Requests -> BOOLEAN]
  BY AuthSessionAssumption DEF Init
<1> QED BY Zenon, <1>1, <1>2, <1>3, <1>4, <1>5, <1>6, <1>7, <1>8 DEF Init, TypeOK

\* The steps of the loop of auth_decision keep the types.
LEMMA TypeLoop ==
    ASSUME TypeOK, NEW r \in Requests,
           Start(r) \/ Lookup(r) \/ Check(r) \/ Touch(r) \/ TouchUpdate(r) \/ Touched(r)
    PROVE  TypeOK'
<1>1. CASE Start(r)
  BY Zenon, <1>1, GotoType, PCNames, AuthSessionAssumption DEF Start, TypeOK, Over
<1>2. CASE Lookup(r)
  <2>1. CASE IterationLeft(r) /\ Goto(r, "check") /\ tries' = [tries EXCEPT ![r] = @ - 1]
             /\ snap' = [snap EXCEPT ![r] = row]
    BY SMTT(60), <1>2, <2>1, GotoType, PCNames DEF Lookup, TypeOK, IterationLeft, ghostVars
  <2>2. CASE \E d \in {"unauthenticated", "unavailable"} : Decide(r, d)
    BY SMTT(60), <1>2, <2>2, DecideType, PCNames DEF Lookup, TypeOK, ghostVars
  <2> QED BY Zenon, <1>2, <2>1, <2>2 DEF Lookup
<1>3. CASE Check(r)
  <2>1. CASE acquire(r) /\ UNCHANGED tries
    <3>1. pc' \in [Requests -> PCs] /\ since' \in [Requests -> Nat]
      BY Zenon, <2>1, GotoType, PCNames DEF acquire
    <3>2. snap' \in [Requests -> GatewaySession]
      BY Zenon, <2>1, InitialValues DEF acquire, TypeOK
    <3>3. flight' \in [Procs -> [leader : Requests \cup {NoRequest},
                                 accepted : SUBSET ObservedVersion]]
      <4>1. observed_version(snap[r]) \in ObservedVersion
        BY Zenon DEF TypeOK, observed_version, ObservedVersion, GatewaySession
      <4>2. [leader |-> r, accepted |-> {observed_version(snap[r])}]
              \in [leader : Requests \cup {NoRequest}, accepted : SUBSET ObservedVersion]
        BY Zenon, <4>1
      <4> QED BY Zenon, <4>2, <2>1, AuthSessionAssumption DEF acquire, TypeOK
    <3> QED BY Zenon, <1>3, <2>1, <3>1, <3>2, <3>3 DEF Check, TypeOK, ghostVars
  <2>2. CASE Goto(r, "touch") /\ UNCHANGED <<tries, snap, flight>>
    BY Zenon, <1>3, <2>2, GotoType, PCNames DEF Check, TypeOK, ghostVars
  <2>3. CASE Decide(r, "forbidden") /\ UNCHANGED flight
    BY Zenon, <1>3, <2>3, DecideType, PCNames DEF Check, TypeOK, ghostVars
  <2> QED BY Zenon, <1>3, <2>1, <2>2, <2>3 DEF Check
<1>4. CASE Touch(r)
  <2>1. CASE Continue(r)
    BY Zenon, <1>4, <2>1, ContinueType DEF Touch, TypeOK, ghostVars
  <2>2. CASE Decide(r, "allow")
    BY Zenon, <1>4, <2>2, DecideType, PCNames DEF Touch, TypeOK, ghostVars
  <2>3. CASE Goto(r, "touch_update") /\ UNCHANGED <<tries, snap>>
    BY Zenon, <1>4, <2>3, GotoType, PCNames DEF Touch, TypeOK, ghostVars
  <2> QED BY Zenon, <1>4, <2>1, <2>2, <2>3 DEF Touch
<1>5. CASE TouchUpdate(r)
  <2>1. CASE /\ row' = touch_ready_Update(row, touch_Candidate(snap[r], since[r]), since[r])
             /\ GotoAt(r, "touched", since[r])
             /\ UNCHANGED <<tries, snap>>
    <3>1. row' \in GatewaySession
      BY Zenon, <2>1, RowTouch DEF TypeOK
    <3> QED BY Zenon, <1>5, <2>1, <3>1, GotoAtType, PCNames DEF TouchUpdate, TypeOK, ghostVars
  <2>2. CASE Continue(r) /\ UNCHANGED row
    BY Zenon, <1>5, <2>2, ContinueType DEF TouchUpdate, TypeOK, ghostVars
  <2>3. CASE Decide(r, "unavailable") /\ UNCHANGED row
    BY Zenon, <1>5, <2>3, DecideType, PCNames DEF TouchUpdate, TypeOK, ghostVars
  <2> QED BY Zenon, <1>5, <2>1, <2>2, <2>3 DEF TouchUpdate
<1>6. CASE Touched(r)
  <2>1. CASE Continue(r)
    BY Zenon, <1>6, <2>1, ContinueType DEF Touched, TypeOK, ghostVars
  <2>2. CASE \E d \in {"allow", "unavailable"} : Decide(r, d)
    BY Zenon, <1>6, <2>2, DecideType, PCNames DEF Touched, TypeOK, ghostVars
  <2> QED BY Zenon, <1>6, <2>1, <2>2 DEF Touched
<1> QED BY Zenon, <1>1, <1>2, <1>3, <1>4, <1>5, <1>6

\* What a step of the leader does to the control state and its locals.
Moves(r) ==
    \/ \E next \in PCs, session \in GatewaySession, reason \in Revocation :
          GoOnWith(r, next, session, reason)
    \/ \E next \in PCs, t \in Nat : GotoAt(r, next, t) /\ UNCHANGED flightLocals

LEMMA MovesType ==
    ASSUME TypeOK, NEW r \in Requests, Moves(r)
    PROVE  LocalsTyped'
<1>1. ASSUME NEW next \in PCs, NEW session \in GatewaySession, NEW reason \in Revocation,
             GoOnWith(r, next, session, reason)
      PROVE  LocalsTyped'
  BY Zenon, <1>1, GoOnWithType
<1>2. ASSUME NEW next \in PCs, NEW t \in Nat, GotoAt(r, next, t), UNCHANGED flightLocals
      PROVE  LocalsTyped'
  BY Zenon, <1>2, GotoAtType DEF flightLocals, TypeOK, LocalsTyped
<1> QED BY Zenon, <1>1, <1>2 DEF Moves

\* The ways in which a leader goes on are moves.
LEMMA MovesCases ==
    ASSUME TypeOK, NEW r \in Requests
    PROVE  /\ \A next \in PCs : Proceed(r, next) => Moves(r)
           /\ \A outcome \in Publishing : Publish(r, outcome) => Moves(r)
           /\ \A session \in GatewaySession : RecoverWith(r, session) => Moves(r)
           /\ \A session \in GatewaySession, reason \in Revocation :
                 RevokeExpected(r, session, reason) => Moves(r)
           /\ UseCurrentWithoutRefresh(r) => Moves(r)
           /\ UseCurrent(r) => Moves(r)
<1>1. \A next \in PCs : Proceed(r, next) => Moves(r)
  <2> SUFFICES ASSUME NEW next \in PCs, Proceed(r, next) PROVE Moves(r)
    OBVIOUS
  <2> DEFINE t == IF next \in ClockPCs THEN now ELSE StartTime
  <2>1. t \in Nat
    BY Zenon, AuthSessionAssumption DEF TypeOK
  <2>2. GotoAt(r, next, t) /\ UNCHANGED flightLocals
    BY Zenon DEF Proceed, Goto, GotoAt
  <2> HIDE DEF t
  <2> QED BY Zenon, <2>1, <2>2 DEF Moves
<1>2. "no" \in Revocation /\ Publishing \subseteq PCs
  BY Zenon DEF Revocation, PCs, LeaderPCs
<1>3. \A outcome \in Publishing : Publish(r, outcome) => Moves(r)
  BY Zenon, <1>2, InitialValues DEF Moves, Publish
<1>4. \A session \in GatewaySession : RecoverWith(r, session) => Moves(r)
  BY Zenon, <1>2, PCNames DEF Moves, RecoverWith
<1>5. \A session \in GatewaySession, reason \in Revocation :
         RevokeExpected(r, session, reason) => Moves(r)
  BY Zenon, PCNames DEF Moves, RevokeExpected
<1>6. UseCurrentWithoutRefresh(r) => Moves(r)
  BY Zenon, <1>3, <1>4 DEF UseCurrentWithoutRefresh, TypeOK, Publishing
<1>7. UseCurrent(r) => Moves(r)
  BY Zenon, <1>3, <1>6 DEF UseCurrent, Publishing
<1> QED BY Zenon, <1>1, <1>3, <1>4, <1>5, <1>6, <1>7

\* The steps of the leader keep the types.
LEMMA TypeLeader ==
    ASSUME TypeOK, NEW r \in Requests,
           \/ Execute(r) \/ RefreshFails(r) \/ RefreshReturns(r)
           \/ PersistPending(r) \/ PersistResolved(r)
           \/ Recover(r) \/ FinalizePending(r) \/ FinalizeResolved(r)
           \/ RevokeLookup(r) \/ ConditionalRevoke(r) \/ Panic(r)
    PROVE  TypeOK'
<1> USE DEF leaderFrame
<1>0. /\ \A next \in PCs : Proceed(r, next) => Moves(r)
      /\ \A outcome \in Publishing : Publish(r, outcome) => Moves(r)
      /\ \A session \in GatewaySession : RecoverWith(r, session) => Moves(r)
      /\ \A session \in GatewaySession, reason \in Revocation :
            RevokeExpected(r, session, reason) => Moves(r)
      /\ UseCurrentWithoutRefresh(r) => Moves(r)
      /\ UseCurrent(r) => Moves(r)
      /\ Publishing = {"publish_ready", "publish_rejected", "publish_unavailable"}
      /\ snap[r] \in GatewaySession /\ work[r] \in GatewaySession /\ row \in GatewaySession
      /\ {"remote", "audience"} \subseteq Revocation
  BY Zenon, MovesCases DEF Publishing, TypeOK, Revocation
<1>1. CASE Execute(r)
  <2>1. CASE Moves(r)
    BY Zenon, <1>1, <2>1, MovesType DEF Execute, TypeOK, LocalsTyped
  <2>2. CASE /\ Goto(r, "refresh")
             /\ call' = [call EXCEPT ![r] = [NoCall EXCEPT !.st = "sent",
                                               !.token = snap[r].refresh_token]]
             /\ UNCHANGED <<snap, work, why, lost>>
    <3>0. [NoCall EXCEPT !.st = "sent", !.token = snap[r].refresh_token]
            \in [st : {"none", "sent", "ok", "rejected"}, token : Nat, access : AccessToken]
      BY Zenon, <1>0, InitialValues DEF NoCall, GatewaySession
    <3>1. call' \in [Requests -> [st : {"none", "sent", "ok", "rejected"}, token : Nat,
                                  access : AccessToken]]
      BY Zenon, <2>2, <3>0 DEF TypeOK
    <3> QED BY Zenon, <1>1, <2>2, <3>1, GotoType, PCNames DEF Execute, TypeOK
  <2> QED BY Zenon, <1>0, <1>1, <2>1, <2>2 DEF Execute
<1>2. CASE RefreshFails(r)
  BY Zenon, <1>0, <1>2, MovesType DEF RefreshFails, Abandon, TypeOK, LocalsTyped
<1>3. CASE RefreshReturns(r)
  <2>1. Moves(r)
    BY Zenon, <1>0, <1>3, PCNames DEF RefreshReturns
  <2>2. flight' \in [Procs -> [leader : Requests \cup {NoRequest},
                               accepted : SUBSET ObservedVersion]]
    <3>1. [generation |-> snap[r].refresh_generation + 1, identity_state |-> "pending"]
            \in ObservedVersion
      <4>1. snap[r].refresh_generation \in Nat
        BY Zenon, <1>0 DEF GatewaySession
      <4> QED BY SMTT(60), <4>1 DEF ObservedVersion, IdentityState
    <3>2. Home[r] \in Procs
      BY Zenon, AuthSessionAssumption
    <3>3. CASE UNCHANGED flight
      BY Zenon, <3>3 DEF TypeOK
    <3>4. ASSUME NEW v \in ObservedVersion,
                 flight' = [flight EXCEPT ![Home[r]].accepted = @ \cup {v}]
          PROVE  flight' \in [Procs -> [leader : Requests \cup {NoRequest},
                                        accepted : SUBSET ObservedVersion]]
      <4> DEFINE F == [leader : Requests \cup {NoRequest}, accepted : SUBSET ObservedVersion]
                 g == [flight[Home[r]] EXCEPT !.accepted = @ \cup {v}]
      <4>1. flight \in [Procs -> F] /\ flight[Home[r]] \in F
        BY Zenon, <3>2 DEF TypeOK
      <4>2. g \in F
        BY Zenon, <4>1
      <4>3. flight' = [flight EXCEPT ![Home[r]] = g]
        BY Zenon, <3>4
      <4> HIDE DEF F, g
      <4>4. flight' \in [Procs -> F]
        BY ZenonT(60), <4>1, <4>2, <4>3
      <4> QED BY Zenon, <4>4 DEF F
    <3> QED BY Zenon, <1>3, <3>1, <3>3, <3>4 DEF RefreshReturns
  <2> QED BY Zenon, <1>3, <2>1, <2>2, MovesType DEF RefreshReturns, TypeOK, LocalsTyped
<1>4. CASE PersistPending(r)
  <2>1. CASE Publish(r, "publish_unavailable") /\ UNCHANGED row
    BY Zenon, <1>0, <1>4, <2>1, MovesType DEF PersistPending, TypeOK, LocalsTyped
  <2>2. ASSUME NEW t \in Clock(r), GotoAt(r, "persisted", t),
               row' = persist_pending_Update(row, call[r].token, call[r].access),
               call' = [call EXCEPT ![r] = NoCall],
               UNCHANGED <<snap, work, why, lost>>
        PROVE  TypeOK'
    <3>1. row' \in GatewaySession
      BY Zenon, <1>0, <2>2, RowPersist DEF TypeOK
    <3>2. pc' \in [Requests -> PCs] /\ since' \in [Requests -> Nat]
      BY Zenon, <2>2, ClockType, GotoAtType, PCNames
    <3>3. call' \in [Requests -> [st : {"none", "sent", "ok", "rejected"}, token : Nat,
                                  access : AccessToken]]
      BY Zenon, <2>2, InitialValues DEF TypeOK
    <3> QED BY Zenon, <1>4, <2>2, <3>1, <3>2, <3>3 DEF PersistPending, TypeOK
  <2>3. ASSUME NEW t \in Clock(r), GotoAt(r, "persist_lost", t),
               UNCHANGED <<row, call, snap, work, why, lost>>
        PROVE  TypeOK'
    <3>1. pc' \in [Requests -> PCs] /\ since' \in [Requests -> Nat]
      BY Zenon, <2>3, ClockType, GotoAtType, PCNames
    <3> QED BY Zenon, <1>4, <2>3, <3>1 DEF PersistPending, TypeOK
  <2> QED BY Zenon, <1>4, <2>1, <2>2, <2>3 DEF PersistPending
<1>5. CASE PersistResolved(r)
  BY Zenon, <1>0, <1>5, MovesType DEF PersistResolved, TypeOK, LocalsTyped
<1>6. CASE Recover(r)
  <2>1. Moves(r)
    BY ZenonT(60), <1>0, <1>6, PCNames DEF Recover
  <2>2. verified' \subseteq Nat
    BY ZenonT(60), <1>0, <1>6 DEF Recover, TypeOK, GatewaySession
  <2> QED BY ZenonT(60), <1>6, <2>1, <2>2, MovesType DEF Recover, TypeOK, LocalsTyped
<1>7. CASE FinalizePending(r)
  <2>1. Moves(r)
    BY Zenon, <1>0, <1>7, PCNames, ClockType DEF FinalizePending, Moves
  <2>2. row' \in GatewaySession
    BY Zenon, <1>0, <1>7, RowFinalize DEF FinalizePending
  <2> QED BY Zenon, <1>7, <2>1, <2>2, MovesType DEF FinalizePending, TypeOK, LocalsTyped
<1>8. CASE FinalizeResolved(r)
  BY Zenon, <1>0, <1>8, MovesType DEF FinalizeResolved, TypeOK, LocalsTyped
<1>9. CASE RevokeLookup(r)
  <2>1. Moves(r)
    BY ZenonT(60), <1>0, <1>9, PCNames DEF RevokeLookup
  <2> QED BY Zenon, <1>9, <2>1, MovesType DEF RevokeLookup, TypeOK, LocalsTyped
<1>10. CASE ConditionalRevoke(r)
  <2>1. Moves(r)
    BY Zenon, <1>0, <1>10, PCNames DEF ConditionalRevoke
  <2>2. why[r] \in Revocation /\ lapsed \in BOOLEAN
    BY Zenon DEF TypeOK
  <2>3. row' \in GatewaySession /\ lapsed' \in BOOLEAN
    BY ZenonT(60), <1>0, <1>10, <2>2, RowRevoke DEF ConditionalRevoke
  <2> QED BY Zenon, <1>10, <2>1, <2>3, MovesType DEF ConditionalRevoke, TypeOK, LocalsTyped
<1>11. CASE Panic(r)
  BY Zenon, <1>0, <1>11, MovesType DEF Panic, Abandon, TypeOK, LocalsTyped
<1> QED BY Zenon, <1>1, <1>2, <1>3, <1>4, <1>5, <1>6, <1>7, <1>8, <1>9, <1>10, <1>11

\* The end of a flight keeps the types.
LEMMA TypeComplete ==
    ASSUME TypeOK, NEW r \in Requests, Complete(r)
    PROVE  TypeOK'
<1>1. OutcomeDecision(pc[r]) \in PCs
  BY Zenon, PCNames DEF Complete, Publishing, OutcomeDecision
<1>2. pc' \in [Requests -> PCs]
  BY Zenon, <1>1, PCNames DEF Complete, TypeOK
<1>3. since' \in [Requests -> Nat] /\ tries' \in [Requests -> Nat]
  BY Zenon DEF Complete, TypeOK
<1>4. flight' \in [Procs -> [leader : Requests \cup {NoRequest},
                             accepted : SUBSET ObservedVersion]]
  BY Zenon, InitialValues, AuthSessionAssumption DEF Complete, TypeOK
<1> QED BY Zenon, <1>2, <1>3, <1>4 DEF Complete, TypeOK, ghostVars

\* auth-mini, logout, pruning and time keep the types.
LEMMA TypeEnvironment ==
    ASSUME TypeOK,
           \/ \E r \in Requests : RemoteRefresh(r)
           \/ \E p \in Procs : LogoutSnapshot(p) \/ LogoutRevoke(p) \/ LogoutRemote(p)
           \/ RemoteOrphan \/ RemoteInvalidate \/ Prune \/ Tick
    PROVE  TypeOK'
<1>1. ASSUME NEW r \in Requests, RemoteRefresh(r) PROVE TypeOK'
  <2>1. CASE UNCHANGED <<remote, orphan>> /\ call' = [call EXCEPT ![r].st = "rejected"]
    <3>1. call' \in [Requests -> [st : {"none", "sent", "ok", "rejected"}, token : Nat,
                                  access : AccessToken]]
      BY SMTT(60), <2>1 DEF TypeOK
    <3> QED BY Zenon, <1>1, <2>1, <3>1 DEF RemoteRefresh, RemoteFrame, TypeOK
  <2>2. ASSUME NEW access \in Issued, orphan' = FALSE,
               remote' = [remote EXCEPT !.current = @ + 1],
               call' = [call EXCEPT ![r] = [st |-> "ok", token |-> remote.current + 1,
                                            access |-> access]]
        PROVE  TypeOK'
    <3>1. access \in AccessToken
      BY AuthSessionAssumption DEF Issued, AccessToken, TypeOK
    <3>2. call' \in [Requests -> [st : {"none", "sent", "ok", "rejected"}, token : Nat,
                                  access : AccessToken]]
      BY <2>2, <3>1 DEF TypeOK
    <3>3. remote' \in [current : Nat, alive : BOOLEAN]
      <4>1. remote \in [current : Nat, alive : BOOLEAN] /\ remote.current + 1 \in Nat
        BY DEF TypeOK
      <4> QED BY Zenon, <2>2, <4>1
    <3> QED BY ZenonT(60), <1>1, <2>2, <3>2, <3>3 DEF RemoteRefresh, RemoteFrame, TypeOK
  <2> QED BY Zenon, <1>1, <2>1, <2>2 DEF RemoteRefresh
<1>2. ASSUME NEW p \in Procs, LogoutSnapshot(p) PROVE TypeOK'
  BY Zenon, <1>2 DEF LogoutSnapshot, logoutFrame, flightVars, TypeOK, LogoutPCs
<1>3. ASSUME NEW p \in Procs, LogoutRevoke(p) PROVE TypeOK'
  <2>1. row' \in GatewaySession /\ lapsed' \in BOOLEAN
    <3>1. revoke_Update(row, "logout") \in GatewaySession
      BY Zenon, RowRevoke DEF Revocation, TypeOK
    <3>2. row \in GatewaySession /\ lapsed \in BOOLEAN
      BY Zenon DEF TypeOK
    <3> QED BY Zenon, <1>3, <3>1, <3>2 DEF LogoutRevoke
  <2>2. logout' \in [Procs -> LogoutPCs]
    BY <1>3 DEF LogoutRevoke, TypeOK, LogoutPCs
  <2> QED BY Zenon, <1>3, <2>1, <2>2 DEF LogoutRevoke, logoutFrame, flightVars, TypeOK
<1>4. ASSUME NEW p \in Procs, LogoutRemote(p) PROVE TypeOK'
  <2>1. logout' \in [Procs -> LogoutPCs]
    BY Zenon, <1>4 DEF LogoutRemote, TypeOK, LogoutPCs
  <2>2. remote' \in [current : Nat, alive : BOOLEAN]
    BY Zenon, <1>4 DEF LogoutRemote, TypeOK
  <2> QED BY Zenon, <1>4, <2>1, <2>2 DEF LogoutRemote, logoutFrame, flightVars, TypeOK
<1>5. CASE RemoteOrphan
  <2>1. remote' \in [current : Nat, alive : BOOLEAN] /\ lost' \in BOOLEAN
    <3>1. /\ remote \in [current : Nat, alive : BOOLEAN] /\ remote.current + 1 \in Nat
          /\ lost \in BOOLEAN
      BY DEF TypeOK
    <3>2. CASE remote' = [remote EXCEPT !.current = @ + 1] /\ lost' = TRUE
      BY Zenon, <3>1, <3>2
    <3>3. CASE UNCHANGED <<remote, lost>>
      BY Zenon, <3>1, <3>3
    <3> QED BY Zenon, <1>5, <3>2, <3>3 DEF RemoteOrphan
  <2> QED BY Zenon, <1>5, <2>1 DEF RemoteOrphan, RemoteFrame, TypeOK
<1>6. CASE RemoteInvalidate
  <2>1. remote' \in [current : Nat, alive : BOOLEAN]
    BY Zenon, <1>6 DEF RemoteInvalidate, TypeOK
  <2> QED BY Zenon, <1>6, <2>1 DEF RemoteInvalidate, RemoteFrame, TypeOK
<1>7. CASE Prune
  BY ZenonT(60), <1>7 DEF Prune, logoutFrame, flightVars, TypeOK
<1>8. CASE Tick
  BY <1>8 DEF Tick, flightVars, TypeOK
<1> QED BY Zenon, <1>1, <1>2, <1>3, <1>4, <1>5, <1>6, <1>7, <1>8

\* A restart keeps the types.
LEMMA TypeCrash ==
    ASSUME TypeOK, NEW p \in Procs, Crash(p)
    PROVE  TypeOK'
<1>1. config' \in [Procs -> [aud : Audiences, allow : BOOLEAN]]
  BY SMTT(60), AuthSessionAssumption DEF Crash, TypeOK
<1>2. flight' \in [Procs -> [leader : Requests \cup {NoRequest},
                             accepted : SUBSET ObservedVersion]]
  BY Zenon, InitialValues DEF Crash, TypeOK
<1>3. logout' \in [Procs -> LogoutPCs]
  BY Zenon DEF Crash, TypeOK, LogoutPCs
<1>4. pc' \in [Requests -> PCs]
  BY Zenon, PCNames DEF Crash, TypeOK
<1>5. snap' \in [Requests -> GatewaySession] /\ work' \in [Requests -> GatewaySession]
  BY Zenon, InitialValues DEF Crash, TypeOK
<1>6. why' \in [Requests -> Revocation]
  BY Zenon DEF Crash, TypeOK, Revocation
<1>7. call' \in [Requests -> [st : {"none", "sent", "ok", "rejected"}, token : Nat,
                              access : AccessToken]]
  BY Zenon, InitialValues DEF Crash, TypeOK
<1>8. /\ tries' \in [Requests -> Nat] /\ since' \in [Requests -> Nat]
      /\ late' \in [Requests -> BOOLEAN] /\ lost' \in BOOLEAN /\ orphan' \in BOOLEAN
  BY Zenon, AuthSessionAssumption DEF Crash, TypeOK
<1> QED BY Zenon, <1>1, <1>2, <1>3, <1>4, <1>5, <1>6, <1>7, <1>8 DEF Crash, TypeOK

\* Every step keeps the types.
LEMMA TypeNext == TypeOK /\ [Next]_vars => TypeOK'
<1> SUFFICES ASSUME TypeOK, [Next]_vars PROVE TypeOK'
  OBVIOUS
<1>1. ASSUME NEW r \in Requests, Start(r) \/ Step(r) \/ Panic(r) PROVE TypeOK'
  BY Zenon, <1>1, TypeLoop, TypeLeader, TypeComplete DEF Step
<1>2. ASSUME NEW p \in Procs, Crash(p) PROVE TypeOK'
  BY Zenon, <1>2, TypeCrash
<1>3. CASE UNCHANGED vars
  BY Zenon, <1>3 DEF vars, flightVars, ghostVars, TypeOK
<1> QED BY Zenon, <1>1, <1>2, <1>3, TypeEnvironment DEF Next

\* In every reachable state of every instance each variable has its type: no
\* interleaving of the statements of src/src/db.rs, the registry of
\* src/src/flight.rs and crashes leaves a malformed row, registry entry or local.
THEOREM TypeCorrect == Spec => []TypeOK
BY TypeInit, TypeNext, PTL DEF Spec

-----------------------------------------------------------------------------
(* What a step may do to the row.                                          *)

\* The statements that write the row, with the conditions under which they do.
TouchesRow(r) ==
    /\ pc[r] = "touch_update" /\ stored
    /\ touch_ready_Matches(row, snap[r], since[r])
    /\ row' = touch_ready_Update(row, touch_Candidate(snap[r], since[r]), since[r])

PersistsRow(r) ==
    /\ pc[r] = "persist" /\ stored
    /\ \E t \in Clock(r) : persist_pending_Matches(row, snap[r], t)
    /\ row' = persist_pending_Update(row, call[r].token, call[r].access)

FinalizesRow(r) ==
    /\ pc[r] = "finalize" /\ stored
    /\ \E t \in Clock(r) : finalize_pending_Matches(row, work[r], t)
    /\ row' = finalize_pending_Update(row)

RevokesRow ==
    /\ stored /\ row.revoked = "no" /\ lapsed'
    /\ \E by \in Revocation : row' = revoke_Update(row, by)

WritesRow ==
    \/ \E r \in Requests : TouchesRow(r) \/ PersistsRow(r) \/ FinalizesRow(r)
    \/ RevokesRow

\* A step writes the row in one of the four ways, or leaves it; a deleted row stays
\* deleted.
LEMMA RowStep ==
    ASSUME TypeOK, [Next]_vars
    PROVE  (row' = row \/ WritesRow) /\ (~stored => ~stored')
<1>1. ASSUME NEW r \in Requests,
             \/ Start(r) \/ Lookup(r) \/ Check(r) \/ Touch(r) \/ Touched(r)
      PROVE  row' = row /\ stored' = stored
  BY Zenon, <1>1 DEF Start, Lookup, Check, Touch, Touched
<1>2. ASSUME NEW r \in Requests, TouchUpdate(r)
      PROVE  (row' = row \/ TouchesRow(r)) /\ stored' = stored
  BY Zenon, <1>2 DEF TouchUpdate, TouchesRow
<1>3. ASSUME NEW r \in Requests,
             \/ Execute(r) \/ RefreshFails(r) \/ RefreshReturns(r) \/ PersistResolved(r)
             \/ Recover(r) \/ FinalizeResolved(r) \/ RevokeLookup(r) \/ Panic(r)
             \/ Complete(r)
      PROVE  row' = row /\ stored' = stored
  BY Zenon, <1>3 DEF Execute, RefreshFails, RefreshReturns, PersistResolved, Recover,
     FinalizeResolved, RevokeLookup, Panic, Complete, leaderFrame
<1>4. ASSUME NEW r \in Requests, PersistPending(r)
      PROVE  (row' = row \/ PersistsRow(r)) /\ stored' = stored
  BY Zenon, <1>4 DEF PersistPending, PersistsRow, leaderFrame
<1>5. ASSUME NEW r \in Requests, FinalizePending(r)
      PROVE  (row' = row \/ FinalizesRow(r)) /\ stored' = stored
  BY Zenon, <1>5 DEF FinalizePending, FinalizesRow, leaderFrame
<1>6. ASSUME NEW r \in Requests, ConditionalRevoke(r)
      PROVE  (row' = row \/ RevokesRow) /\ stored' = stored
  <2>1. why[r] \in Revocation
    BY Zenon DEF TypeOK
  <2> QED BY Zenon, <1>6, <2>1 DEF ConditionalRevoke, RevokesRow, conditional_revoke_Matches,
     is_active, leaderFrame
<1>7. ASSUME NEW r \in Requests, RemoteRefresh(r)
      PROVE  row' = row /\ stored' = stored
  BY Zenon, <1>7 DEF RemoteRefresh, RemoteFrame
<1>8. ASSUME NEW p \in Procs, LogoutSnapshot(p) \/ LogoutRemote(p) \/ Crash(p)
      PROVE  row' = row /\ stored' = stored
  BY Zenon, <1>8 DEF LogoutSnapshot, LogoutRemote, Crash
<1>9. ASSUME NEW p \in Procs, LogoutRevoke(p)
      PROVE  (row' = row \/ RevokesRow) /\ stored' = stored
  <2>1. "logout" \in Revocation
    BY Zenon DEF Revocation
  <2> QED BY Zenon, <1>9, <2>1 DEF LogoutRevoke, RevokesRow, revoke_session_Matches
<1>10. ASSUME RemoteOrphan \/ RemoteInvalidate \/ Prune \/ Tick
       PROVE  row' = row /\ (~stored => ~stored')
  BY <1>10 DEF RemoteOrphan, RemoteInvalidate, RemoteFrame, Prune, Tick
<1>11. CASE UNCHANGED vars
  BY Zenon, <1>11 DEF vars
<1> QED BY Zenon, <1>1, <1>2, <1>3, <1>4, <1>5, <1>6, <1>7, <1>8, <1>9, <1>10, <1>11
           DEF Next, Step, WritesRow

\* Every statement that writes demands an active row, so a revoked row stays as it is.
LEMMA WritesOnlyLive ==
    ASSUME WritesRow
    PROVE  row.revoked = "no" /\ stored
BY Zenon DEF WritesRow, TouchesRow, PersistsRow, FinalizesRow, RevokesRow, touch_ready_Matches,
   persist_pending_Matches, finalize_pending_Matches, is_active

\* A revoked row is frozen and a deleted one stays deleted, whatever refresh, recovery,
\* touch or logout is under way in whatever process: the WHERE clauses of src/src/db.rs
\* alone ensure it.
THEOREM RevocationIsTerminal == Spec => RevokedIsTerminal
<1>1. TypeOK /\ [Next]_vars =>
         [ /\ row.revoked # "no" => row' = row
           /\ ~stored => ~stored' /\ row' = row ]_vars
  BY Zenon, RowStep, WritesOnlyLive
<1> QED BY <1>1, TypeCorrect, PTL DEF Spec, RevokedIsTerminal

-----------------------------------------------------------------------------
(* What a step may do to the locals of an auth check.                      *)

\* The locals of the auth checks are functions on Requests.
LocalDomains ==
    /\ DOMAIN pc = Requests /\ DOMAIN since = Requests /\ DOMAIN tries = Requests
    /\ DOMAIN snap = Requests /\ DOMAIN work = Requests /\ DOMAIN why = Requests
    /\ DOMAIN call = Requests /\ DOMAIN late = Requests

LEMMA LocalsHaveDomains == TypeOK => LocalDomains
BY Zenon DEF TypeOK, LocalDomains

\* A session kept by an auth check is one it was started with or has just read, and the
\* three program points from which the row is written are reached with what their
\* statement needs.
LocalStep(q) ==
    /\ snap'[q] \in {snap[q], FirstRow, row}
    /\ work'[q] \in {work[q], snap[q], FirstRow, row}
    /\ pc'[q] = "touch_update" =>
          /\ snap'[q] = snap[q]
          /\ \/ pc[q] = "touch_update" /\ since'[q] = since[q]
             \/ ~touch_NotDue(snap[q], now) /\ since'[q] = now
    /\ pc'[q] = "persist" =>
          /\ snap'[q] = snap[q] /\ call'[q] = call[q]
          /\ pc[q] = "persist" \/ same_identity(snap[q], call[q].access)
    /\ pc'[q] = "finalize" =>
          /\ work'[q] = work[q]
          /\ pc[q] = "finalize" \/ work[q].refresh_generation \in verified'

LEMMA LocalLoop ==
    ASSUME TypeOK, NEW r \in Requests, NEW q \in Requests,
           Start(r) \/ Lookup(r) \/ Check(r) \/ Touch(r) \/ TouchUpdate(r) \/ Touched(r)
    PROVE  LocalStep(q)
<1>0. LocalDomains
  BY Zenon, LocalsHaveDomains
<1> USE DEF LocalDomains, LocalStep, Goto, GotoAt, Decide, Continue, ghostVars
<1>1. CASE Start(r)
  BY Zenon, <1>0, <1>1 DEF Start
<1>2. CASE Lookup(r)
  BY <1>0, <1>2 DEF Lookup
<1>3. CASE Check(r)
  BY <1>0, <1>3 DEF Check, acquire
<1>4. CASE Touch(r)
  BY <1>0, <1>4 DEF Touch, ClockPCs
<1>5. CASE TouchUpdate(r)
  BY <1>0, <1>5 DEF TouchUpdate
<1>6. CASE Touched(r)
  BY <1>0, <1>6 DEF Touched
<1> QED BY Zenon, <1>1, <1>2, <1>3, <1>4, <1>5, <1>6

\* A flight that goes on with one session, or with none.
LEMMA GoOnLocals ==
    ASSUME TypeOK, NEW r \in Requests, NEW q \in Requests,
           NEW next \in {"recover", "revoke_lookup", "publish_ready", "publish_unavailable"},
           NEW session \in {snap[r], work[r], row, FirstRow}, NEW reason,
           GoOnWith(r, next, session, reason)
    PROVE  LocalStep(q)
<1>0. LocalDomains
  BY Zenon, LocalsHaveDomains
<1>1. q # r => /\ pc'[q] = pc[q] /\ since'[q] = since[q] /\ call'[q] = call[q]
               /\ snap'[q] = snap[q] /\ work'[q] = work[q]
  BY Zenon, <1>0 DEF GoOnWith, Goto, GotoAt, LocalDomains
<1>2. pc'[r] = next /\ snap'[r] = FirstRow /\ work'[r] = session
  BY Zenon, <1>0 DEF GoOnWith, Goto, GotoAt, LocalDomains
<1>3. next \notin {"touch_update", "persist", "finalize"}
  OBVIOUS
<1> QED BY Zenon, <1>1, <1>2, <1>3 DEF LocalStep

LEMMA LocalLeader ==
    ASSUME TypeOK, NEW r \in Requests, NEW q \in Requests,
           \/ Execute(r) \/ RefreshFails(r) \/ RefreshReturns(r)
           \/ PersistPending(r) \/ PersistResolved(r)
           \/ Recover(r) \/ FinalizePending(r) \/ FinalizeResolved(r)
           \/ RevokeLookup(r) \/ ConditionalRevoke(r) \/ Panic(r)
    PROVE  LocalStep(q)
<1>0. LocalDomains
  BY Zenon, LocalsHaveDomains
<1>1. CASE Execute(r)
  <2>1. \/ Goto(r, "refresh") /\ UNCHANGED <<snap, work>>
        \/ GoOnWith(r, "publish_unavailable", FirstRow, "no")
        \/ GoOnWith(r, "recover", snap[r], "no")
        \/ GoOnWith(r, "publish_ready", FirstRow, "no")
    BY Zenon, <1>1 DEF Execute, Publish, RecoverWith
  <2>2. CASE Goto(r, "refresh") /\ UNCHANGED <<snap, work>>
    <3>1. pc'[q] # pc[q] => pc'[q] = "refresh"
      BY Zenon, <1>0, <2>2 DEF Goto, GotoAt, LocalDomains
    <3>2. pc'[q] = pc[q] => q # r
      BY Zenon, <1>0, <1>1, <2>2 DEF Execute, Goto, GotoAt, LocalDomains
    <3>3. q # r => since'[q] = since[q] /\ call'[q] = call[q]
      BY Zenon, <1>0, <1>1, <2>2 DEF Execute, Goto, GotoAt, GoOnWith, Publish, RecoverWith, LocalDomains
    <3> QED BY Zenon, <2>2, <3>1, <3>2, <3>3 DEF LocalStep
  <2> QED BY Zenon, <2>1, <2>2, GoOnLocals
<1>3. CASE RefreshReturns(r)
  <2>1. \/ GoOnWith(r, "revoke_lookup", snap[r], "remote")
        \/ GoOnWith(r, "revoke_lookup", snap[r], "audience")
        \/ GoOnWith(r, "publish_unavailable", FirstRow, "no")
        \/ same_identity(snap[r], call[r].access) /\ Proceed(r, "persist")
    BY Zenon, <1>3 DEF RefreshReturns, Publish, RevokeExpected
  <2>2. CASE same_identity(snap[r], call[r].access) /\ Proceed(r, "persist")
    <3>1. pc'[q] = (IF q = r THEN "persist" ELSE pc[q]) /\ (q # r => since'[q] = since[q])
      BY Zenon, <1>0, <2>2 DEF Proceed, Goto, GotoAt, LocalDomains
    <3> QED BY Zenon, <2>2, <3>1 DEF Proceed, flightLocals, LocalStep
  <2> QED BY Zenon, <2>1, <2>2, GoOnLocals
<1>6. CASE Recover(r)
  <2>1. \/ work[r].refresh_generation \in verified' /\ Proceed(r, "finalize")
        \/ GoOnWith(r, "revoke_lookup", work[r], "audience")
        \/ GoOnWith(r, "publish_unavailable", FirstRow, "no")
    BY Zenon, <1>6 DEF Recover, Publish, RevokeExpected
  <2>2. CASE work[r].refresh_generation \in verified' /\ Proceed(r, "finalize")
    <3>1. pc'[q] = (IF q = r THEN "finalize" ELSE pc[q]) /\ (q # r => since'[q] = since[q])
      BY Zenon, <1>0, <2>2 DEF Proceed, Goto, GotoAt, LocalDomains
    <3> QED BY Zenon, <2>2, <3>1 DEF Proceed, flightLocals, LocalStep
  <2> QED BY Zenon, <2>1, <2>2, GoOnLocals
<1> USE DEF LocalDomains, LocalStep, Goto, GotoAt, GoOnWith, Publish, RecoverWith, RevokeExpected, Proceed,
            UseCurrent, UseCurrentWithoutRefresh, flightLocals
<1>2. CASE RefreshFails(r)
  BY Zenon, <1>0, <1>2 DEF RefreshFails
<1>4. CASE PersistPending(r)
  BY <1>0, <1>4 DEF PersistPending
<1>5. CASE PersistResolved(r)
  BY ZenonT(60), <1>0, <1>5 DEF PersistResolved
<1>7. CASE FinalizePending(r)
  BY <1>0, <1>7 DEF FinalizePending
<1>8. CASE FinalizeResolved(r)
  BY ZenonT(60), <1>0, <1>8 DEF FinalizeResolved
<1>9. CASE RevokeLookup(r)
  BY ZenonT(60), <1>0, <1>9 DEF RevokeLookup
<1>10. CASE ConditionalRevoke(r)
  BY <1>0, <1>10 DEF ConditionalRevoke
<1>11. CASE Panic(r)
  BY Zenon, <1>0, <1>11 DEF Panic
<1> QED BY Zenon, <1>1, <1>2, <1>3, <1>4, <1>5, <1>6, <1>7, <1>8, <1>9, <1>10, <1>11

LEMMA LocalOther ==
    ASSUME TypeOK, NEW q \in Requests,
           \/ \E r \in Requests : Complete(r) \/ RemoteRefresh(r)
           \/ \E p \in Procs : LogoutSnapshot(p) \/ LogoutRevoke(p) \/ LogoutRemote(p) \/ Crash(p)
           \/ RemoteOrphan \/ RemoteInvalidate \/ Prune \/ Tick \/ UNCHANGED vars
    PROVE  LocalStep(q)
<1>1. ASSUME NEW r \in Requests, Complete(r) PROVE LocalStep(q)
  <2>1. pc'[q] \in {pc[q], "lookup", "unauthenticated", "unavailable"}
    BY Zenon, <1>1 DEF Complete, OutcomeDecision, Publishing
  <2>2. q \notin {r} \cup Joined(r) \cup Closing(r) => since'[q] = since[q]
    BY Zenon, <1>1 DEF Complete
  <2>3. q \in {r} \cup Joined(r) \cup Closing(r) =>
           pc[q] \notin {"touch_update", "persist", "finalize"}
    BY Zenon, <1>1 DEF Complete, Joined, Closing, Publishing
  <2> QED BY Zenon, <1>1, <2>1, <2>2, <2>3 DEF Complete, LocalStep, ghostVars
<1>2. ASSUME NEW r \in Requests, RemoteRefresh(r) PROVE LocalStep(q)
  <2>1. pc[q] = "persist" => call'[q] = call[q]
    BY Zenon, <1>2 DEF RemoteRefresh, TypeOK
  <2> QED BY Zenon, <1>2, <2>1 DEF RemoteRefresh, RemoteFrame, LocalStep
<1>3. ASSUME NEW p \in Procs, LogoutSnapshot(p) \/ LogoutRevoke(p) \/ LogoutRemote(p)
      PROVE  LocalStep(q)
  BY Zenon, <1>3 DEF LogoutSnapshot, LogoutRevoke, LogoutRemote, logoutFrame, flightVars, LocalStep
<1>4. ASSUME NEW p \in Procs, Crash(p) PROVE LocalStep(q)
  BY Zenon, <1>4 DEF Crash, LocalStep
<1>5. CASE RemoteOrphan \/ RemoteInvalidate
  BY Zenon, <1>5 DEF RemoteOrphan, RemoteInvalidate, RemoteFrame, LocalStep
<1>6. CASE Prune \/ Tick
  BY Zenon, <1>6 DEF Prune, Tick, logoutFrame, flightVars, LocalStep
<1>7. CASE UNCHANGED vars
  BY Zenon, <1>7 DEF vars, flightVars, ghostVars, LocalStep
<1> QED BY Zenon, <1>1, <1>2, <1>3, <1>4, <1>5, <1>6, <1>7

LEMMA LocalSteps ==
    ASSUME TypeOK, [Next]_vars, NEW q \in Requests
    PROVE  LocalStep(q)
BY Zenon, LocalLoop, LocalLeader, LocalOther DEF Next, Step

-----------------------------------------------------------------------------
(* The row stays readable, keeps its user and its absolute deadline, and is *)
(* ready only when verified.                                               *)

SameSession(s) ==
    /\ s.absolute_expires_at = FirstRow.absolute_expires_at
    /\ s.user_id = Owner

\* What the statements need: all copies of the session agree on what never changes, and
\* a statement about to run has had its checks.
RowInv ==
    /\ RowValid
    /\ ReadyOnlyVerified
    /\ SameSession(row)
    /\ \A q \in Requests :
          /\ SameSession(snap[q]) /\ SameSession(work[q])
          /\ pc[q] = "touch_update" => ~touch_NotDue(snap[q], since[q])
          /\ pc[q] = "persist" => same_identity(snap[q], call[q].access)
          /\ pc[q] = "finalize" => work[q].refresh_generation \in verified

\* What a write may do to the row.
RowKept ==
    /\ row'.absolute_expires_at = row.absolute_expires_at
    /\ row'.user_id = row.user_id
    /\ row'.idle_expires_at >= row.idle_expires_at
    /\ row'.refresh_generation # row.refresh_generation =>
          /\ row'.refresh_generation = row.refresh_generation + 1
          /\ row'.identity_state = "pending"

LEMMA RowWritten ==
    ASSUME TypeOK, RowInv, row' = row \/ WritesRow, verified \subseteq verified'
    PROVE  RowValid' /\ ReadyOnlyVerified' /\ RowKept
<1> USE DEF RowValid, ReadyOnlyVerified, validate_session_invariants, RowKept
<1>0. row \in GatewaySession
  BY Zenon DEF TypeOK
<1>1. ASSUME NEW r \in Requests, TouchesRow(r)
      PROVE  RowValid' /\ ReadyOnlyVerified' /\ RowKept
  <2>1. /\ snap[r] \in GatewaySession /\ since[r] \in Nat
        /\ SameSession(snap[r]) /\ SameSession(row)
        /\ ~touch_NotDue(snap[r], since[r])
        /\ row.identity_state = "ready"
        /\ row.idle_expires_at = snap[r].idle_expires_at
        /\ row' = touch_ready_Update(row, touch_Candidate(snap[r], since[r]), since[r])
    BY Zenon, <1>1 DEF TypeOK, RowInv, TouchesRow, touch_ready_Matches
  <2>2. /\ touch_Candidate(snap[r], since[r]) \in Nat
        /\ touch_Candidate(snap[r], since[r]) <= row.absolute_expires_at
        /\ touch_Candidate(snap[r], since[r]) >= row.idle_expires_at
    BY SMTT(60), <1>0, <2>1, SessionRowAssumption DEF touch_Candidate, touch_NotDue, Minimum, SameSession,
       GatewaySession
  <2> QED BY Zenon, <1>0, <2>1, <2>2 DEF RowInv, touch_ready_Update, GatewaySession
<1>2. ASSUME NEW r \in Requests, PersistsRow(r)
      PROVE  RowValid' /\ ReadyOnlyVerified' /\ RowKept
  <2>1. /\ call[r].access.user = row.user_id
        /\ row' = persist_pending_Update(row, call[r].token, call[r].access)
    BY Zenon, <1>2 DEF RowInv, PersistsRow, same_identity, SameSession
  <2> QED BY SMTT(60), <1>0, <2>1 DEF RowInv, persist_pending_Update, GatewaySession, COMPAT_DENY_AT
<1>3. ASSUME NEW r \in Requests, FinalizesRow(r)
      PROVE  RowValid' /\ ReadyOnlyVerified' /\ RowKept
  <2>1. /\ row.refresh_generation \in verified'
        /\ row' = finalize_pending_Update(row)
    BY Zenon, <1>3 DEF RowInv, FinalizesRow, finalize_pending_Matches
  <2> QED BY SMTT(60), <1>0, <2>1 DEF RowInv, finalize_pending_Update, GatewaySession
<1>4. ASSUME NEW by \in Revocation, row' = revoke_Update(row, by)
      PROVE  RowValid' /\ ReadyOnlyVerified' /\ RowKept
  BY SMTT(60), <1>0, <1>4 DEF RowInv, revoke_Update, GatewaySession
<1>5. CASE row' = row
  BY <1>0, <1>5 DEF RowInv, GatewaySession
<1> QED BY Zenon, <1>1, <1>2, <1>3, <1>4, <1>5 DEF WritesRow, RevokesRow

\* What has been verified stays verified.
LEMMA VerifiedGrows ==
    ASSUME [Next]_vars
    PROVE  verified \subseteq verified'
<1>1. ASSUME NEW r \in Requests,
             \/ Start(r) \/ Lookup(r) \/ Check(r) \/ Touch(r) \/ TouchUpdate(r) \/ Touched(r)
             \/ Complete(r) \/ RemoteRefresh(r)
      PROVE  verified' = verified
  BY Zenon, <1>1 DEF Start, Lookup, Check, Touch, TouchUpdate, Touched, Complete, RemoteRefresh,
     RemoteFrame, ghostVars
<1>2. ASSUME NEW r \in Requests,
             \/ Execute(r) \/ RefreshFails(r) \/ RefreshReturns(r) \/ PersistPending(r)
             \/ PersistResolved(r) \/ FinalizePending(r) \/ FinalizeResolved(r)
             \/ RevokeLookup(r) \/ ConditionalRevoke(r) \/ Panic(r)
      PROVE  verified' = verified
  BY Zenon, <1>2 DEF Execute, RefreshFails, RefreshReturns, PersistPending, PersistResolved,
     FinalizePending, FinalizeResolved, RevokeLookup, ConditionalRevoke, Panic
<1>3. ASSUME NEW r \in Requests, Recover(r) PROVE verified \subseteq verified'
  BY Zenon, <1>3 DEF Recover
<1>4. ASSUME NEW p \in Procs,
             LogoutSnapshot(p) \/ LogoutRevoke(p) \/ LogoutRemote(p) \/ Crash(p)
      PROVE  verified' = verified
  BY Zenon, <1>4 DEF LogoutSnapshot, LogoutRevoke, LogoutRemote, logoutFrame, Crash
<1>5. CASE RemoteOrphan \/ RemoteInvalidate \/ Prune \/ Tick
  BY Zenon, <1>5 DEF RemoteOrphan, RemoteInvalidate, RemoteFrame, Prune, Tick, logoutFrame
<1>6. CASE UNCHANGED vars
  BY Zenon, <1>6 DEF vars, ghostVars
<1> QED BY Zenon, <1>1, <1>2, <1>3, <1>4, <1>5, <1>6 DEF Next, Step

LEMMA RowInvInit == Init => RowInv
<1> SUFFICES ASSUME Init PROVE RowInv
  OBVIOUS
<1>1. FirstRow.user_id = Owner /\ FirstRow \in GatewaySession
  BY Zenon, InitialValues DEF FirstRow, create_session, FirstAccess
<1>2. validate_session_invariants(FirstRow)
  BY AuthSessionAssumption, SessionRowAssumption DEF FirstRow, create_session, Minimum,
     validate_session_invariants
<1>3. FirstRow.refresh_generation = 0
  BY Zenon DEF FirstRow, create_session
<1> QED BY Zenon, <1>1, <1>2, <1>3 DEF Init, RowInv, RowValid, ReadyOnlyVerified, SameSession

LEMMA RowInvNext ==
    ASSUME TypeOK, RowInv, [Next]_vars
    PROVE  RowInv' /\ RowKept
<1>1. \A q \in Requests : LocalStep(q)
  BY Zenon, LocalSteps
<1>2. RowValid' /\ ReadyOnlyVerified' /\ RowKept
  BY Zenon, VerifiedGrows, RowStep, RowWritten
<1>3. SameSession(row)'
  BY Zenon, <1>2 DEF RowInv, SameSession, RowKept
<1>4. SameSession(FirstRow)
  BY Zenon DEF FirstRow, create_session, FirstAccess, SameSession
<1>5. ASSUME NEW q \in Requests
      PROVE  /\ SameSession(snap[q])' /\ SameSession(work[q])'
             /\ pc'[q] = "touch_update" => ~touch_NotDue(snap'[q], since'[q])
             /\ pc'[q] = "persist" => same_identity(snap'[q], call'[q].access)
             /\ pc'[q] = "finalize" => work'[q].refresh_generation \in verified'
  <2>1. SameSession(snap[q])' /\ SameSession(work[q])'
    BY Zenon, <1>1, <1>4 DEF LocalStep, RowInv, SameSession
  <2>2. pc'[q] = "touch_update" => ~touch_NotDue(snap'[q], since'[q])
    BY Zenon, <1>1 DEF LocalStep, RowInv
  <2>3. pc'[q] = "persist" => same_identity(snap'[q], call'[q].access)
    BY Zenon, <1>1 DEF LocalStep, RowInv
  <2>4. pc'[q] = "finalize" => work'[q].refresh_generation \in verified'
    BY Zenon, <1>1, VerifiedGrows DEF LocalStep, RowInv
  <2> QED BY Zenon, <2>1, <2>2, <2>3, <2>4
<1> QED BY Zenon, <1>2, <1>3, <1>5 DEF RowInv

LEMMA RowInvariant == Spec => [](TypeOK /\ RowInv)
BY TypeInit, TypeNext, RowInvInit, RowInvNext, PTL DEF Spec

\* Every row that the statements of src/src/db.rs can leave, in whatever order the
\* requests of however many processes run them, is one that row_to_session accepts.
THEOREM RowIsReadable == Spec => []RowValid
BY RowInvariant, PTL DEF RowInv

\* finalize_pending makes a rotation ready only if recover_pending_identity has verified
\* the identity of that very generation, although the check and the UPDATE are separate
\* steps and other requests write the row in between.
THEOREM ReadyIsVerified == Spec => []ReadyOnlyVerified
BY RowInvariant, PTL DEF RowInv

\* No statement changes the user or the absolute deadline, moves the idle deadline back
\* or skips a generation.
THEOREM DeadlinesOnlyGrow == Spec => DeadlinesAndGenerations
<1>1. TypeOK /\ RowInv /\ [Next]_vars =>
         [ /\ row'.absolute_expires_at = row.absolute_expires_at
           /\ row'.user_id = row.user_id
           /\ row'.idle_expires_at >= row.idle_expires_at
           /\ row'.refresh_generation # row.refresh_generation =>
                 /\ row'.refresh_generation = row.refresh_generation + 1
                 /\ row'.identity_state = "pending" ]_vars
  BY Zenon, RowInvNext DEF RowKept
<1> QED BY <1>1, RowInvariant, PTL DEF Spec, DeadlinesAndGenerations

-----------------------------------------------------------------------------
(* A session that is over is not allowed.                                  *)

\* The program points an auth check of a session that is over can be at.
LatePCs == {"idle", "lookup", "unauthenticated", "unavailable"}

LateInv ==
    \A q \in Requests :
        late[q] => /\ pc[q] \in LatePCs
                   /\ pc[q] = "lookup" => \/ ~stored
                                          \/ row.revoked # "no"
                                          \/ row.absolute_expires_at <= since[q]

\* What a step may do to an auth check, as far as LateInv is concerned.
LateStep(q) ==
    \/ late'[q] = Over /\ pc'[q] = "lookup" /\ since'[q] = now /\ row' = row /\ stored' = stored
    \/ late'[q] = late[q] /\ pc'[q] = pc[q] /\ since'[q] = since[q]
    \/ late'[q] = late[q] /\ pc[q] = "lookup" /\ pc'[q] \in LatePCs \ {"lookup"}
    \/ late'[q] = late[q] /\ pc[q] = "lookup" /\ (\E t \in Clock(q) : Active(t))
    \/ late'[q] = late[q] /\ pc[q] \notin LatePCs
    \/ late'[q] = FALSE

LEMMA LateLoop ==
    ASSUME TypeOK, NEW r \in Requests, NEW q \in Requests,
           Start(r) \/ Lookup(r) \/ Check(r) \/ Touch(r) \/ TouchUpdate(r) \/ Touched(r)
    PROVE  LateStep(q)
<1>0. LocalDomains
  BY LocalsHaveDomains
<1> USE DEF LocalDomains, LateStep, LatePCs, Goto, GotoAt, Decide, Continue, ghostVars
<1>1. CASE Start(r)
  BY Zenon, <1>0, <1>1 DEF Start, ClockPCs
<1>2. CASE Lookup(r)
  BY <1>0, <1>2 DEF Lookup
<1>3. CASE Check(r)
  BY Zenon, <1>0, <1>3 DEF Check, acquire
<1>4. CASE Touch(r)
  BY Zenon, <1>0, <1>4 DEF Touch
<1>5. CASE TouchUpdate(r)
  BY <1>0, <1>5 DEF TouchUpdate
<1>6. CASE Touched(r)
  BY <1>0, <1>6 DEF Touched
<1> QED BY Zenon, <1>1, <1>2, <1>3, <1>4, <1>5, <1>6

\* A step of a leader moves it from one program point to another and leaves the other
\* auth checks alone.
LEMMA LeaderMoves ==
    ASSUME TypeOK, NEW r \in Requests,
           \/ Execute(r) \/ RefreshFails(r) \/ RefreshReturns(r)
           \/ PersistPending(r) \/ PersistResolved(r)
           \/ Recover(r) \/ FinalizePending(r) \/ FinalizeResolved(r)
           \/ RevokeLookup(r) \/ ConditionalRevoke(r) \/ Panic(r)
    PROVE  /\ pc[r] \in LeaderPCs \ Publishing
           /\ \E next \in LeaderPCs : pc' = [pc EXCEPT ![r] = next]
           /\ \E t \in {now, StartTime} \cup Clock(r) : since' = [since EXCEPT ![r] = t]
           /\ late' = late /\ now' = now
<1> USE DEF Goto, GotoAt, GoOnWith, Publish, RecoverWith, RevokeExpected, Proceed,
            UseCurrent, UseCurrentWithoutRefresh, leaderFrame, LeaderPCs, Publishing
<1>1. CASE Execute(r)
  BY Zenon, <1>1 DEF Execute
<1>2. CASE RefreshFails(r)
  BY Zenon, <1>2 DEF RefreshFails
<1>3. CASE RefreshReturns(r)
  BY Zenon, <1>3 DEF RefreshReturns
<1>4. CASE PersistPending(r)
  BY Zenon, <1>4 DEF PersistPending
<1>5. CASE PersistResolved(r)
  BY Zenon, <1>5 DEF PersistResolved
<1>6. CASE Recover(r)
  BY Zenon, <1>6 DEF Recover
<1>7. CASE FinalizePending(r)
  BY Zenon, <1>7 DEF FinalizePending
<1>8. CASE FinalizeResolved(r)
  BY Zenon, <1>8 DEF FinalizeResolved
<1>9. CASE RevokeLookup(r)
  BY Zenon, <1>9 DEF RevokeLookup
<1>10. CASE ConditionalRevoke(r)
  BY Zenon, <1>10 DEF ConditionalRevoke
<1>11. CASE Panic(r)
  BY Zenon, <1>11 DEF Panic
<1> QED BY Zenon, <1>1, <1>2, <1>3, <1>4, <1>5, <1>6, <1>7, <1>8, <1>9, <1>10, <1>11

LEMMA LateSteps ==
    ASSUME TypeOK, [Next]_vars, NEW q \in Requests
    PROVE  LateStep(q)
<1>1. ASSUME NEW r \in Requests,
             \/ Execute(r) \/ RefreshFails(r) \/ RefreshReturns(r)
             \/ PersistPending(r) \/ PersistResolved(r)
             \/ Recover(r) \/ FinalizePending(r) \/ FinalizeResolved(r)
             \/ RevokeLookup(r) \/ ConditionalRevoke(r) \/ Panic(r)
      PROVE  LateStep(q)
  <2>1. /\ pc[r] \in LeaderPCs \ Publishing
        /\ \E next \in LeaderPCs : pc' = [pc EXCEPT ![r] = next]
        /\ \E t \in {now, StartTime} \cup Clock(r) : since' = [since EXCEPT ![r] = t]
        /\ late' = late
    BY Zenon, <1>1, LeaderMoves
  <2>2. pc[r] \notin LatePCs
    BY Zenon, <2>1 DEF LeaderPCs, Publishing, LatePCs
  <2>3. q # r => pc'[q] = pc[q] /\ since'[q] = since[q]
    BY Zenon, <2>1 DEF TypeOK
  <2> QED BY Zenon, <2>1, <2>2, <2>3 DEF LateStep
<1>2. ASSUME NEW r \in Requests, Complete(r) PROVE LateStep(q)
  <2>1. CASE q \in {r} \cup Joined(r) \cup Closing(r)
    BY Zenon, <1>2, <2>1 DEF Complete, Joined, Closing, Publishing, LatePCs, LateStep, ghostVars
  <2>2. CASE q \notin {r} \cup Joined(r) \cup Closing(r)
    <3>1. pc'[q] = pc[q] /\ since'[q] = since[q]
      BY Zenon, <1>2, <2>2 DEF Complete
    <3>2. late' = late
      BY Zenon, <1>2 DEF Complete, ghostVars
    <3> QED BY Zenon, <3>1, <3>2 DEF LateStep
  <2> QED BY Zenon, <2>1, <2>2
<1>3. ASSUME NEW r \in Requests, RemoteRefresh(r) PROVE LateStep(q)
  BY Zenon, <1>3 DEF RemoteRefresh, RemoteFrame, LateStep
<1>4. ASSUME NEW p \in Procs, LogoutSnapshot(p) \/ LogoutRevoke(p) \/ LogoutRemote(p)
      PROVE  LateStep(q)
  BY Zenon, <1>4 DEF LogoutSnapshot, LogoutRevoke, LogoutRemote, logoutFrame, LateStep
<1>5. ASSUME NEW p \in Procs, Crash(p) PROVE LateStep(q)
  BY Zenon, <1>5 DEF Crash, LateStep
<1>6. CASE RemoteOrphan \/ RemoteInvalidate
  BY Zenon, <1>6 DEF RemoteOrphan, RemoteInvalidate, RemoteFrame, LateStep
<1>7. CASE Prune \/ Tick
  BY Zenon, <1>7 DEF Prune, Tick, logoutFrame, LateStep
<1>8. CASE UNCHANGED vars
  BY Zenon, <1>8 DEF vars, ghostVars, LateStep
<1> QED BY Zenon, <1>1, <1>2, <1>3, <1>4, <1>5, <1>6, <1>7, <1>8, LateLoop DEF Next, Step

LEMMA LateInvNext ==
    ASSUME TypeOK, RowInv, LateInv, [Next]_vars
    PROVE  LateInv'
<1> SUFFICES ASSUME NEW q \in Requests, late'[q]
             PROVE  /\ pc'[q] \in LatePCs
                    /\ pc'[q] = "lookup" => \/ ~stored'
                                            \/ row'.revoked # "no"
                                            \/ row'.absolute_expires_at <= since'[q]
  BY Zenon DEF LateInv
<1>1. /\ row'.absolute_expires_at = row.absolute_expires_at
      /\ row.revoked # "no" => row' = row
      /\ ~stored => ~stored'
  BY Zenon, RowStep, WritesOnlyLive, RowInvNext DEF RowKept
<1>2. CASE late'[q] = Over /\ pc'[q] = "lookup" /\ since'[q] = now /\ row' = row /\ stored' = stored
  BY Zenon, <1>2 DEF Over, LatePCs
<1>3. CASE late'[q] = late[q] /\ pc'[q] = pc[q] /\ since'[q] = since[q]
  BY Zenon, <1>1, <1>3 DEF LateInv
<1>4. CASE late'[q] = late[q] /\ pc[q] = "lookup" /\ pc'[q] \in LatePCs \ {"lookup"}
  BY Zenon, <1>4
<1>5. CASE late'[q] = late[q] /\ pc[q] = "lookup" /\ (\E t \in Clock(q) : Active(t))
  <2>1. PICK t \in Clock(q) : Active(t)
    BY Zenon, <1>5
  <2>2. t \in Nat /\ since[q] \in Nat /\ since[q] <= t /\ row.absolute_expires_at \in Nat
    BY Zenon, ClockType DEF TypeOK, GatewaySession
  <2>3. stored /\ row.revoked = "no" /\ t < row.absolute_expires_at
    BY Zenon, <2>1 DEF Active, is_active
  <2>4. row.absolute_expires_at <= since[q]
    BY Zenon, <1>5, <2>3 DEF LateInv
  <2> QED BY <2>2, <2>3, <2>4
<1>6. CASE late'[q] = late[q] /\ pc[q] \notin LatePCs
  BY Zenon, <1>6 DEF LateInv
<1> QED BY Zenon, <1>2, <1>3, <1>4, <1>5, <1>6, LateSteps DEF LateStep

\* An auth check that starts when the session is revoked, deleted or past its absolute
\* deadline does not end in "allow": no flight, touch or recovery that is under way can
\* turn it, because what it reads of the row only gets worse.
THEOREM OverIsNeverAllowed == Spec => []LateNeverAllowed
<1>1. Init => LateInv
  BY Zenon DEF Init, LateInv
<1>2. LateInv => LateNeverAllowed
  BY Zenon DEF LateInv, LateNeverAllowed, LatePCs
<1> QED BY <1>1, <1>2, LateInvNext, RowInvariant, PTL DEF Spec

-----------------------------------------------------------------------------
(* One flight at a time.                                                   *)

WaitPCs == {"joined", "closing"}

\* The steps of the loop other than acquire stay outside the flight.
LEMMA LoopMoves ==
    ASSUME TypeOK, NEW r \in Requests,
           \/ Start(r) \/ Lookup(r) \/ Touch(r) \/ TouchUpdate(r) \/ Touched(r)
           \/ Check(r) /\ UNCHANGED flight
    PROVE  /\ pc[r] \notin LeaderPCs \cup WaitPCs
           /\ flight' = flight
           /\ \E next \in PCs \ LeaderPCs :
                 /\ pc' = [pc EXCEPT ![r] = next]
                 /\ next \in WaitPCs => flight[Home[r]].leader # NoRequest
<1> USE DEF Goto, GotoAt, Decide, Continue, PCs, Resting, Decisions, LoopPCs, LeaderPCs,
            Publishing, WaitPCs
<1>1. CASE Start(r)
  <2>1. pc[r] \notin LeaderPCs \cup WaitPCs
    BY Zenon, <1>1 DEF Start
  <2>2. flight' = flight /\ pc' = [pc EXCEPT ![r] = "lookup"]
    BY Zenon, <1>1 DEF Start
  <2>3. "lookup" \in PCs \ LeaderPCs /\ "lookup" \notin WaitPCs
    OBVIOUS
  <2> HIDE DEF PCs, Resting, Decisions, LoopPCs, LeaderPCs, Publishing, WaitPCs
  <2> QED BY Zenon, <2>1, <2>2, <2>3
<1>2. CASE Lookup(r)
  BY ZenonT(60), <1>2 DEF Lookup
<1>3. CASE Touch(r)
  BY Zenon, <1>3 DEF Touch
<1>4. CASE TouchUpdate(r)
  BY ZenonT(60), <1>4 DEF TouchUpdate
<1>5. CASE Touched(r)
  BY ZenonT(60), <1>5 DEF Touched
<1>6. CASE Check(r) /\ UNCHANGED flight
  <2>1. pc[r] = "check"
    BY Zenon, <1>6 DEF Check
  <2>2. CASE acquire(r) /\ flight[Home[r]].leader # NoRequest
    BY Zenon, <1>6, <2>1, <2>2 DEF acquire
  <2>3. CASE acquire(r) /\ flight[Home[r]].leader = NoRequest
    <3>1. flight' = [flight EXCEPT ![Home[r]] =
                       [leader |-> r, accepted |-> {observed_version(snap[r])}]]
      BY Zenon, <2>3 DEF acquire
    <3>2. Home[r] \in Procs /\ r # NoRequest
      BY Zenon, AuthSessionAssumption
    <3>3. flight'[Home[r]].leader = r
      BY Zenon, <3>1, <3>2 DEF TypeOK
    <3> QED BY Zenon, <1>6, <2>3, <3>2, <3>3
  <2>4. CASE Goto(r, "touch") \/ Decide(r, "forbidden")
    BY Zenon, <1>6, <2>1, <2>4
  <2> QED BY Zenon, <1>6, <2>2, <2>3, <2>4 DEF Check
<1> QED BY Zenon, <1>1, <1>2, <1>3, <1>4, <1>5, <1>6

\* A leader that goes on keeps its entry in the registry.
LEMMA LeaderKeepsEntry ==
    ASSUME TypeOK, NEW r \in Requests,
           \/ Execute(r) \/ RefreshFails(r) \/ RefreshReturns(r)
           \/ PersistPending(r) \/ PersistResolved(r)
           \/ Recover(r) \/ FinalizePending(r) \/ FinalizeResolved(r)
           \/ RevokeLookup(r) \/ ConditionalRevoke(r) \/ Panic(r)
    PROVE  \A p \in Procs : flight'[p].leader = flight[p].leader
<1>1. CASE RefreshReturns(r)
  <2>1. CASE UNCHANGED flight
    BY Zenon, <2>1
  <2>2. ASSUME NEW v, flight' = [flight EXCEPT ![Home[r]].accepted = @ \cup {v}]
        PROVE  \A p \in Procs : flight'[p].leader = flight[p].leader
    BY <2>2 DEF TypeOK
  <2> QED BY Zenon, <1>1, <2>1, <2>2 DEF RefreshReturns
<1>2. CASE ~RefreshReturns(r)
  <2>1. flight' = flight
    BY Zenon, <1>2 DEF Execute, RefreshFails, PersistPending, PersistResolved, Recover,
       FinalizePending, FinalizeResolved, RevokeLookup, ConditionalRevoke, Panic
  <2> QED BY Zenon, <2>1
<1> QED BY Zenon, <1>1, <1>2

LEMMA SingleFlightNext ==
    ASSUME TypeOK, SingleFlight, [Next]_vars
    PROVE  SingleFlight'
<1>0. /\ pc \in [Requests -> PCs] /\ \A q \in Requests : Home[q] \in Procs
      /\ NoRequest \notin Requests
  BY Zenon, AuthSessionAssumption DEF TypeOK
<1>1. ASSUME NEW r \in Requests,
             \/ Start(r) \/ Lookup(r) \/ Touch(r) \/ TouchUpdate(r) \/ Touched(r)
             \/ Check(r) /\ UNCHANGED flight
      PROVE  SingleFlight'
  <2>1. /\ pc[r] \notin LeaderPCs \cup WaitPCs
        /\ flight' = flight
        /\ \E next \in PCs \ LeaderPCs :
              /\ pc' = [pc EXCEPT ![r] = next]
              /\ next \in WaitPCs => flight[Home[r]].leader # NoRequest
    BY Zenon, <1>1, LoopMoves
  <2> QED BY Zenon, <1>0, <2>1 DEF SingleFlight, WaitPCs
<1>2. ASSUME NEW r \in Requests, Check(r), ~UNCHANGED flight
      PROVE  SingleFlight'
  <2>1. /\ pc[r] = "check" /\ flight[Home[r]].leader = NoRequest
        /\ flight' = [flight EXCEPT ![Home[r]] =
                         [leader |-> r, accepted |-> {observed_version(snap[r])}]]
        /\ pc' = [pc EXCEPT ![r] = "execute"]
    BY Zenon, <1>2 DEF Check, acquire, Goto
  <2>2. /\ flight'[Home[r]].leader = r
        /\ \A p \in Procs : p # Home[r] => flight'[p] = flight[p]
    BY Zenon, <1>0, <2>1 DEF TypeOK
  <2>3. "execute" \in LeaderPCs /\ "execute" \notin WaitPCs
    BY Zenon DEF LeaderPCs, WaitPCs
  <2>4. ASSUME NEW q \in Requests, q # r
        PROVE  /\ pc'[q] \in LeaderPCs <=> flight'[Home[q]].leader = q
               /\ pc'[q] \in {"joined", "closing"} => flight'[Home[q]].leader # NoRequest
    <3>1. pc'[q] = pc[q]
      BY Zenon, <1>0, <2>1, <2>4
    <3>2. CASE Home[q] = Home[r]
      BY SMTT(60), <1>0, <2>1, <2>2, <2>4, <3>1, <3>2 DEF SingleFlight
    <3>3. CASE Home[q] # Home[r]
      BY Zenon, <1>0, <2>2, <3>1, <3>3 DEF SingleFlight
    <3> QED BY Zenon, <3>2, <3>3
  <2> QED BY ZenonT(60), <1>0, <2>1, <2>2, <2>3, <2>4 DEF SingleFlight, WaitPCs
<1>3. ASSUME NEW r \in Requests,
             \/ Execute(r) \/ RefreshFails(r) \/ RefreshReturns(r)
             \/ PersistPending(r) \/ PersistResolved(r)
             \/ Recover(r) \/ FinalizePending(r) \/ FinalizeResolved(r)
             \/ RevokeLookup(r) \/ ConditionalRevoke(r) \/ Panic(r)
      PROVE  SingleFlight'
  <2>1. /\ pc[r] \in LeaderPCs
        /\ \E next \in LeaderPCs : pc' = [pc EXCEPT ![r] = next]
    BY Zenon, <1>3, LeaderMoves
  <2>2. \A p \in Procs : flight'[p].leader = flight[p].leader
    BY Zenon, <1>3, LeaderKeepsEntry
  <2>3. LeaderPCs \cap WaitPCs = {}
    BY Zenon DEF LeaderPCs, Publishing, WaitPCs
  <2> QED BY <1>0, <2>1, <2>2, <2>3 DEF SingleFlight, WaitPCs
<1>4. ASSUME NEW r \in Requests, Complete(r) PROVE SingleFlight'
  <2>1. /\ pc[r] \in LeaderPCs /\ flight[Home[r]].leader = r
    BY Zenon, <1>4 DEF Complete, LeaderPCs, SingleFlight
  <2>2. /\ flight'[Home[r]].leader = NoRequest
        /\ \A p \in Procs : p # Home[r] => flight'[p] = flight[p]
    BY Zenon, <1>0, <1>4, <2>1 DEF Complete, TypeOK, NoFlight
  <2>3. ASSUME NEW q \in Requests
        PROVE  /\ pc'[q] \in LeaderPCs <=> flight'[Home[q]].leader = q
               /\ pc'[q] \in {"joined", "closing"} => flight'[Home[q]].leader # NoRequest
    <3>1. CASE q \in {r} \cup Joined(r) \cup Closing(r)
      <4>1. Home[q] = Home[r]
        BY Zenon, <3>1 DEF Joined, Closing
      <4>2. pc'[q] \in {"lookup", "unauthenticated", "unavailable"}
        BY Zenon, <1>4, <3>1 DEF Complete, OutcomeDecision, Publishing
      <4> QED BY Zenon, <1>0, <2>2, <4>1, <4>2 DEF LeaderPCs, Publishing
    <3>2. CASE q \notin {r} \cup Joined(r) \cup Closing(r)
      <4>1. pc'[q] = pc[q]
        BY Zenon, <1>4, <3>2 DEF Complete
      <4>2. CASE Home[q] = Home[r]
        <5>1. pc[q] \notin {"joined", "closing"}
          BY Zenon, <3>2, <4>2 DEF Joined, Closing
        <5>2. flight[Home[q]].leader # q
          BY Zenon, <2>1, <3>2, <4>2
        <5> QED BY Zenon, <1>0, <2>2, <4>1, <4>2, <5>1, <5>2 DEF SingleFlight
      <4>3. CASE Home[q] # Home[r]
        BY ZenonT(60), <1>0, <2>2, <4>1, <4>3 DEF SingleFlight
      <4> QED BY <4>2, <4>3
    <3> QED BY Zenon, <3>1, <3>2
  <2> QED BY Zenon, <2>3 DEF SingleFlight
<1>5. ASSUME NEW p \in Procs, Crash(p) PROVE SingleFlight'
  <2>1. /\ flight'[p].leader = NoRequest
        /\ \A o \in Procs : o # p => flight'[o] = flight[o]
    BY Zenon, <1>5 DEF Crash, TypeOK, NoFlight
  <2>2. \A q \in Requests : pc'[q] = IF Home[q] = p THEN "idle" ELSE pc[q]
    BY Zenon, <1>5 DEF Crash
  <2>3. "idle" \notin LeaderPCs
    BY Zenon DEF LeaderPCs, Publishing
  <2> QED BY ZenonT(60), <1>0, <2>1, <2>2, <2>3 DEF SingleFlight
<1>6. CASE UNCHANGED <<pc, flight>>
  BY Zenon, <1>6 DEF SingleFlight
<1>7. ASSUME NEW r \in Requests, RemoteRefresh(r) PROVE UNCHANGED <<pc, flight>>
  BY Zenon, <1>7 DEF RemoteRefresh, RemoteFrame
<1>8. ASSUME NEW p \in Procs, LogoutSnapshot(p) \/ LogoutRevoke(p) \/ LogoutRemote(p)
      PROVE  UNCHANGED <<pc, flight>>
  BY Zenon, <1>8 DEF LogoutSnapshot, LogoutRevoke, LogoutRemote, logoutFrame, flightVars
<1>9. ASSUME RemoteOrphan \/ RemoteInvalidate \/ Prune \/ Tick \/ UNCHANGED vars
      PROVE  UNCHANGED <<pc, flight>>
  BY Zenon, <1>9 DEF RemoteOrphan, RemoteInvalidate, RemoteFrame, Prune, Tick, logoutFrame, flightVars, vars
<1> QED BY Zenon, <1>1, <1>2, <1>3, <1>4, <1>5, <1>6, <1>7, <1>8, <1>9 DEF Next, Step

\* A process never runs two refreshes of a session at once, and whoever waits for a flight
\* waits for one that is led: acquire, complete, the panics of leaders and restarts keep
\* the registry and the program points of the auth checks in step.
THEOREM OneFlight == Spec => []SingleFlight
<1>1. Init => SingleFlight
  BY SMTT(60), AuthSessionAssumption DEF Init, SingleFlight, NoFlight, LeaderPCs, Publishing
<1> QED BY <1>1, SingleFlightNext, TypeCorrect, PTL DEF Spec

-----------------------------------------------------------------------------
(* A 401 tells of a session that has ended.                                *)

LapseInv ==
    /\ StartTime <= now
    /\ ~lapsed => stored /\ is_active(row, now)
    /\ \A q \in Requests :
          /\ since[q] <= now
          /\ pc[q] \in {"publish_rejected", "unauthenticated"} => lapsed

\* Where the answers come from: a clock value at which the session was not found active,
\* or a leader that has published Rejected.
AnswerStep(q) ==
    /\ since'[q] \in {since[q], now, StartTime} \cup Clock(q)
    /\ pc'[q] = "unauthenticated" =>
          \/ pc[q] = "unauthenticated"
          \/ \E t \in Clock(q) : ~Active(t)
          \/ \E r \in Requests : pc[r] = "publish_rejected"
    /\ pc'[q] = "publish_rejected" =>
          \/ pc[q] = "publish_rejected"
          \/ \E t \in Clock(q) \cup {since[q]} : ~Active(t)
          \/ lapsed'

LEMMA AnswerLoop ==
    ASSUME TypeOK, NEW r \in Requests, NEW q \in Requests,
           Start(r) \/ Lookup(r) \/ Check(r) \/ Touch(r) \/ TouchUpdate(r) \/ Touched(r)
    PROVE  AnswerStep(q)
<1>0. LocalDomains
  BY LocalsHaveDomains
<1> USE DEF LocalDomains, AnswerStep, Goto, GotoAt, Decide, Continue
<1>1. CASE Start(r)
  BY Zenon, <1>0, <1>1 DEF Start
<1>2. CASE Lookup(r)
  BY <1>0, <1>2 DEF Lookup
<1>3. CASE Check(r)
  BY <1>0, <1>3 DEF Check, acquire
<1>4. CASE Touch(r)
  BY <1>0, <1>4 DEF Touch
<1>5. CASE TouchUpdate(r)
  BY <1>0, <1>5 DEF TouchUpdate
<1>6. CASE Touched(r)
  BY <1>0, <1>6 DEF Touched
<1> QED BY Zenon, <1>1, <1>2, <1>3, <1>4, <1>5, <1>6

LEMMA AnswerLeader ==
    ASSUME TypeOK, NEW r \in Requests, NEW q \in Requests,
           \/ Execute(r) \/ RefreshFails(r) \/ RefreshReturns(r)
           \/ PersistPending(r) \/ PersistResolved(r)
           \/ Recover(r) \/ FinalizePending(r) \/ FinalizeResolved(r)
           \/ RevokeLookup(r) \/ ConditionalRevoke(r) \/ Panic(r)
    PROVE  AnswerStep(q)
<1>0. LocalDomains
  BY LocalsHaveDomains
<1> USE DEF LocalDomains, AnswerStep, Goto, GotoAt, GoOnWith, Publish, RecoverWith, RevokeExpected, Proceed,
            UseCurrent, UseCurrentWithoutRefresh
<1>1. CASE Execute(r)
  BY ZenonT(60), <1>0, <1>1 DEF Execute
<1>2. CASE RefreshFails(r)
  BY Zenon, <1>0, <1>2 DEF RefreshFails
<1>3. CASE RefreshReturns(r)
  BY <1>0, <1>3 DEF RefreshReturns
<1>4. CASE PersistPending(r)
  BY <1>0, <1>4 DEF PersistPending
<1>5. CASE PersistResolved(r)
  BY ZenonT(60), <1>0, <1>5 DEF PersistResolved
<1>6. CASE Recover(r)
  BY ZenonT(60), <1>0, <1>6 DEF Recover
<1>7. CASE FinalizePending(r)
  BY <1>0, <1>7 DEF FinalizePending
<1>8. CASE FinalizeResolved(r)
  BY <1>0, <1>8 DEF FinalizeResolved
<1>9. CASE RevokeLookup(r)
  BY ZenonT(60), <1>0, <1>9 DEF RevokeLookup
<1>10. CASE ConditionalRevoke(r)
  BY ZenonT(60), <1>0, <1>10 DEF ConditionalRevoke
<1>11. CASE Panic(r)
  BY Zenon, <1>0, <1>11 DEF Panic
<1> QED BY Zenon, <1>1, <1>2, <1>3, <1>4, <1>5, <1>6, <1>7, <1>8, <1>9, <1>10, <1>11

LEMMA AnswerSteps ==
    ASSUME TypeOK, [Next]_vars, NEW q \in Requests
    PROVE  AnswerStep(q)
<1>1. ASSUME NEW r \in Requests, Complete(r) PROVE AnswerStep(q)
  <2>1. since'[q] \in {since[q], now}
    <3>1. PICK loop : since' = [x \in Requests |-> IF x \in loop THEN now ELSE since[x]]
      BY Zenon, <1>1 DEF Complete
    <3> QED BY Zenon, <3>1
  <2>2. pc'[q] # pc[q] => pc'[q] \in {"lookup", OutcomeDecision(pc[r])}
    BY Zenon, <1>1 DEF Complete
  <2>3. OutcomeDecision(pc[r]) # "publish_rejected"
    BY Zenon, <1>1 DEF Complete, OutcomeDecision, Publishing
  <2>4. OutcomeDecision(pc[r]) = "unauthenticated" => pc[r] = "publish_rejected"
    BY Zenon, <1>1 DEF Complete, OutcomeDecision, Publishing
  <2> QED BY Zenon, <2>1, <2>2, <2>3, <2>4 DEF AnswerStep
<1>2. ASSUME NEW r \in Requests, RemoteRefresh(r) PROVE AnswerStep(q)
  BY Zenon, <1>2 DEF RemoteRefresh, RemoteFrame, AnswerStep
<1>3. ASSUME NEW p \in Procs, LogoutSnapshot(p) \/ LogoutRevoke(p) \/ LogoutRemote(p)
      PROVE  AnswerStep(q)
  BY Zenon, <1>3 DEF LogoutSnapshot, LogoutRevoke, LogoutRemote, logoutFrame, AnswerStep
<1>4. ASSUME NEW p \in Procs, Crash(p) PROVE AnswerStep(q)
  BY Zenon, <1>4 DEF Crash, AnswerStep
<1>5. CASE RemoteOrphan \/ RemoteInvalidate
  BY Zenon, <1>5 DEF RemoteOrphan, RemoteInvalidate, RemoteFrame, AnswerStep
<1>6. CASE Prune \/ Tick
  BY Zenon, <1>6 DEF Prune, Tick, logoutFrame, AnswerStep
<1>7. CASE UNCHANGED vars
  BY Zenon, <1>7 DEF vars, AnswerStep
<1> QED BY Zenon, <1>1, <1>2, <1>3, <1>4, <1>5, <1>6, <1>7, AnswerLoop, AnswerLeader DEF Next, Step

\* Time goes on only by Tick, the row is deleted only by Prune, and what has lapsed stays so.
LEMMA ClockStep ==
    ASSUME TypeOK, [Next]_vars
    PROVE  \/ Tick
           \/ Prune
           \/ now' = now /\ stored' = stored /\ lapsed' \in {lapsed, TRUE}
<1>1. ASSUME NEW r \in Requests,
             \/ Start(r) \/ Lookup(r) \/ Check(r) \/ Touch(r) \/ TouchUpdate(r) \/ Touched(r)
             \/ Complete(r) \/ RemoteRefresh(r)
      PROVE  now' = now /\ stored' = stored /\ lapsed' \in {lapsed, TRUE}
  BY Zenon, <1>1 DEF Start, Lookup, Check, Touch, TouchUpdate, Touched, Complete, RemoteRefresh,
     RemoteFrame, ghostVars
<1>2. ASSUME NEW r \in Requests,
             \/ Execute(r) \/ RefreshFails(r) \/ RefreshReturns(r) \/ PersistPending(r)
             \/ PersistResolved(r) \/ Recover(r) \/ FinalizePending(r) \/ FinalizeResolved(r)
             \/ RevokeLookup(r) \/ ConditionalRevoke(r) \/ Panic(r)
      PROVE  now' = now /\ stored' = stored /\ lapsed' \in {lapsed, TRUE}
  BY Zenon, <1>2 DEF Execute, RefreshFails, RefreshReturns, PersistPending, PersistResolved,
     Recover, FinalizePending, FinalizeResolved, RevokeLookup, ConditionalRevoke, Panic,
     leaderFrame
<1>3. ASSUME NEW p \in Procs,
             LogoutSnapshot(p) \/ LogoutRevoke(p) \/ LogoutRemote(p) \/ Crash(p)
      PROVE  now' = now /\ stored' = stored /\ lapsed' \in {lapsed, TRUE}
  BY Zenon, <1>3 DEF LogoutSnapshot, LogoutRevoke, LogoutRemote, logoutFrame, Crash
<1>4. ASSUME RemoteOrphan \/ RemoteInvalidate \/ UNCHANGED vars
      PROVE  now' = now /\ stored' = stored /\ lapsed' \in {lapsed, TRUE}
  BY Zenon, <1>4 DEF RemoteOrphan, RemoteInvalidate, RemoteFrame, vars, ghostVars
<1> QED BY Zenon, <1>1, <1>2, <1>3, <1>4 DEF Next, Step

\* A session that has not lapsed has been active at every moment up to now.
LEMMA ActiveUpToNow ==
    ASSUME TypeOK, LapseInv, ~lapsed, NEW t \in Nat, t <= now
    PROVE  Active(t)
BY DEF TypeOK, LapseInv, Active, is_active, GatewaySession

LEMMA LapseInvNext ==
    ASSUME TypeOK, RowInv, LapseInv, [Next]_vars
    PROVE  LapseInv'
<1>1. /\ now \in Nat /\ StartTime \in Nat /\ row \in GatewaySession /\ row' \in GatewaySession
      /\ now' \in Nat /\ since' \in [Requests -> Nat] /\ since \in [Requests -> Nat]
  BY Zenon, TypeNext, AuthSessionAssumption DEF TypeOK
<1>2. now <= now' /\ (lapsed => lapsed')
  <2>1. CASE Tick
    <3>1. now' = now + 1
      BY Zenon, <2>1 DEF Tick
    <3>2. lapsed => lapsed'
      BY Zenon, <2>1 DEF Tick
    <3> QED BY <1>1, <3>1, <3>2
  <2>2. CASE Prune
    BY <1>1, <2>2 DEF Prune, logoutFrame
  <2>3. CASE now' = now /\ stored' = stored /\ lapsed' \in {lapsed, TRUE}
    <3>1. lapsed => lapsed'
      BY Zenon, <2>3
    <3> QED BY <1>1, <2>3, <3>1
  <2> QED BY Zenon, <2>1, <2>2, <2>3, ClockStep
<1>3. ASSUME ~lapsed' PROVE stored' /\ is_active(row', now')
  <2>0. stored /\ is_active(row, now)
    BY Zenon, <1>2, <1>3 DEF LapseInv
  <2>1. CASE Tick
    BY Zenon, <1>3, <2>0, <2>1 DEF Tick
  <2>2. CASE Prune
    BY SMTT(60), <1>1, <2>0, <2>2 DEF Prune, prune_Matches, is_active, GatewaySession
  <2>3. CASE now' = now /\ stored' = stored
    <3>1. /\ row'.idle_expires_at >= row.idle_expires_at
          /\ row'.absolute_expires_at = row.absolute_expires_at
      BY Zenon, RowInvNext DEF RowKept
    <3>2. row'.revoked = row.revoked
      <4>1. CASE row' = row
        BY Zenon, <4>1
      <4>2. ASSUME NEW r \in Requests, TouchesRow(r) PROVE row'.revoked = row.revoked
        BY Zenon, <1>1, <4>2 DEF TouchesRow, touch_ready_Update, GatewaySession
      <4>3. ASSUME NEW r \in Requests, PersistsRow(r) PROVE row'.revoked = row.revoked
        BY Zenon, <4>3 DEF PersistsRow, persist_pending_Update
      <4>4. ASSUME NEW r \in Requests, FinalizesRow(r) PROVE row'.revoked = row.revoked
        BY Zenon, <1>1, <4>4 DEF FinalizesRow, finalize_pending_Update, GatewaySession
      <4> QED BY Zenon, <1>3, <4>1, <4>2, <4>3, <4>4, RowStep DEF WritesRow, RevokesRow
    <3> QED BY SMTT(60), <1>1, <2>0, <2>3, <3>1, <3>2 DEF is_active, GatewaySession
  <2> QED BY Zenon, <2>1, <2>2, <2>3, ClockStep
<1>4. ASSUME NEW q \in Requests
      PROVE  /\ since'[q] <= now'
             /\ pc'[q] \in {"publish_rejected", "unauthenticated"} => lapsed'
  <2>1. AnswerStep(q)
    BY Zenon, AnswerSteps
  <2>2. since[q] \in Nat /\ since[q] <= now /\ \A t \in Clock(q) : t \in Nat /\ t <= now
    BY Zenon, <1>1, ClockType DEF LapseInv
  <2>3. since'[q] <= now'
    BY <1>1, <1>2, <2>1, <2>2 DEF AnswerStep, LapseInv
  <2>4. \A t \in Clock(q) \cup {since[q]} : ~Active(t) => lapsed
    BY Zenon, <2>2, ActiveUpToNow
  <2>5. pc'[q] = "unauthenticated" => lapsed'
    BY Zenon, <1>2, <2>1, <2>4 DEF AnswerStep, LapseInv
  <2>6. pc'[q] = "publish_rejected" => lapsed'
    BY Zenon, <1>2, <2>1, <2>4 DEF AnswerStep, LapseInv
  <2> QED BY Zenon, <2>3, <2>5, <2>6
<1>5. StartTime <= now'
  BY SMTT(60), <1>1, <1>2 DEF LapseInv
<1> QED BY Zenon, <1>3, <1>4, <1>5 DEF LapseInv

\* Only a session that has at some moment been revoked or past a deadline is answered
\* "unauthenticated", which clears the cookie: errors of the database, answers of
\* auth-mini that do not arrive, panics and lost races never end in it, although the
\* clock is read before the statement that uses it.
THEOREM UnauthenticatedMeansLapsed == Spec => []UnauthenticatedOnlyAfterLapse
<1>1. Init => LapseInv
  <2> SUFFICES ASSUME Init PROVE LapseInv
    OBVIOUS
  <2>1. is_active(FirstRow, StartTime)
    BY AuthSessionAssumption, SessionRowAssumption DEF FirstRow, create_session, Minimum, is_active
  <2> QED BY SMTT(60), <2>1, AuthSessionAssumption DEF Init, LapseInv
<1>2. LapseInv => UnauthenticatedOnlyAfterLapse
  BY Zenon DEF LapseInv, UnauthenticatedOnlyAfterLapse
<1> QED BY <1>1, <1>2, LapseInvNext, RowInvariant, PTL DEF Spec

-----------------------------------------------------------------------------
(* Tokens.                                                                 *)

\* s is the row, or an older version of it: within one generation the tokens are the same.
Earlier(s, current) ==
    /\ s.refresh_generation <= current.refresh_generation
    /\ s.refresh_generation = current.refresh_generation =>
          s.access = current.access /\ s.refresh_token = current.refresh_token

\* The audience that Recover has checked is that of the token in the row, if finalize_pending
\* still finds the generation.
HistoryInv ==
    /\ Earlier(FirstRow, row)
    /\ \A q \in Requests :
          /\ Earlier(snap[q], row) /\ Earlier(work[q], row)
          /\ pc[q] = "finalize" => work[q].access.aud = config[Home[q]].aud

\* How finalize is reached, and that only a restart changes a configuration.
AudienceStep(q) ==
    pc'[q] = "finalize" =>
        /\ work'[q] = work[q] /\ config'[Home[q]] = config[Home[q]]
        /\ pc[q] = "finalize" \/ audience_ok(q, work[q].access)

LEMMA AudienceSteps ==
    ASSUME TypeOK, [Next]_vars, NEW q \in Requests
    PROVE  AudienceStep(q)
<1>1. ASSUME NEW r \in Requests,
             Start(r) \/ Lookup(r) \/ Check(r) \/ Touch(r) \/ TouchUpdate(r) \/ Touched(r)
      PROVE  AudienceStep(q)
  BY Zenon, <1>1 DEF AudienceStep, Start, Lookup, Check, acquire, Touch, TouchUpdate, Touched, Goto, GotoAt,
     Decide, Continue, TypeOK
<1>2. ASSUME NEW r \in Requests, Recover(r) PROVE AudienceStep(q)
  BY <1>2 DEF AudienceStep, Recover, Goto, Proceed, GoOnWith, Publish, RevokeExpected, flightLocals,
     leaderFrame, TypeOK
<1>3. ASSUME NEW r \in Requests,
             \/ Execute(r) \/ RefreshFails(r) \/ RefreshReturns(r)
             \/ PersistPending(r) \/ PersistResolved(r)
             \/ FinalizePending(r) \/ FinalizeResolved(r)
             \/ RevokeLookup(r) \/ ConditionalRevoke(r) \/ Panic(r)
      PROVE  AudienceStep(q)
  <2>1. config' = config
    BY Zenon, <1>3 DEF Execute, RefreshFails, RefreshReturns, PersistPending, PersistResolved,
       FinalizePending, FinalizeResolved, RevokeLookup, ConditionalRevoke, Panic, leaderFrame
  <2>2. pc'[r] # "finalize"
    BY ZenonT(60), <1>3 DEF Execute, RefreshFails, RefreshReturns, PersistPending, PersistResolved,
       FinalizePending, FinalizeResolved, RevokeLookup, ConditionalRevoke, Panic, Goto, GotoAt,
       GoOnWith, Publish, RecoverWith, RevokeExpected, Proceed, UseCurrent,
       UseCurrentWithoutRefresh, TypeOK
  <2>3. q # r => pc'[q] = pc[q]
    BY <1>3, LeaderMoves DEF TypeOK
  <2>4. pc'[q] = "finalize" => work'[q] = work[q]
    BY Zenon, LocalSteps DEF LocalStep
  <2> QED BY Zenon, <2>1, <2>2, <2>3, <2>4 DEF AudienceStep
<1>4. ASSUME NEW r \in Requests, Complete(r) PROVE AudienceStep(q)
  <2>1. pc'[q] \in {pc[q], "lookup", "unauthenticated", "unavailable"}
    BY Zenon, <1>4 DEF Complete, OutcomeDecision, Publishing
  <2> QED BY Zenon, <1>4, <2>1 DEF Complete, AudienceStep
<1>5. ASSUME NEW p \in Procs, Crash(p) PROVE AudienceStep(q)
  BY Zenon, <1>5, AuthSessionAssumption DEF Crash, AudienceStep, TypeOK
<1>6. CASE UNCHANGED <<pc, work, config>>
  BY Zenon, <1>6 DEF AudienceStep
<1>7. ASSUME NEW r \in Requests, RemoteRefresh(r) PROVE UNCHANGED <<pc, work, config>>
  BY Zenon, <1>7 DEF RemoteRefresh, RemoteFrame
<1>8. ASSUME NEW p \in Procs, LogoutSnapshot(p) \/ LogoutRevoke(p) \/ LogoutRemote(p)
      PROVE  UNCHANGED <<pc, work, config>>
  BY Zenon, <1>8 DEF LogoutSnapshot, LogoutRevoke, LogoutRemote, logoutFrame, flightVars
<1>9. ASSUME RemoteOrphan \/ RemoteInvalidate \/ Prune \/ Tick \/ UNCHANGED vars
      PROVE  UNCHANGED <<pc, work, config>>
  BY Zenon, <1>9 DEF RemoteOrphan, RemoteInvalidate, RemoteFrame, Prune, Tick, logoutFrame, flightVars, vars
<1> QED BY Zenon, <1>1, <1>2, <1>3, <1>4, <1>5, <1>6, <1>7, <1>8, <1>9 DEF Next, Step

\* A write keeps the tokens of the generation or starts the next one.
LEMMA EarlierKept ==
    ASSUME TypeOK, row' = row \/ WritesRow, NEW s \in GatewaySession, Earlier(s, row)
    PROVE  Earlier(s, row')
<1>0. row \in GatewaySession
  BY Zenon DEF TypeOK
<1>1. ASSUME NEW r \in Requests, TouchesRow(r) PROVE Earlier(s, row')
  BY Zenon, <1>0, <1>1 DEF TouchesRow, touch_ready_Update, Earlier, GatewaySession
<1>2. ASSUME NEW r \in Requests, PersistsRow(r) PROVE Earlier(s, row')
  BY <1>0, <1>2 DEF PersistsRow, persist_pending_Update, Earlier, GatewaySession
<1>3. ASSUME NEW r \in Requests, FinalizesRow(r) PROVE Earlier(s, row')
  BY Zenon, <1>0, <1>3 DEF FinalizesRow, finalize_pending_Update, Earlier, GatewaySession
<1>4. ASSUME NEW by \in Revocation, row' = revoke_Update(row, by) PROVE Earlier(s, row')
  BY Zenon, <1>0, <1>4 DEF revoke_Update, Earlier, GatewaySession
<1> QED BY Zenon, <1>1, <1>2, <1>3, <1>4 DEF WritesRow, RevokesRow

LEMMA HistoryNext ==
    ASSUME TypeOK, HistoryInv, [Next]_vars
    PROVE  HistoryInv'
<1>1. row' = row \/ WritesRow
  BY Zenon, RowStep
<1>2. /\ FirstRow \in GatewaySession /\ row \in GatewaySession
      /\ \A q \in Requests : snap[q] \in GatewaySession /\ work[q] \in GatewaySession
  BY Zenon, InitialValues DEF TypeOK
<1>3. Earlier(row, row)
  BY <1>2 DEF Earlier, GatewaySession
<1>4. ASSUME NEW s \in GatewaySession, Earlier(s, row) PROVE Earlier(s, row')
  BY Zenon, <1>1, <1>4, EarlierKept
<1>5. ASSUME NEW q \in Requests
      PROVE  /\ Earlier(snap'[q], row') /\ Earlier(work'[q], row')
             /\ pc'[q] = "finalize" => work'[q].access.aud = config'[Home[q]].aud
  <2>1. LocalStep(q) /\ AudienceStep(q)
    BY Zenon, LocalSteps, AudienceSteps
  <2>2. Earlier(snap'[q], row')
    BY Zenon, <1>2, <1>3, <1>4, <2>1 DEF LocalStep, HistoryInv
  <2>3. Earlier(work'[q], row')
    BY Zenon, <1>2, <1>3, <1>4, <2>1 DEF LocalStep, HistoryInv
  <2>4. pc'[q] = "finalize" => work'[q].access.aud = config'[Home[q]].aud
    BY Zenon, <2>1 DEF AudienceStep, audience_ok, HistoryInv
  <2> QED BY Zenon, <2>2, <2>3, <2>4
<1>6. Earlier(FirstRow, row')
  BY Zenon, <1>2, <1>4 DEF HistoryInv
<1> QED BY Zenon, <1>5, <1>6 DEF HistoryInv

LEMMA HistoryInvariant == Spec => [](TypeOK /\ HistoryInv)
<1>1. Init => HistoryInv
  <2> SUFFICES ASSUME Init PROVE HistoryInv
    OBVIOUS
  <2>1. Earlier(FirstRow, FirstRow)
    BY InitialValues DEF Earlier, GatewaySession
  <2> QED BY Zenon, <2>1 DEF Init, HistoryInv
<1> QED BY <1>1, TypeInit, TypeNext, HistoryNext, PTL DEF Spec

\* When a pending rotation becomes ready, its access token is for the audience of some
\* process's present configuration: between the check of recover_pending_identity and the
\* UPDATE of finalize_pending neither the token of the generation nor the configuration
\* of the process changes.
THEOREM FinalizedAudience == Spec => FinalizedForConfiguredAudience
<1>1. TypeOK /\ HistoryInv /\ [Next]_vars =>
         [ row.identity_state = "pending" /\ row'.identity_state = "ready" =>
              row.access.aud \in {config[p].aud : p \in Procs} ]_vars
  <2> SUFFICES ASSUME TypeOK, HistoryInv, [Next]_vars,
                      row.identity_state = "pending", row'.identity_state = "ready"
               PROVE  row.access.aud \in {config[p].aud : p \in Procs}
    OBVIOUS
  <2>0. row \in GatewaySession
    BY Zenon DEF TypeOK
  <2>1. ASSUME NEW r \in Requests, TouchesRow(r) PROVE FALSE
    BY Zenon, <2>1 DEF TouchesRow, touch_ready_Matches
  <2>2. ASSUME NEW r \in Requests, PersistsRow(r) PROVE FALSE
    BY Zenon, <2>2 DEF PersistsRow, persist_pending_Update
  <2>3. ASSUME NEW by, row' = revoke_Update(row, by) PROVE FALSE
    BY Zenon, <2>0, <2>3 DEF revoke_Update, GatewaySession
  <2>4. PICK r \in Requests : FinalizesRow(r)
    BY Zenon, <2>1, <2>2, <2>3, RowStep DEF WritesRow, RevokesRow
  <2>5. work[r].access = row.access /\ work[r].access.aud = config[Home[r]].aud
    BY Zenon, <2>4 DEF FinalizesRow, finalize_pending_Matches, HistoryInv, Earlier
  <2> QED BY Zenon, <2>5, AuthSessionAssumption
<1> QED BY <1>1, HistoryInvariant, PTL DEF Spec, FinalizedForConfiguredAudience

-----------------------------------------------------------------------------
(* A refusal by auth-mini stays true of the token it was about.            *)

\* auth-mini would refuse to refresh with this token, now and ever after.
Refused(token) == ~remote.alive \/ remote.current # token

RevokePCs == {"revoke_lookup", "revoke"}

\* No token is from the future, and a refusal that is on its way to conditional_revoke
\* holds of the token it will be compared with.
TokenInv ==
    /\ row.refresh_token <= remote.current
    /\ RemoteRevokeJustified
    /\ \A q \in Requests :
          /\ snap[q].refresh_token <= remote.current
          /\ work[q].refresh_token <= remote.current
          /\ call[q].token <= remote.current
          /\ pc[q] = "refresh" /\ call[q].st = "sent" => call[q].token = snap[q].refresh_token
          /\ pc[q] = "refresh" /\ call[q].st = "rejected" => Refused(snap[q].refresh_token)
          /\ pc[q] \in RevokePCs /\ why[q] = "remote" => Refused(work[q].refresh_token)

\* auth-mini only goes on to later tokens, and never revives a session.
LEMMA RemoteStep ==
    ASSUME TypeOK, [Next]_vars
    PROVE  remote.current <= remote'.current /\ (~remote.alive => ~remote'.alive)
<1>0. remote \in [current : Nat, alive : BOOLEAN]
  BY Zenon DEF TypeOK
<1>1. CASE remote' = remote
  BY <1>0, <1>1
<1>2. CASE remote' = [remote EXCEPT !.current = @ + 1]
  BY <1>0, <1>2
<1>3. CASE remote' = [remote EXCEPT !.alive = FALSE]
  BY <1>0, <1>3
<1>4. ASSUME NEW r \in Requests,
             \/ Start(r) \/ Lookup(r) \/ Check(r) \/ Touch(r) \/ TouchUpdate(r) \/ Touched(r)
             \/ Execute(r) \/ RefreshFails(r) \/ RefreshReturns(r) \/ PersistPending(r)
             \/ PersistResolved(r) \/ Recover(r) \/ FinalizePending(r) \/ FinalizeResolved(r)
             \/ RevokeLookup(r) \/ ConditionalRevoke(r) \/ Panic(r) \/ Complete(r)
      PROVE  remote' = remote
  BY Zenon, <1>4 DEF Start, Lookup, Check, Touch, TouchUpdate, Touched, Complete, Execute,
     RefreshFails, RefreshReturns, PersistPending, PersistResolved, Recover, FinalizePending,
     FinalizeResolved, RevokeLookup, ConditionalRevoke, Panic
<1>5. ASSUME \E r \in Requests : RemoteRefresh(r)
      PROVE  remote' = remote \/ remote' = [remote EXCEPT !.current = @ + 1]
  BY Zenon, <1>5 DEF RemoteRefresh
<1>6. ASSUME NEW p \in Procs,
             LogoutSnapshot(p) \/ LogoutRevoke(p) \/ LogoutRemote(p) \/ Crash(p)
      PROVE  remote' = remote \/ remote' = [remote EXCEPT !.alive = FALSE]
  BY Zenon, <1>6 DEF LogoutSnapshot, LogoutRevoke, LogoutRemote, Crash
<1>7. ASSUME RemoteOrphan
      PROVE  remote' = remote \/ remote' = [remote EXCEPT !.current = @ + 1]
  BY Zenon, <1>7 DEF RemoteOrphan
<1>8. CASE RemoteInvalidate
  BY Zenon, <1>3, <1>8 DEF RemoteInvalidate
<1>9. ASSUME Prune \/ Tick \/ UNCHANGED vars PROVE remote' = remote
  BY Zenon, <1>9 DEF Prune, Tick, vars
<1> QED BY Zenon, <1>1, <1>2, <1>3, <1>4, <1>5, <1>6, <1>7, <1>8, <1>9 DEF Next, Step

\* What a step may do to a refresh call and to the reason to revoke.
CallStep(q) ==
    /\ \/ call'[q] \in {call[q], NoCall}
       \/ call'[q].st = "sent" /\ call'[q].token = snap[q].refresh_token
       \/ call'[q].st = "ok" /\ call'[q].token = remote'.current
       \/ /\ call'[q].st = "rejected" /\ call'[q].token = call[q].token
          /\ call[q].st = "sent" /\ Refused(call[q].token)
    /\ pc'[q] = "refresh" =>
          /\ snap'[q] = snap[q]
          /\ pc[q] = "refresh" \/ (call'[q].st = "sent" /\ call'[q].token = snap[q].refresh_token)
    /\ pc'[q] \in RevokePCs /\ why'[q] = "remote" =>
          \/ pc[q] \in RevokePCs /\ why[q] = "remote" /\ work'[q] = work[q]
          \/ pc[q] = "refresh" /\ call[q].st = "rejected" /\ work'[q] = snap[q]

LEMMA CallLoop ==
    ASSUME TypeOK, NEW r \in Requests, NEW q \in Requests,
           Start(r) \/ Lookup(r) \/ Check(r) \/ Touch(r) \/ TouchUpdate(r) \/ Touched(r)
    PROVE  CallStep(q)
<1>0. LocalDomains
  BY Zenon, LocalsHaveDomains
<1> USE DEF LocalDomains, CallStep, RevokePCs, Goto, GotoAt, Decide, Continue
<1>1. CASE Start(r)
  BY Zenon, <1>0, <1>1 DEF Start
<1>2. CASE Lookup(r)
  BY <1>0, <1>2 DEF Lookup
<1>3. CASE Check(r)
  BY ZenonT(60), <1>0, <1>3 DEF Check, acquire
<1>4. CASE Touch(r)
  BY <1>0, <1>4 DEF Touch
<1>5. CASE TouchUpdate(r)
  BY <1>0, <1>5 DEF TouchUpdate
<1>6. CASE Touched(r)
  BY ZenonT(60), <1>0, <1>6 DEF Touched
<1> QED BY Zenon, <1>1, <1>2, <1>3, <1>4, <1>5, <1>6

LEMMA CallLeader ==
    ASSUME TypeOK, NEW r \in Requests, NEW q \in Requests,
           \/ Execute(r) \/ RefreshFails(r) \/ RefreshReturns(r)
           \/ PersistPending(r) \/ PersistResolved(r)
           \/ Recover(r) \/ FinalizePending(r) \/ FinalizeResolved(r)
           \/ RevokeLookup(r) \/ ConditionalRevoke(r) \/ Panic(r)
    PROVE  CallStep(q)
<1>0. LocalDomains
  BY Zenon, LocalsHaveDomains
<1>3. CASE RefreshReturns(r)
  <2>1. \/ call[r].st = "rejected" /\ GoOnWith(r, "revoke_lookup", snap[r], "remote")
        \/ GoOnWith(r, "revoke_lookup", snap[r], "audience")
        \/ GoOnWith(r, "publish_unavailable", FirstRow, "no")
        \/ Proceed(r, "persist")
    BY Zenon, <1>3 DEF RefreshReturns, Publish, RevokeExpected
  <2>2. q # r => /\ pc'[q] = pc[q] /\ snap'[q] = snap[q] /\ work'[q] = work[q]
                 /\ why'[q] = why[q] /\ call'[q] = call[q]
    BY Zenon, <1>0, <2>1 DEF GoOnWith, Proceed, Goto, GotoAt, flightLocals, LocalDomains
  <2>3. ASSUME NEW next, NEW session, NEW reason, GoOnWith(r, next, session, reason)
        PROVE  pc'[r] = next /\ work'[r] = session /\ why'[r] = reason /\ call'[r] = NoCall
    BY Zenon, <1>0, <2>3 DEF GoOnWith, Goto, GotoAt, LocalDomains
  <2>4. Proceed(r, "persist") => pc'[r] = "persist" /\ call'[r] = call[r]
    BY Zenon, <1>0 DEF Proceed, Goto, GotoAt, flightLocals, LocalDomains
  <2>5. pc[r] = "refresh"
    BY Zenon, <1>3 DEF RefreshReturns
  <2>6. \/ /\ pc'[r] = "revoke_lookup" /\ call[r].st = "rejected" /\ work'[r] = snap[r]
           /\ call'[r] = NoCall
        \/ pc'[r] = "revoke_lookup" /\ why'[r] = "audience" /\ call'[r] = NoCall
        \/ pc'[r] \in {"publish_unavailable", "persist"} /\ call'[r] \in {call[r], NoCall}
    BY Zenon, <2>1, <2>3, <2>4
  <2> QED BY Zenon, <2>2, <2>5, <2>6 DEF CallStep, RevokePCs
<1> USE DEF LocalDomains, CallStep, RevokePCs, Goto, GotoAt, GoOnWith, Publish, RecoverWith, RevokeExpected,
            Proceed, UseCurrent, UseCurrentWithoutRefresh, flightLocals
<1>1. CASE Execute(r)
  <2>1. CASE /\ Goto(r, "refresh")
             /\ call' = [call EXCEPT ![r] = [NoCall EXCEPT !.st = "sent",
                                               !.token = snap[r].refresh_token]]
             /\ UNCHANGED <<snap, work, why, lost>>
    <3>1. /\ [NoCall EXCEPT !.st = "sent", !.token = snap[r].refresh_token].st = "sent"
          /\ [NoCall EXCEPT !.st = "sent", !.token = snap[r].refresh_token].token
                = snap[r].refresh_token
      BY Zenon, InitialValues
    <3>2. /\ call'[r].st = "sent" /\ call'[r].token = snap[r].refresh_token
          /\ q # r => call'[q] = call[q]
      BY Zenon, <1>0, <2>1, <3>1
    <3> QED BY Zenon, <1>0, <1>1, <2>1, <3>2
  <2>2. CASE ~(/\ Goto(r, "refresh")
               /\ call' = [call EXCEPT ![r] = [NoCall EXCEPT !.st = "sent",
                                                 !.token = snap[r].refresh_token]]
               /\ UNCHANGED <<snap, work, why, lost>>)
    <3>1. Publish(r, "publish_unavailable") \/ RecoverWith(r, snap[r]) \/ Publish(r, "publish_ready")
      BY Zenon, <1>1, <2>2 DEF Execute
    <3> QED BY <1>0, <3>1
  <2> QED BY Zenon, <2>1, <2>2
<1>2. CASE RefreshFails(r)
  BY Zenon, <1>0, <1>2 DEF RefreshFails
<1>4. CASE PersistPending(r)
  BY <1>0, <1>4 DEF PersistPending
<1>5. CASE PersistResolved(r)
  BY ZenonT(60), <1>0, <1>5 DEF PersistResolved
<1>6. CASE Recover(r)
  BY <1>0, <1>6 DEF Recover
<1>7. CASE FinalizePending(r)
  BY ZenonT(60), <1>0, <1>7 DEF FinalizePending
<1>8. CASE FinalizeResolved(r)
  BY ZenonT(60), <1>0, <1>8 DEF FinalizeResolved
<1>9. CASE RevokeLookup(r)
  BY ZenonT(60), <1>0, <1>9 DEF RevokeLookup
<1>10. CASE ConditionalRevoke(r)
  BY <1>0, <1>10 DEF ConditionalRevoke
<1>11. CASE Panic(r)
  BY Zenon, <1>0, <1>11 DEF Panic
<1> QED BY Zenon, <1>1, <1>2, <1>3, <1>4, <1>5, <1>6, <1>7, <1>8, <1>9, <1>10, <1>11

LEMMA CallSteps ==
    ASSUME TypeOK, [Next]_vars, NEW q \in Requests
    PROVE  CallStep(q)
<1>0. call[q] \in [st : {"none", "sent", "ok", "rejected"}, token : Nat, access : AccessToken]
  BY Zenon DEF TypeOK
<1>1. ASSUME NEW r \in Requests, Complete(r) PROVE CallStep(q)
  <2>1. pc'[q] \in {pc[q], "lookup", "unauthenticated", "unavailable"}
    BY <1>1 DEF Complete, OutcomeDecision, Publishing
  <2> QED BY Zenon, <1>1, <2>1 DEF Complete, CallStep, RevokePCs
<1>2. CASE UNCHANGED <<pc, snap, work, why, call>>
  BY Zenon, <1>2 DEF CallStep
<1>3. ASSUME NEW r \in Requests, RemoteRefresh(r) PROVE CallStep(q)
  <2>1. UNCHANGED <<pc, snap, work, why>>
    BY Zenon, <1>3 DEF RemoteRefresh, RemoteFrame
  <2>2. CASE q # r
    <3>1. call'[q] = call[q]
      BY Zenon, <1>3, <2>2 DEF RemoteRefresh, TypeOK
    <3> QED BY Zenon, <2>1, <3>1 DEF CallStep
  <2>3. CASE q = r /\ call' = [call EXCEPT ![r].st = "rejected"]
    <3>1. call'[q].st = "rejected" /\ call'[q].token = call[q].token
      BY Zenon, <1>0, <2>3 DEF TypeOK
    <3>2. ASSUME NEW access,
                 call' = [call EXCEPT ![r] = [st |-> "ok", token |-> remote.current + 1,
                                              access |-> access]]
          PROVE  FALSE
      BY <2>3, <3>1, <3>2 DEF TypeOK
    <3>3. call[q].st = "sent" /\ Refused(call[q].token)
      BY Zenon, <1>3, <2>3, <3>2 DEF RemoteRefresh, Refused
    <3> QED BY Zenon, <2>1, <3>1, <3>3, <1>3, <2>3 DEF CallStep, RevokePCs, RemoteRefresh
  <2>4. CASE /\ q = r /\ remote' = [remote EXCEPT !.current = @ + 1]
             /\ \E access \in Issued :
                   call' = [call EXCEPT ![r] = [st |-> "ok", token |-> remote.current + 1,
                                                access |-> access]]
    <3>1. remote'.current = remote.current + 1
      BY Zenon, <2>4 DEF TypeOK
    <3>2. call'[q].st = "ok" /\ call'[q].token = remote.current + 1
      BY <2>4 DEF TypeOK
    <3>3. pc[q] = "refresh"
      BY Zenon, <1>3, <2>4 DEF RemoteRefresh
    <3> QED BY Zenon, <2>1, <3>1, <3>2, <3>3 DEF CallStep, RevokePCs
  <2> QED BY Zenon, <1>3, <2>2, <2>3, <2>4 DEF RemoteRefresh
<1>4. ASSUME NEW p \in Procs, Crash(p) PROVE CallStep(q)
  BY Zenon, <1>4 DEF Crash, CallStep, RevokePCs, TypeOK
<1>5. ASSUME NEW p \in Procs, LogoutSnapshot(p) \/ LogoutRevoke(p) \/ LogoutRemote(p)
      PROVE  UNCHANGED <<pc, snap, work, why, call>>
  BY Zenon, <1>5 DEF LogoutSnapshot, LogoutRevoke, LogoutRemote, logoutFrame, flightVars
<1>6. ASSUME RemoteOrphan \/ RemoteInvalidate \/ Prune \/ Tick \/ UNCHANGED vars
      PROVE  UNCHANGED <<pc, snap, work, why, call>>
  BY Zenon, <1>6 DEF RemoteOrphan, RemoteInvalidate, RemoteFrame, Prune, Tick, logoutFrame, flightVars, vars
<1> QED BY Zenon, CallLoop, CallLeader, <1>1, <1>2, <1>3, <1>4, <1>5, <1>6 DEF Next, Step

\* Only conditional_revoke, called after a refusal, revokes for the reason "remote", and
\* only the token it was called with.
LEMMA RemoteRevokes ==
    ASSUME TypeOK, [Next]_vars, row.revoked = "no", row'.revoked = "remote"
    PROVE  \E r \in Requests :
              /\ pc[r] = "revoke" /\ why[r] = "remote"
              /\ row.refresh_token = work[r].refresh_token
              /\ row'.refresh_token = row.refresh_token
<1>0. row \in GatewaySession
  BY Zenon DEF TypeOK
<1>1. row' # row
  OBVIOUS
<1>2. ASSUME NEW r \in Requests,
             \/ Start(r) \/ Lookup(r) \/ Check(r) \/ Touch(r) \/ Touched(r)
             \/ Execute(r) \/ RefreshFails(r) \/ RefreshReturns(r) \/ PersistResolved(r)
             \/ Recover(r) \/ FinalizeResolved(r) \/ RevokeLookup(r) \/ Panic(r)
             \/ Complete(r) \/ RemoteRefresh(r)
      PROVE  row' = row
  BY Zenon, <1>2 DEF Start, Lookup, Check, Touch, Touched, Execute, RefreshFails, RefreshReturns,
     PersistResolved, Recover, FinalizeResolved, RevokeLookup, Panic, Complete, RemoteRefresh,
     RemoteFrame
<1>3. ASSUME NEW r \in Requests, TouchUpdate(r) PROVE FALSE
  BY Zenon, <1>0, <1>1, <1>3 DEF TouchUpdate, touch_ready_Update, GatewaySession
<1>4. ASSUME NEW r \in Requests, PersistPending(r) PROVE FALSE
  <2>1. row' = persist_pending_Update(row, call[r].token, call[r].access)
    BY Zenon, <1>1, <1>4 DEF PersistPending
  <2> QED BY Zenon, <2>1 DEF persist_pending_Update
<1>5. ASSUME NEW r \in Requests, FinalizePending(r) PROVE FALSE
  BY Zenon, <1>0, <1>1, <1>5 DEF FinalizePending, finalize_pending_Update, GatewaySession
<1>6. ASSUME NEW r \in Requests, ConditionalRevoke(r)
      PROVE  /\ pc[r] = "revoke" /\ why[r] = "remote"
             /\ row.refresh_token = work[r].refresh_token
             /\ row'.refresh_token = row.refresh_token
  <2>1. /\ pc[r] = "revoke" /\ row.refresh_token = work[r].refresh_token
        /\ row' = [row EXCEPT !.revoked = why[r]]
    BY Zenon, <1>1, <1>6 DEF ConditionalRevoke, conditional_revoke_Matches, revoke_Update
  <2> QED BY Zenon, <1>0, <2>1 DEF GatewaySession
<1>7. ASSUME NEW p \in Procs, LogoutSnapshot(p) \/ LogoutRemote(p) \/ Crash(p)
      PROVE  row' = row
  BY Zenon, <1>7 DEF LogoutSnapshot, LogoutRemote, Crash
<1>8. ASSUME NEW p \in Procs, LogoutRevoke(p) PROVE FALSE
  <2>1. row' = [row EXCEPT !.revoked = "logout"]
    BY Zenon, <1>1, <1>8 DEF LogoutRevoke, revoke_Update
  <2> QED BY Zenon, <1>0, <2>1 DEF GatewaySession
<1>9. ASSUME RemoteOrphan \/ RemoteInvalidate \/ Prune \/ Tick \/ UNCHANGED vars
      PROVE  row' = row
  BY Zenon, <1>9 DEF RemoteOrphan, RemoteInvalidate, RemoteFrame, Prune, Tick, vars
<1> QED BY Zenon, <1>1, <1>2, <1>3, <1>4, <1>5, <1>6, <1>7, <1>8, <1>9 DEF Next, Step

\* No write gives the row a token that auth-mini has not issued.
LEMMA RowTokenKept ==
    ASSUME TypeOK, TokenInv, [Next]_vars
    PROVE  row'.refresh_token <= remote.current
<1>0. row \in GatewaySession /\ row.refresh_token <= remote.current
  BY Zenon DEF TypeOK, TokenInv
<1>1. ASSUME NEW r \in Requests, TouchesRow(r) PROVE row'.refresh_token = row.refresh_token
  BY Zenon, <1>0, <1>1 DEF TouchesRow, touch_ready_Update, GatewaySession
<1>2. ASSUME NEW r \in Requests, PersistsRow(r) PROVE row'.refresh_token <= remote.current
  BY Zenon, <1>2 DEF PersistsRow, persist_pending_Update, TokenInv
<1>3. ASSUME NEW r \in Requests, FinalizesRow(r) PROVE row'.refresh_token = row.refresh_token
  BY Zenon, <1>0, <1>3 DEF FinalizesRow, finalize_pending_Update, GatewaySession
<1>4. ASSUME NEW by \in Revocation, row' = revoke_Update(row, by)
      PROVE  row'.refresh_token = row.refresh_token
  BY Zenon, <1>0, <1>4 DEF revoke_Update, GatewaySession
<1> QED BY Zenon, <1>0, <1>1, <1>2, <1>3, <1>4, RowStep DEF WritesRow, RevokesRow

LEMMA TokenInvNext ==
    ASSUME TypeOK, TypeOK', TokenInv, [Next]_vars
    PROVE  TokenInv'
<1>0. /\ remote.current \in Nat /\ remote'.current \in Nat
      /\ row.refresh_token \in Nat /\ row'.refresh_token \in Nat
      /\ FirstRow.refresh_token = 0 /\ NoCall.token = 0 /\ NoCall.st = "none"
      /\ \A q \in Requests : /\ snap[q].refresh_token \in Nat /\ work[q].refresh_token \in Nat
                             /\ call[q].token \in Nat /\ call'[q].token \in Nat
  BY Zenon DEF TypeOK, GatewaySession, FirstRow, create_session, NoCall
<1>1. remote.current <= remote'.current /\ (~remote.alive => ~remote'.alive)
  BY Zenon, RemoteStep
<1>2. ASSUME NEW token \in Nat, token <= remote.current, Refused(token)
      PROVE  ~remote'.alive \/ remote'.current # token
  BY <1>0, <1>1, <1>2 DEF Refused
<1>3. row'.refresh_token <= remote'.current
  BY <1>0, <1>1, RowTokenKept
<1>4. RemoteRevokeJustified'
  <2>1. CASE row' = row
    BY <1>0, <1>1, <2>1 DEF TokenInv, RemoteRevokeJustified
  <2>2. CASE row' # row /\ row'.revoked = "remote"
    <3>1. row.revoked = "no"
      BY Zenon, <2>2, RowStep, WritesOnlyLive
    <3>2. PICK r \in Requests :
             /\ pc[r] = "revoke" /\ why[r] = "remote"
             /\ row.refresh_token = work[r].refresh_token
             /\ row'.refresh_token = row.refresh_token
      BY Zenon, <2>2, <3>1, RemoteRevokes
    <3>3. Refused(row.refresh_token)
      BY Zenon, <3>2 DEF TokenInv, RevokePCs
    <3>4. ~remote'.alive \/ remote'.current # row.refresh_token
      BY SMTT(60), <1>0, <1>1, <3>3 DEF TokenInv, Refused
    <3> QED BY Zenon, <3>2, <3>4 DEF RemoteRevokeJustified
  <2> QED BY Zenon, <2>1, <2>2 DEF RemoteRevokeJustified
<1>5. ASSUME NEW q \in Requests
      PROVE  /\ snap'[q].refresh_token <= remote'.current
             /\ work'[q].refresh_token <= remote'.current
             /\ call'[q].token <= remote'.current
             /\ pc'[q] = "refresh" /\ call'[q].st = "sent" =>
                   call'[q].token = snap'[q].refresh_token
             /\ pc'[q] = "refresh" /\ call'[q].st = "rejected" =>
                   ~remote'.alive \/ remote'.current # snap'[q].refresh_token
             /\ pc'[q] \in RevokePCs /\ why'[q] = "remote" =>
                   ~remote'.alive \/ remote'.current # work'[q].refresh_token
  <2>1. LocalStep(q) /\ CallStep(q)
    BY Zenon, LocalSteps, CallSteps
  <2>2. snap'[q].refresh_token <= remote'.current /\ work'[q].refresh_token <= remote'.current
    BY SMTT(60), <1>0, <1>1, <2>1 DEF LocalStep, TokenInv
  <2>3. call'[q].token <= remote'.current
    BY SMTT(60), <1>0, <1>1, <2>1 DEF CallStep, TokenInv
  <2>4. pc'[q] = "refresh" /\ call'[q].st = "sent" => call'[q].token = snap'[q].refresh_token
    BY Zenon, <1>0, <2>1 DEF CallStep, TokenInv
  <2>5. pc'[q] = "refresh" /\ call'[q].st = "rejected" =>
           ~remote'.alive \/ remote'.current # snap'[q].refresh_token
    <3>1. pc'[q] = "refresh" /\ call'[q].st = "rejected" =>
             snap'[q] = snap[q] /\ Refused(snap[q].refresh_token)
      BY Zenon, <1>0, <2>1 DEF CallStep, TokenInv
    <3> QED BY Zenon, <1>0, <1>2, <3>1 DEF TokenInv
  <2>6. pc'[q] \in RevokePCs /\ why'[q] = "remote" =>
           ~remote'.alive \/ remote'.current # work'[q].refresh_token
    <3>1. pc'[q] \in RevokePCs /\ why'[q] = "remote" =>
             \/ work'[q] = work[q] /\ Refused(work[q].refresh_token)
             \/ work'[q] = snap[q] /\ Refused(snap[q].refresh_token)
      BY Zenon, <2>1 DEF CallStep, TokenInv
    <3> QED BY Zenon, <1>0, <1>2, <3>1 DEF TokenInv
  <2> QED BY Zenon, <2>2, <2>3, <2>4, <2>5, <2>6
<1> QED BY Zenon, <1>3, <1>4, <1>5 DEF TokenInv, Refused

\* The row is revoked for auth-mini's refusal only if auth-mini refuses the very token the
\* row holds.  A refusal of a token that another process has meanwhile replaced never ends
\* the session: conditional_revoke compares the token with the row's.
THEOREM RemoteRevocationIsJustified == Spec => []RemoteRevokeJustified
<1>1. Init => TokenInv
  <2> SUFFICES ASSUME Init PROVE TokenInv
    OBVIOUS
  <2>1. /\ FirstRow.refresh_token = 0 /\ FirstRow.revoked = "no"
        /\ NoCall.token = 0
    BY Zenon DEF FirstRow, create_session, NoCall
  <2> QED BY SMTT(60), <2>1 DEF Init, TokenInv, RemoteRevokeJustified, RevokePCs
<1>2. TypeOK /\ TypeOK' /\ TokenInv /\ [Next]_vars => TokenInv'
  BY Zenon, TokenInvNext
<1>3. TokenInv => RemoteRevokeJustified
  BY Zenon DEF TokenInv
<1> QED BY <1>1, <1>2, <1>3, TypeCorrect, PTL DEF Spec

-----------------------------------------------------------------------------
(* With one process, a refusal tells of a lost rotation.                   *)

\* Where a leader is while it has a refresh call or its answer.
HoldPCs == {"refresh", "persist", "persist_lost"}

\* The ways in which a step of a leader treats its refresh call: it drops what it has,
\* sends a call, saves the answer in the row, or goes on with what it has.
DropsCall(r) ==
    /\ \E next \in LeaderPCs \ HoldPCs : pc' = [pc EXCEPT ![r] = next]
    /\ call' = [call EXCEPT ![r] = NoCall]
    /\ lost' = (lost \/ call[r].st = "ok")

SendsCall(r) ==
    /\ pc' = [pc EXCEPT ![r] = "refresh"]
    /\ \E c : c.st = "sent" /\ call' = [call EXCEPT ![r] = c]
    /\ pc[r] = "execute" /\ lost' = lost

SavesCall(r) ==
    /\ PersistsRow(r)
    /\ pc' = [pc EXCEPT ![r] = "persisted"]
    /\ call' = [call EXCEPT ![r] = NoCall]
    /\ lost' = lost

KeepsCall(r) ==
    /\ call' = call /\ lost' = lost
    /\ \E next \in LeaderPCs :
          /\ pc' = [pc EXCEPT ![r] = next]
          /\ \/ pc[r] = "refresh" /\ call[r].st = "ok" /\ next = "persist"
             \/ pc[r] = "persist" /\ next = "persist_lost"
             \/ pc[r] \notin HoldPCs /\ next \notin HoldPCs

LEMMA GoingOnDrops ==
    ASSUME NEW r \in Requests, NEW next \in LeaderPCs \ HoldPCs, NEW session, NEW reason,
           GoOnWith(r, next, session, reason)
    PROVE  DropsCall(r)
BY Zenon DEF GoOnWith, Goto, DropsCall

LEMMA ProceedingKeeps ==
    ASSUME NEW r \in Requests, NEW next \in LeaderPCs \ HoldPCs, pc[r] \notin HoldPCs,
           Proceed(r, next)
    PROVE  KeepsCall(r)
BY Zenon DEF Proceed, Goto, flightLocals, KeepsCall

LEMMA LeaderCall ==
    ASSUME TypeOK, NEW r \in Requests,
           \/ Execute(r) \/ RefreshFails(r) \/ RefreshReturns(r)
           \/ PersistPending(r) \/ PersistResolved(r)
           \/ Recover(r) \/ FinalizePending(r) \/ FinalizeResolved(r)
           \/ RevokeLookup(r) \/ ConditionalRevoke(r) \/ Panic(r)
    PROVE  DropsCall(r) \/ SendsCall(r) \/ SavesCall(r) \/ KeepsCall(r)
<1>0. /\ {"refresh", "persist", "persist_lost", "persisted", "finalize", "finalized", "finalize_lost",
          "revoke", "revoke_recheck"} \subseteq LeaderPCs
      /\ {"recover", "revoke_lookup", "publish_ready", "publish_rejected", "publish_unavailable",
          "finalize", "finalized", "finalize_lost", "revoke", "revoke_recheck"}
            \subseteq LeaderPCs \ HoldPCs
  BY DEF LeaderPCs, Publishing, HoldPCs
<1>a. ASSUME NEW outcome \in Publishing, Publish(r, outcome) PROVE DropsCall(r)
  <2>1. outcome \in LeaderPCs \ HoldPCs
    BY Zenon, <1>0 DEF Publishing
  <2> QED BY Zenon, <1>a, <2>1, GoingOnDrops DEF Publish
<1>b. ASSUME NEW session, RecoverWith(r, session) PROVE DropsCall(r)
  BY Zenon, <1>0, <1>b, GoingOnDrops DEF RecoverWith
<1>c. ASSUME NEW session, NEW reason, RevokeExpected(r, session, reason) PROVE DropsCall(r)
  BY Zenon, <1>0, <1>c, GoingOnDrops DEF RevokeExpected
<1>d. UseCurrentWithoutRefresh(r) => DropsCall(r)
  BY Zenon, <1>a, <1>b DEF UseCurrentWithoutRefresh, Publishing
<1>e. UseCurrent(r) => DropsCall(r)
  BY Zenon, <1>a, <1>d DEF UseCurrent, Publishing
<1>1. CASE Execute(r)
  <2>1. CASE /\ Goto(r, "refresh")
             /\ call' = [call EXCEPT ![r] = [NoCall EXCEPT !.st = "sent",
                                               !.token = snap[r].refresh_token]]
             /\ UNCHANGED <<snap, work, why, lost>>
    <3>1. [NoCall EXCEPT !.st = "sent", !.token = snap[r].refresh_token].st = "sent"
      BY Zenon, InitialValues
    <3>2. pc[r] = "execute"
      BY Zenon, <1>1 DEF Execute
    <3> QED BY Zenon, <2>1, <3>1, <3>2 DEF SendsCall, Goto
  <2>2. CASE ~(/\ Goto(r, "refresh")
               /\ call' = [call EXCEPT ![r] = [NoCall EXCEPT !.st = "sent",
                                                 !.token = snap[r].refresh_token]]
               /\ UNCHANGED <<snap, work, why, lost>>)
    <3>1. Publish(r, "publish_unavailable") \/ RecoverWith(r, snap[r]) \/ Publish(r, "publish_ready")
      BY Zenon, <1>1, <2>2 DEF Execute
    <3> QED BY Zenon, <3>1, <1>a, <1>b DEF Publishing
  <2> QED BY Zenon, <2>1, <2>2
<1>2. CASE RefreshFails(r) \/ Panic(r)
  BY Zenon, <1>2, <1>a DEF RefreshFails, Panic, Publishing
<1>3. CASE RefreshReturns(r)
  <2>1. pc[r] = "refresh" /\ call[r].st = "ok" /\ Proceed(r, "persist") => KeepsCall(r)
    BY Zenon, <1>0 DEF Proceed, Goto, flightLocals, KeepsCall
  <2> QED BY Zenon, <1>3, <2>1, <1>a, <1>c DEF RefreshReturns, Publishing
<1>4. CASE PersistPending(r)
  <2>1. pc[r] = "persist"
    BY Zenon, <1>4 DEF PersistPending
  <2>2. ASSUME NEW t \in Clock(r), GotoAt(r, "persist_lost", t), UNCHANGED <<call, lost>>
        PROVE  KeepsCall(r)
    BY Zenon, <1>0, <2>1, <2>2 DEF GotoAt, KeepsCall
  <2>3. ASSUME NEW t \in Clock(r), stored /\ persist_pending_Matches(row, snap[r], t),
               row' = persist_pending_Update(row, call[r].token, call[r].access),
               call' = [call EXCEPT ![r] = NoCall], GotoAt(r, "persisted", t), lost' = lost
        PROVE  SavesCall(r)
    BY Zenon, <2>1, <2>3 DEF GotoAt, SavesCall, PersistsRow
  <2> QED BY Zenon, <1>4, <2>2, <2>3, <1>a DEF PersistPending, Publishing
<1>5. CASE PersistResolved(r)
  BY Zenon, <1>5, <1>a, <1>b, <1>e DEF PersistResolved, Publishing
<1>6. CASE Recover(r)
  <2>1. pc[r] \notin HoldPCs
    BY <1>6 DEF Recover, HoldPCs
  <2> QED BY Zenon, <1>0, <1>6, <2>1, <1>a, <1>c, ProceedingKeeps DEF Recover, Publishing
<1>7. CASE FinalizePending(r)
  <2>1. pc[r] \notin HoldPCs
    BY <1>7 DEF FinalizePending, HoldPCs
  <2>2. ASSUME NEW t \in Clock(r), NEW next \in {"finalized", "finalize_lost"},
               GotoAt(r, next, t), UNCHANGED flightLocals
        PROVE  KeepsCall(r)
    <3>1. next \in LeaderPCs \ HoldPCs
      BY Zenon, <1>0
    <3> QED BY Zenon, <2>1, <2>2, <3>1 DEF GotoAt, KeepsCall, flightLocals
  <2> QED BY Zenon, <1>7, <2>2, <1>a DEF FinalizePending, Publishing
<1>8. CASE FinalizeResolved(r)
  BY Zenon, <1>8, <1>a DEF FinalizeResolved, Publishing
<1>9. CASE RevokeLookup(r)
  <2>1. pc[r] \notin HoldPCs
    BY <1>9 DEF RevokeLookup, HoldPCs
  <2> QED BY Zenon, <1>0, <1>9, <2>1, <1>a, <1>d, ProceedingKeeps DEF RevokeLookup, Publishing
<1>10. CASE ConditionalRevoke(r)
  <2>1. pc[r] \notin HoldPCs
    BY <1>10 DEF ConditionalRevoke, HoldPCs
  <2> QED BY Zenon, <1>0, <1>10, <2>1, <1>a, ProceedingKeeps DEF ConditionalRevoke, Publishing
<1> QED BY Zenon, <1>1, <1>2, <1>3, <1>4, <1>5, <1>6, <1>7, <1>8, <1>9, <1>10

\* An auth check holds a call or an answer only at HoldPCs, and writes with an answer.
Holds(q) ==
    /\ call[q].st # "none" => pc[q] \in HoldPCs
    /\ pc[q] \in {"persist", "persist_lost"} => call[q].st = "ok"

\* auth-mini answers q's call with the next token.
Rotates(q) ==
    /\ pc[q] = "refresh" /\ call[q].st = "sent"
    /\ call'[q].st = "ok" /\ call'[q].token = remote'.current

\* What a step does with the answer an auth check holds.
HoldStep(q) ==
    /\ Holds(q) => Holds(q)'
    /\ Holds(q) /\ call[q].st = "ok" => call'[q] = call[q] \/ lost' \/ PersistsRow(q)
    /\ call'[q].st = "ok" => call'[q] = call[q] \/ Rotates(q)

LEMMA HoldLeader ==
    ASSUME TypeOK, NEW r \in Requests, NEW q \in Requests,
           DropsCall(r) \/ SendsCall(r) \/ SavesCall(r) \/ KeepsCall(r)
    PROVE  HoldStep(q)
<1>0. DOMAIN pc = Requests /\ DOMAIN call = Requests /\ NoCall.st = "none"
  BY Zenon DEF TypeOK, NoCall
<1>1. CASE q # r
  <2>1. pc'[q] = pc[q] /\ call'[q] = call[q]
    BY Zenon, <1>0, <1>1 DEF DropsCall, SendsCall, SavesCall, KeepsCall
  <2> QED BY Zenon, <2>1 DEF HoldStep, Holds
<1>2. CASE q = r
  <2>1. CASE DropsCall(r)
    <3>1. call'[r].st = "none" /\ pc'[r] \notin HoldPCs /\ (call[r].st = "ok" => lost')
      BY Zenon, <1>0, <2>1 DEF DropsCall
    <3>2. pc'[r] \notin {"persist", "persist_lost"} /\ call'[r].st # "ok"
      BY <3>1 DEF HoldPCs
    <3> QED BY Zenon, <1>2, <3>1, <3>2 DEF HoldStep, Holds
  <2>2. CASE SendsCall(r)
    <3>1. call'[r].st = "sent" /\ pc'[r] = "refresh" /\ pc[r] = "execute"
      BY Zenon, <1>0, <2>2 DEF SendsCall
    <3> QED BY <1>2, <3>1 DEF HoldStep, Holds, HoldPCs
  <2>3. CASE SavesCall(r)
    <3>1. call'[r].st = "none" /\ pc'[r] = "persisted" /\ PersistsRow(r)
      BY Zenon, <1>0, <2>3 DEF SavesCall
    <3> QED BY <1>2, <3>1 DEF HoldStep, Holds, HoldPCs
  <2>4. CASE KeepsCall(r)
    <3>1. call'[r] = call[r]
      BY Zenon, <2>4 DEF KeepsCall
    <3>2. \/ pc[r] = "refresh" /\ call[r].st = "ok" /\ pc'[r] = "persist"
          \/ pc[r] = "persist" /\ pc'[r] = "persist_lost"
          \/ pc[r] \notin HoldPCs /\ pc'[r] \notin HoldPCs
      BY Zenon, <1>0, <2>4 DEF KeepsCall
    <3> QED BY <1>2, <3>1, <3>2 DEF HoldStep, Holds, HoldPCs
  <2> QED BY Zenon, <2>1, <2>2, <2>3, <2>4
<1> QED BY Zenon, <1>1, <1>2

LEMMA HoldSteps ==
    ASSUME TypeOK, [Next]_vars, NEW q \in Requests
    PROVE  HoldStep(q)
<1>0. DOMAIN pc = Requests /\ DOMAIN call = Requests /\ NoCall.st = "none"
  BY Zenon DEF TypeOK, NoCall
<1>1. ASSUME call' = call, NEW next, pc'[q] = next, next \notin HoldPCs, pc[q] \notin HoldPCs
      PROVE  HoldStep(q)
  BY <1>1 DEF HoldStep, Holds, HoldPCs
<1>6. ASSUME pc'[q] = pc[q], call' = call PROVE HoldStep(q)
  BY Zenon, <1>6 DEF HoldStep, Holds
<1>2. ASSUME NEW r \in Requests,
             \/ Start(r) \/ Lookup(r) \/ Touch(r) \/ TouchUpdate(r) \/ Touched(r)
             \/ Check(r) /\ UNCHANGED flight
      PROVE  HoldStep(q)
  <2>1. call' = call
    BY Zenon, <1>2 DEF Start, Lookup, Touch, TouchUpdate, Touched, Check
  <2>2. pc[r] \notin LeaderPCs /\ \E next \in PCs \ LeaderPCs : pc' = [pc EXCEPT ![r] = next]
    BY Zenon, <1>2, LoopMoves
  <2>3. PICK next \in PCs \ LeaderPCs : pc' = [pc EXCEPT ![r] = next]
    BY Zenon, <2>2
  <2>4. next \notin HoldPCs /\ pc[r] \notin HoldPCs
    BY <2>2 DEF HoldPCs, LeaderPCs
  <2>5. pc'[q] = pc[q] \/ (q = r /\ pc'[q] = next)
    BY Zenon, <1>0, <2>3
  <2> QED BY Zenon, <1>1, <1>6, <2>1, <2>4, <2>5
<1>3. ASSUME NEW r \in Requests, Check(r), ~UNCHANGED flight PROVE HoldStep(q)
  <2>1. call' = call /\ pc' = [pc EXCEPT ![r] = "execute"] /\ pc[r] = "check"
    BY Zenon, <1>3 DEF Check, acquire, Goto
  <2>2. "execute" \notin HoldPCs /\ "check" \notin HoldPCs
    BY DEF HoldPCs
  <2>3. pc'[q] = pc[q] \/ (q = r /\ pc'[q] = "execute")
    BY Zenon, <1>0, <2>1
  <2> QED BY Zenon, <1>1, <1>6, <2>1, <2>2, <2>3
<1>4. ASSUME NEW r \in Requests,
             \/ Execute(r) \/ RefreshFails(r) \/ RefreshReturns(r)
             \/ PersistPending(r) \/ PersistResolved(r)
             \/ Recover(r) \/ FinalizePending(r) \/ FinalizeResolved(r)
             \/ RevokeLookup(r) \/ ConditionalRevoke(r) \/ Panic(r)
      PROVE  HoldStep(q)
  BY Zenon, <1>4, LeaderCall, HoldLeader
<1>5. ASSUME NEW r \in Requests, Complete(r) PROVE HoldStep(q)
  <2>1. call' = call
    BY Zenon, <1>5 DEF Complete
  <2>2. pc'[q] \in {pc[q], "lookup", "unauthenticated", "unavailable"}
    BY <1>5 DEF Complete, OutcomeDecision, Publishing
  <2>3. pc'[q] # pc[q] => pc[q] \notin HoldPCs
    <3>1. pc'[q] # pc[q] => q \in {r} \cup Joined(r) \cup Closing(r)
      BY Zenon, <1>5 DEF Complete
    <3>2. pc[q] \in Publishing \cup {"joined", "closing"} => pc[q] \notin HoldPCs
      BY DEF Publishing, HoldPCs
    <3>3. pc[r] \in Publishing
      BY Zenon, <1>5 DEF Complete
    <3> QED BY Zenon, <3>1, <3>2, <3>3 DEF Joined, Closing
  <2> QED BY <2>1, <2>2, <2>3 DEF HoldStep, Holds, HoldPCs
<1>7. ASSUME NEW r \in Requests, RemoteRefresh(r) PROVE HoldStep(q)
  <2>0. /\ call[q] \in [st : {"none", "sent", "ok", "rejected"}, token : Nat, access : AccessToken]
        /\ remote \in [current : Nat, alive : BOOLEAN]
    BY Zenon DEF TypeOK
  <2>1. pc' = pc /\ pc[r] = "refresh" /\ call[r].st = "sent"
    BY Zenon, <1>7 DEF RemoteRefresh, RemoteFrame
  <2>2. CASE q # r
    <3>1. call'[q] = call[q]
      BY Zenon, <1>0, <1>7, <2>2 DEF RemoteRefresh
    <3> QED BY Zenon, <2>1, <3>1 DEF HoldStep, Holds
  <2>3. CASE q = r /\ call' = [call EXCEPT ![r].st = "rejected"]
    <3>1. call'[q].st = "rejected"
      BY Zenon, <1>0, <2>0, <2>3
    <3> QED BY <2>1, <2>3, <3>1 DEF HoldStep, Holds, HoldPCs
  <2>4. CASE /\ q = r /\ remote' = [remote EXCEPT !.current = @ + 1]
             /\ \E access \in Issued :
                   call' = [call EXCEPT ![r] = [st |-> "ok", token |-> remote.current + 1,
                                                access |-> access]]
    <3>1. remote'.current = remote.current + 1
      BY Zenon, <2>0, <2>4
    <3>2. call'[q].st = "ok" /\ call'[q].token = remote.current + 1
      BY <1>0, <2>4
    <3> QED BY <2>1, <2>4, <3>1, <3>2 DEF HoldStep, Holds, HoldPCs, Rotates
  <2> QED BY Zenon, <1>7, <2>2, <2>3, <2>4 DEF RemoteRefresh
<1>8. ASSUME NEW p \in Procs, Crash(p) PROVE HoldStep(q)
  <2>1. CASE Home[q] = p
    <3>1. pc'[q] = "idle" /\ call'[q].st = "none" /\ (call[q].st = "ok" => lost')
      BY Zenon, <1>0, <1>8, <2>1 DEF Crash
    <3> QED BY <3>1 DEF HoldStep, Holds, HoldPCs
  <2>2. CASE Home[q] # p
    <3>1. pc'[q] = pc[q] /\ call'[q] = call[q]
      BY Zenon, <1>8, <2>2 DEF Crash
    <3> QED BY Zenon, <3>1 DEF HoldStep, Holds
  <2> QED BY Zenon, <2>1, <2>2
<1>9. ASSUME NEW p \in Procs, LogoutSnapshot(p) \/ LogoutRevoke(p) \/ LogoutRemote(p)
      PROVE  UNCHANGED <<pc, call>>
  BY Zenon, <1>9 DEF LogoutSnapshot, LogoutRevoke, LogoutRemote, logoutFrame, flightVars
<1>10. ASSUME RemoteOrphan \/ RemoteInvalidate \/ Prune \/ Tick \/ UNCHANGED vars
       PROVE  UNCHANGED <<pc, call>>
  BY Zenon, <1>10 DEF RemoteOrphan, RemoteInvalidate, RemoteFrame, Prune, Tick, logoutFrame, flightVars, vars
<1> QED BY Zenon, <1>2, <1>3, <1>4, <1>5, <1>6, <1>7, <1>8, <1>9, <1>10 DEF Next, Step

\* auth-mini changes its token for a call whose auth check gets the answer, or the
\* rotation is lost; and what has been lost stays lost.
LEMMA RotationStep ==
    ASSUME TypeOK, [Next]_vars
    PROVE  /\ lost => lost'
           /\ \/ remote'.current = remote.current
              \/ lost'
              \/ \E r \in Requests : Rotates(r)
<1>0. DOMAIN call = Requests /\ remote \in [current : Nat, alive : BOOLEAN]
  BY Zenon DEF TypeOK
<1>2. ASSUME NEW r \in Requests,
             \/ Start(r) \/ Lookup(r) \/ Check(r) \/ Touch(r) \/ TouchUpdate(r) \/ Touched(r)
             \/ Complete(r)
      PROVE  remote' = remote /\ lost' = lost
  BY Zenon, <1>2 DEF Start, Lookup, Check, Touch, TouchUpdate, Touched, Complete, ghostVars
<1>3. ASSUME NEW r \in Requests,
             \/ Execute(r) \/ RefreshFails(r) \/ RefreshReturns(r)
             \/ PersistPending(r) \/ PersistResolved(r)
             \/ Recover(r) \/ FinalizePending(r) \/ FinalizeResolved(r)
             \/ RevokeLookup(r) \/ ConditionalRevoke(r) \/ Panic(r)
      PROVE  remote' = remote /\ (lost => lost')
  <2>1. remote' = remote
    BY Zenon, <1>3 DEF Execute, RefreshFails, RefreshReturns, PersistPending, PersistResolved, Recover,
       FinalizePending, FinalizeResolved, RevokeLookup, ConditionalRevoke, Panic
  <2> QED BY Zenon, <1>3, <2>1, LeaderCall DEF DropsCall, SendsCall, SavesCall, KeepsCall
<1>4. ASSUME NEW r \in Requests, RemoteRefresh(r)
      PROVE  lost' = lost /\ (remote' = remote \/ Rotates(r))
  <2>1. lost' = lost /\ pc[r] = "refresh" /\ call[r].st = "sent"
    BY Zenon, <1>4 DEF RemoteRefresh
  <2>2. ASSUME remote' = [remote EXCEPT !.current = @ + 1],
               NEW access,
               call' = [call EXCEPT ![r] = [st |-> "ok", token |-> remote.current + 1,
                                            access |-> access]]
        PROVE  Rotates(r)
    <3>1. remote'.current = remote.current + 1
      BY Zenon, <1>0, <2>2
    <3>2. call'[r].st = "ok" /\ call'[r].token = remote.current + 1
      BY <1>0, <2>2
    <3> QED BY Zenon, <2>1, <3>1, <3>2 DEF Rotates
  <2> QED BY Zenon, <1>4, <2>1, <2>2 DEF RemoteRefresh
<1>5. ASSUME NEW p \in Procs, Crash(p) PROVE remote' = remote /\ (lost => lost')
  BY Zenon, <1>5 DEF Crash
<1>6. ASSUME NEW p \in Procs, LogoutSnapshot(p) \/ LogoutRevoke(p) \/ LogoutRemote(p)
      PROVE  lost' = lost /\ remote'.current = remote.current
  BY Zenon, <1>0, <1>6 DEF LogoutSnapshot, LogoutRevoke, LogoutRemote, logoutFrame
<1>7. ASSUME RemoteOrphan PROVE (lost => lost') /\ (lost' \/ remote'.current = remote.current)
  BY SMT, <1>7 DEF RemoteOrphan
<1>8. ASSUME RemoteInvalidate \/ Prune \/ Tick \/ UNCHANGED vars
      PROVE  (lost => lost') /\ remote'.current = remote.current
  <2>1. lost' = lost /\ remote'.current = remote.current
    BY Zenon, <1>0, <1>8 DEF RemoteInvalidate, Prune, Tick, logoutFrame, ghostVars, vars
  <2> QED BY <2>1
<1>9. CASE \E r \in Requests : Start(r) \/ Step(r) \/ Panic(r) \/ RemoteRefresh(r)
  BY Zenon, <1>2, <1>3, <1>4, <1>9 DEF Step
<1>10. CASE \E p \in Procs : LogoutSnapshot(p) \/ LogoutRevoke(p) \/ LogoutRemote(p) \/ Crash(p)
  BY Zenon, <1>5, <1>6, <1>10
<1>11. CASE RemoteOrphan
  BY Zenon, <1>7, <1>11
<1>12. CASE RemoteInvalidate \/ Prune \/ Tick \/ UNCHANGED vars
  BY Zenon, <1>8, <1>12
<1> QED BY Zenon, <1>9, <1>10, <1>11, <1>12 DEF Next

\* Only persist_pending changes the token of the row.
LEMMA RowTokenStep ==
    ASSUME TypeOK, [Next]_vars
    PROVE  \/ row'.refresh_token = row.refresh_token
           \/ \E r \in Requests : PersistsRow(r) /\ row'.refresh_token = call[r].token
<1>0. row \in GatewaySession
  BY Zenon DEF TypeOK
<1>1. ASSUME NEW r \in Requests, TouchesRow(r) PROVE row'.refresh_token = row.refresh_token
  BY Zenon, <1>0, <1>1 DEF TouchesRow, touch_ready_Update, GatewaySession
<1>2. ASSUME NEW r \in Requests, PersistsRow(r) PROVE row'.refresh_token = call[r].token
  BY Zenon, <1>2 DEF PersistsRow, persist_pending_Update
<1>3. ASSUME NEW r \in Requests, FinalizesRow(r) PROVE row'.refresh_token = row.refresh_token
  BY Zenon, <1>0, <1>3 DEF FinalizesRow, finalize_pending_Update, GatewaySession
<1>4. ASSUME NEW by \in Revocation, row' = revoke_Update(row, by)
      PROVE  row'.refresh_token = row.refresh_token
  BY Zenon, <1>0, <1>4 DEF revoke_Update, GatewaySession
<1> QED BY Zenon, <1>1, <1>2, <1>3, <1>4, RowStep DEF WritesRow, RevokesRow

\* All auth checks run in the same process.
OneProcess == \A p \in Procs, q \in Procs : p = q

\* As long as nothing is lost, auth-mini's current token is in the row or in the hands of
\* the leader, which will write it.
LostInv ==
    /\ RefusedOnlyAfterLostRotation
    /\ ~lost => remote.current = row.refresh_token \/ \E q \in Requests : call[q].st = "ok"
    /\ \A q \in Requests : Holds(q)
    /\ \A q \in Requests : call[q].st = "ok" /\ ~lost => call[q].token = remote.current

LEMMA LostInvNext ==
    ASSUME OneProcess, TypeOK, SingleFlight, TokenInv, LostInv, [Next]_vars
    PROVE  LostInv'
<1>0. /\ \A r \in Requests, q \in Requests : pc[r] \in LeaderPCs /\ pc[q] \in LeaderPCs => r = q
      /\ HoldPCs \subseteq LeaderPCs /\ "refresh" \in LeaderPCs
      /\ "revoke" \in LeaderPCs /\ "revoke" \notin HoldPCs
  <2>1. \A r \in Requests : Home[r] \in Procs
    BY Zenon, AuthSessionAssumption
  <2>2. \A r \in Requests, q \in Requests : Home[r] = Home[q]
    BY Zenon, <2>1 DEF OneProcess
  <2>3. \A r \in Requests, q \in Requests : pc[r] \in LeaderPCs /\ pc[q] \in LeaderPCs => r = q
    <3> SUFFICES ASSUME NEW r \in Requests, NEW q \in Requests,
                        pc[r] \in LeaderPCs, pc[q] \in LeaderPCs
                 PROVE  r = q
      OBVIOUS
    <3>1. flight[Home[r]].leader = r /\ flight[Home[q]].leader = q
      BY Zenon DEF SingleFlight
    <3>2. Home[r] = Home[q]
      BY Zenon, <2>2
    <3> QED BY <3>1, <3>2
  <2>4. /\ HoldPCs \subseteq LeaderPCs /\ "refresh" \in LeaderPCs
        /\ "revoke" \in LeaderPCs /\ "revoke" \notin HoldPCs
    BY DEF HoldPCs, LeaderPCs
  <2> QED BY Zenon, <2>3, <2>4
<1>1. /\ lost => lost'
      /\ remote'.current = remote.current \/ lost' \/ \E r \in Requests : Rotates(r)
  BY Zenon, RotationStep
<1>2. \A q \in Requests : HoldStep(q)
  BY Zenon, HoldSteps
<1>3. ASSUME NEW q \in Requests, call[q].st = "ok" PROVE pc[q] \in HoldPCs
  BY <1>3 DEF LostInv, Holds
<1>4. RefusedOnlyAfterLostRotation'
  <2> SUFFICES ASSUME row'.revoked = "remote", remote'.alive, ~lost'
               PROVE  FALSE
    BY Zenon DEF RefusedOnlyAfterLostRotation
  <2>1. remote.alive /\ ~lost
    BY Zenon, <1>1, RemoteStep DEF TypeOK
  <2>2. row.revoked = "no"
    <3>1. row.revoked # "no" => row' = row
      BY Zenon, RowStep, WritesOnlyLive
    <3> QED BY Zenon, <2>1, <3>1 DEF LostInv, RefusedOnlyAfterLostRotation
  <2>3. PICK r \in Requests : /\ pc[r] = "revoke" /\ why[r] = "remote"
                              /\ row.refresh_token = work[r].refresh_token
    BY Zenon, <2>2, RemoteRevokes
  <2>4. remote.current # row.refresh_token
    BY Zenon, <2>1, <2>3 DEF TokenInv, RevokePCs, Refused
  <2>5. PICK q \in Requests : call[q].st = "ok"
    BY Zenon, <2>1, <2>4 DEF LostInv
  <2>6. q = r
    BY Zenon, <1>0, <1>3, <2>3, <2>5
  <2> QED BY Zenon, <1>0, <1>3, <2>3, <2>5, <2>6
<1>5. ASSUME ~lost'
      PROVE  remote'.current = row'.refresh_token \/ \E q \in Requests : call'[q].st = "ok"
  <2>0. ~lost
    BY Zenon, <1>1, <1>5
  <2>1. ASSUME NEW r \in Requests, Rotates(r) PROVE \E q \in Requests : call'[q].st = "ok"
    BY Zenon, <2>1 DEF Rotates
  <2>2. ASSUME NEW r \in Requests, PersistsRow(r) PROVE row'.refresh_token = remote.current
    <3>1. row'.refresh_token = call[r].token
      BY Zenon, <2>2 DEF PersistsRow, persist_pending_Update
    <3>2. call[r].st = "ok"
      BY Zenon, <2>2 DEF PersistsRow, LostInv, Holds
    <3> QED BY Zenon, <2>0, <3>1, <3>2 DEF LostInv
  <2>3. CASE remote'.current = remote.current /\ remote.current = row.refresh_token
    BY Zenon, <2>2, <2>3, RowTokenStep
  <2>4. ASSUME NEW q \in Requests, call[q].st = "ok", remote'.current = remote.current
        PROVE  remote'.current = row'.refresh_token \/ call'[q].st = "ok"
    <3>1. Holds(q)
      BY Zenon DEF LostInv
    <3> QED BY Zenon, <1>2, <1>5, <2>2, <2>4, <3>1 DEF HoldStep
  <2> QED BY Zenon, <1>1, <1>5, <2>0, <2>1, <2>3, <2>4 DEF LostInv
<1>6. ASSUME NEW q \in Requests, call'[q].st = "ok", ~lost'
      PROVE  call'[q].token = remote'.current
  <2>0. ~lost
    BY Zenon, <1>1, <1>6
  <2>1. CASE Rotates(q)
    BY Zenon, <2>1 DEF Rotates
  <2>2. CASE call'[q] = call[q]
    <3>1. call[q].token = remote.current /\ pc[q] \in LeaderPCs
      BY Zenon, <1>0, <1>3, <1>6, <2>0, <2>2 DEF LostInv
    <3>2. ASSUME NEW r \in Requests, Rotates(r) PROVE FALSE
      <4>1. pc[r] \in LeaderPCs /\ call[r].st = "sent"
        BY Zenon, <1>0, <3>2 DEF Rotates
      <4>2. q = r
        BY Zenon, <1>0, <3>1, <4>1
      <4> QED BY <1>6, <2>2, <4>1, <4>2
    <3> QED BY Zenon, <1>1, <1>6, <2>2, <3>1, <3>2
  <2> QED BY Zenon, <1>2, <1>6, <2>1, <2>2 DEF HoldStep
<1>7. \A q \in Requests : Holds(q)'
  BY Zenon, <1>2 DEF HoldStep, LostInv
<1> QED BY Zenon, <1>4, <1>5, <1>6, <1>7 DEF LostInv

\* With one process, auth-mini refuses a live session's token, and the session is revoked
\* for it, only after the answer of an earlier rotation was thrown away: requests of the
\* process never spoil each other's refresh, however many of them meet in auth_decision.
THEOREM RefusalMeansLoss ==
    ASSUME OneProcess
    PROVE  Spec => []RefusedOnlyAfterLostRotation
<1>1. Init => TokenInv /\ LostInv
  <2> SUFFICES ASSUME Init PROVE TokenInv /\ LostInv
    OBVIOUS
  <2>1. /\ FirstRow.refresh_token = 0 /\ FirstRow.revoked = "no"
        /\ NoCall.token = 0 /\ NoCall.st = "none"
    BY Zenon DEF FirstRow, create_session, NoCall
  <2>2. TokenInv
    BY SMTT(60), <2>1 DEF Init, TokenInv, RemoteRevokeJustified, RevokePCs
  <2>3. LostInv
    BY SMTT(60), <2>1 DEF Init, LostInv, Holds, HoldPCs, RefusedOnlyAfterLostRotation
  <2> QED BY Zenon, <2>2, <2>3
<1>2. TypeOK /\ TypeOK' /\ SingleFlight /\ TokenInv /\ LostInv /\ [Next]_vars => TokenInv' /\ LostInv'
  BY Zenon, TokenInvNext, LostInvNext
<1>3. LostInv => RefusedOnlyAfterLostRotation
  BY Zenon DEF LostInv
<1> QED BY <1>1, <1>2, <1>3, TypeCorrect, OneFlight, PTL DEF Spec
=============================================================================
