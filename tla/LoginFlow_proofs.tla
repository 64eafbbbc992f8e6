--------------------------- MODULE LoginFlow_proofs ---------------------------
(***************************************************************************)
(* Proofs about logins and callbacks (LoginFlow), the session cookie       *)
(* (SessionCookie) and the key cache (Jwks), for any number of requests,   *)
(* login states, sessions, browser tabs, keys and calls, any lifetimes and *)
(* any clock.                                                              *)
(***************************************************************************)
EXTENDS LoginFlow, SessionCookie, Jwks, TLAPS

-----------------------------------------------------------------------------
(* LoginFlow.  What makes a login state lead to one session is the         *)
(* snapshot of consume_login_state: a request that has selected a row      *)
(* either finds it as it was, or its transaction is stale.  So a request   *)
(* past the UPDATE owns its login state, until it has inserted the session. *)

\* Past the UPDATE of consume_login_state, before the INSERT of create_session.
Used == {"consumed", "verify", "create", "create_insert"}

\* Past the SELECT, on the way to a session.
Picked == {"selected", "created", "answer_session"} \cup Used

Ended == {"consumed", "deleted"}

\* What holds of a request alone: its login state exists; if it has selected the row, its
\* snapshot is the row or is stale; past the UPDATE the row is used up and has no session;
\* it is on the way to a session only if the callback was in time.
RequestOK(r) ==
    /\ pc[r] \in {"login_answer", "callback", "selected"} \cup Used =>
          cookie[r] \in LoginStates /\ state[cookie[r]].st # "absent"
    /\ pc[r] = "selected" => stale[r] \/ state[cookie[r]].st = "fresh"
    /\ pc[r] \in Used => state[cookie[r]].st \in Ended /\ sessions[cookie[r]] = 0
    /\ pc[r] \in {"verify", "create", "create_insert"} => body[r] = cookie[r]
    /\ pc[r] \in Picked => ~late[r]
    /\ pc[r] = "callback" /\ late[r] =>
          state[cookie[r]].st \in Ended \/ state[cookie[r]].expires_at <= since[r]

RequestsOK == \A r \in Requests : RequestOK(r)

JarKnown == jar # None => state[jar].st # "absent"

Owned ==
    \A r, q \in Requests :
        pc[r] \in Used /\ pc[q] \in Used /\ r # q => cookie[r] # cookie[q]

SessionsCounted ==
    \A s \in LoginStates : sessions[s] <= 1 /\ (sessions[s] > 0 => state[s].st \in Ended)

IInv == TypeOK /\ JarKnown /\ RequestsOK /\ Owned /\ SessionsCounted

\* What a step may do to a login state.
StatesKept ==
    \A s \in LoginStates :
        /\ state[s].st # "absent" => state'[s].expires_at = state[s].expires_at
        /\ state[s].st = "fresh" => \/ state'[s].st \in {"fresh", "consumed"}
                                    \/ state[s].expires_at <= now
        /\ state[s].st = "consumed" => state'[s].st \in {"consumed", "deleted"}
        /\ state[s].st = "deleted" => state'[s].st = "deleted"

-----------------------------------------------------------------------------
LEMMA InitIInv ==
    Init => IInv
<1> SUFFICES ASSUME Init PROVE IInv
    OBVIOUS
<1>1. TypeOK
    BY Zenon, LoginFlowAssumption DEF Init, TypeOK, PCs, NoRow
<1> QED BY <1>1 DEF Init, IInv, JarKnown, RequestsOK, RequestOK, Owned, SessionsCounted, Used, Picked, NoRow

LEMMA NextType ==
    TypeOK /\ [Next]_vars => TypeOK'
<1> SUFFICES ASSUME TypeOK, [Next]_vars PROVE TypeOK'
    OBVIOUS
<1> USE LoginFlowAssumption
<1>0. ASSUME NEW r \in Requests, NEW n \in PCs, Goto(r, n)
      PROVE  pc' \in [Requests -> PCs] /\ since' \in [Requests -> Nat]
    BY Zenon, <1>0 DEF Goto, TypeOK
<1>a. ASSUME NEW r, Wrote(r)
      PROVE  stale' \in [Requests -> BOOLEAN]
    BY Zenon, <1>a DEF Wrote
<1>1. ASSUME NEW r \in Requests, Login(r) PROVE TypeOK'
    BY Zenon, <1>0, <1>1 DEF Login, TypeOK, PCs
<1>2. ASSUME NEW r \in Requests, Prune(r) PROVE TypeOK'
    <2>1. state' \in [LoginStates -> [st : {"absent", "fresh", "consumed", "deleted"},
                                      expires_at : Nat]]
        BY <1>2 DEF Prune, TypeOK
    <2>2. stale' \in [Requests -> BOOLEAN]
        BY Zenon, <1>2, <1>a DEF Prune, TypeOK
    <2>3. pc' \in [Requests -> PCs] /\ since' \in [Requests -> Nat]
        BY Zenon, <1>2, <1>0 DEF Prune, PCs
    <2> QED BY Zenon, <1>2, <2>1, <2>2, <2>3 DEF Prune, TypeOK
<1>3. ASSUME NEW r \in Requests, LoginInsert(r) PROVE TypeOK'
    <2>1. CASE Goto(r, "answer_error") /\ UNCHANGED <<state, cookie, stale>>
        BY Zenon, <1>3, <2>1, <1>0 DEF LoginInsert, TypeOK, PCs
    <2>2. ASSUME NEW s \in LoginStates, NEW t \in Clock(r),
                 create_login_state(s, t), cookie' = [cookie EXCEPT ![r] = s],
                 Wrote(r), Goto(r, "login_answer")
          PROVE  TypeOK'
        <3>1. t \in Nat
            BY DEF Clock, TypeOK
        <3>2. state' \in [LoginStates -> [st : {"absent", "fresh", "consumed", "deleted"},
                                          expires_at : Nat]]
            BY <2>2, <3>1 DEF create_login_state, TypeOK
        <3>3. pc' \in [Requests -> PCs] /\ since' \in [Requests -> Nat]
            BY Zenon, <2>2, <1>0 DEF PCs
        <3>4. stale' \in [Requests -> BOOLEAN]
            BY Zenon, <2>2, <1>a
        <3> QED BY Zenon, <1>3, <2>2, <3>2, <3>3, <3>4 DEF LoginInsert, TypeOK
    <2> QED BY Zenon, <1>3, <2>1, <2>2 DEF LoginInsert
<1>4. ASSUME NEW r \in Requests, Callback(r) PROVE TypeOK'
    <2>1. pc' \in [Requests -> PCs] /\ since' \in [Requests -> Nat]
        BY Zenon, <1>4, <1>0 DEF Callback, PCs
    <2>2. PICK b \in LoginStates :
              /\ body' = [body EXCEPT ![r] = b] /\ cookie' = [cookie EXCEPT ![r] = jar]
              /\ late' = [late EXCEPT ![r] = ~Usable(jar)]
        BY Zenon, <1>4 DEF Callback
    <2>3. late' \in [Requests -> BOOLEAN]
        BY Zenon, <2>2 DEF TypeOK, Usable
    <2> QED BY Zenon, <1>4, <2>1, <2>2, <2>3 DEF Callback, TypeOK
<1>5. ASSUME NEW r \in Requests, Select(r) PROVE TypeOK'
    <2>1. pc' \in [Requests -> PCs] /\ since' \in [Requests -> Nat]
        BY Zenon, <1>5, <1>0 DEF Select, PCs
    <2> QED BY Zenon, <1>5, <2>1 DEF Select, TypeOK
<1>6. ASSUME NEW r \in Requests, Consume(r) PROVE TypeOK'
    <2>1. pc' \in [Requests -> PCs] /\ since' \in [Requests -> Nat]
        BY Zenon, <1>6, <1>0 DEF Consume, PCs
    <2>2. stale' \in [Requests -> BOOLEAN]
        BY Zenon, <1>6, <1>a DEF Consume, TypeOK
    <2>3. state' \in [LoginStates -> [st : {"absent", "fresh", "consumed", "deleted"},
                                      expires_at : Nat]]
        BY <1>6 DEF Consume, TypeOK
    <2> QED BY Zenon, <1>6, <2>1, <2>2, <2>3 DEF Consume, TypeOK
<1>7. ASSUME NEW r \in Requests, Consumed(r) \/ Verify(r) \/ Created(r) PROVE TypeOK'
    <2>1. pc' \in [Requests -> PCs] /\ since' \in [Requests -> Nat]
        BY Zenon, <1>7, <1>0 DEF Consumed, Verify, Created, PCs
    <2> QED BY Zenon, <1>7, <2>1 DEF Consumed, Verify, Created, TypeOK
<1>8. ASSUME NEW r \in Requests, InsertSession(r) PROVE TypeOK'
    <2>1. pc' \in [Requests -> PCs] /\ since' \in [Requests -> Nat]
        BY Zenon, <1>8, <1>0 DEF InsertSession, PCs
    <2>2. stale' \in [Requests -> BOOLEAN]
        BY Zenon, <1>8, <1>a DEF InsertSession, TypeOK
    <2>3. sessions' \in [LoginStates -> Nat]
        BY <1>8 DEF InsertSession, TypeOK
    <2> QED BY Zenon, <1>8, <2>1, <2>2, <2>3 DEF InsertSession, TypeOK
<1>9. ASSUME NEW r \in Requests, Answer(r) \/ Crash(r) PROVE TypeOK'
    <2>1. jar' \in LoginStates \cup {None}
        BY Zenon, <1>9 DEF Answer, Crash, AnswerPCs, TypeOK
    <2>2. Rest(r) /\ UNCHANGED <<now, state, sessions>>
        BY Zenon, <1>9 DEF Answer, Crash
    <2> QED BY Zenon, <2>1, <2>2 DEF Rest, TypeOK, PCs
<1>10. CASE OtherWrite
    BY Zenon, <1>10, <1>a DEF OtherWrite, TypeOK
<1>11. CASE Tick
    BY <1>11 DEF Tick, TypeOK
<1>12. CASE UNCHANGED vars
    BY Zenon, <1>12 DEF vars, TypeOK
<1> QED BY Zenon, <1>1, <1>2, <1>3, <1>4, <1>5, <1>6, <1>7, <1>8, <1>9, <1>10, <1>11, <1>12 DEF Next

-----------------------------------------------------------------------------
\* No step forgets a login state, and none brings a used one back.
LEMMA StatesStep ==
    ASSUME IInv, [Next]_vars
    PROVE  StatesKept /\ \A s \in LoginStates : state[s].st # "absent" => state'[s].st # "absent"
<1> USE DEF IInv
<1>0. ASSUME state' = state
      PROVE  StatesKept /\ \A s \in LoginStates : state[s].st # "absent" => state'[s].st # "absent"
    BY Zenon, <1>0 DEF StatesKept, TypeOK
<1>1. ASSUME NEW r \in Requests, Prune(r), state' # state
      PROVE  StatesKept /\ \A s \in LoginStates : state[s].st # "absent" => state'[s].st # "absent"
    <2>1. PICK t \in Clock(r) :
              state' = [s \in LoginStates |-> IF prune(state[s], t)
                            THEN [state[s] EXCEPT !.st = "deleted"] ELSE state[s]]
        BY Zenon, <1>1 DEF Prune
    <2>2. t \in Nat /\ t <= now
        BY DEF Clock, TypeOK
    <2>3. ASSUME NEW s \in LoginStates
          PROVE  /\ state'[s].expires_at = state[s].expires_at
                 /\ \/ state'[s].st = state[s].st
                    \/ /\ state'[s].st = "deleted"
                       /\ \/ state[s].st = "consumed"
                          \/ state[s].st = "fresh" /\ state[s].expires_at <= t
        BY Zenon, <2>1 DEF prune, TypeOK
    <2>4. \A s \in LoginStates : state[s].expires_at \in Nat
        BY Zenon DEF TypeOK
    <2>5. \A s \in LoginStates : state[s].expires_at <= t => state[s].expires_at <= now
        BY <2>2, <2>4 DEF TypeOK
    <2> QED BY Zenon, <2>3, <2>5 DEF StatesKept
<1>2. ASSUME NEW r \in Requests, LoginInsert(r), state' # state
      PROVE  StatesKept /\ \A s \in LoginStates : state[s].st # "absent" => state'[s].st # "absent"
    BY Zenon, <1>2 DEF LoginInsert, create_login_state, StatesKept, TypeOK
<1>3. ASSUME NEW r \in Requests, Consume(r), state' # state
      PROVE  StatesKept /\ \A s \in LoginStates : state[s].st # "absent" => state'[s].st # "absent"
    <2>1. pc[r] = "selected" /\ ~stale[r] /\ state' = [state EXCEPT ![cookie[r]].st = "consumed"]
        BY Zenon, <1>3 DEF Consume
    <2>2. cookie[r] \in LoginStates /\ state[cookie[r]].st = "fresh"
        BY Zenon, <2>1 DEF RequestsOK, RequestOK
    <2> QED BY Zenon, <2>1, <2>2 DEF StatesKept, TypeOK
<1>4. ASSUME NEW r \in Requests,
             \/ Login(r) \/ Callback(r) \/ Select(r) \/ Consumed(r) \/ Verify(r)
             \/ InsertSession(r) \/ Created(r) \/ Answer(r) \/ Crash(r)
      PROVE  state' = state
    BY Zenon, <1>4 DEF Login, Callback, Select, Consumed, Verify, InsertSession, Created, Answer, Crash
<1>5. OtherWrite \/ Tick \/ UNCHANGED vars => state' = state
    BY Zenon DEF OtherWrite, Tick, vars
<1> QED BY Zenon, <1>0, <1>1, <1>2, <1>3, <1>4, <1>5 DEF Next

\* A request that takes no part in a step keeps its invariant, if the step leaves what it
\* has selected or makes its snapshot stale, and counts no session to its login state.
LEMMA OtherRequest ==
    ASSUME IInv, [Next]_vars, NEW q \in Requests,
           pc'[q] = pc[q], cookie'[q] = cookie[q], body'[q] = body[q],
           since'[q] = since[q], late'[q] = late[q],
           pc[q] = "selected" => stale'[q] \/ (~stale[q] /\ state' = state),
           pc[q] \in Used => sessions'[cookie[q]] = sessions[cookie[q]]
    PROVE  RequestOK(q)'
<1>1. RequestOK(q)
    BY Zenon DEF IInv, RequestsOK
<1>2. cookie[q] \in LoginStates =>
          /\ state[cookie[q]].st # "absent" =>
                state'[cookie[q]].st # "absent"
                    /\ state'[cookie[q]].expires_at = state[cookie[q]].expires_at
          /\ state[cookie[q]].st \in Ended => state'[cookie[q]].st \in Ended
    BY Zenon, StatesStep DEF StatesKept, Ended
<1> QED BY Zenon, <1>1, <1>2 DEF RequestOK, Used, Picked

\* The step of one request leaves the variables of the others alone.
Alone(r) ==
    \A q \in Requests \ {r} :
        /\ pc'[q] = pc[q] /\ cookie'[q] = cookie[q] /\ body'[q] = body[q]
        /\ since'[q] = since[q] /\ late'[q] = late[q]
        /\ pc[q] = "selected" => stale'[q] \/ (~stale[q] /\ state' = state)

LEMMA AloneStep ==
    ASSUME IInv, NEW r \in Requests,
           \/ Login(r) \/ Prune(r) \/ LoginInsert(r) \/ Callback(r) \/ Select(r) \/ Consume(r)
           \/ Consumed(r) \/ Verify(r) \/ InsertSession(r) \/ Created(r) \/ Answer(r) \/ Crash(r)
    PROVE  Alone(r)
<1> USE DEF IInv
<1>1. \A q \in Requests \ {r} : /\ pc'[q] = pc[q] /\ cookie'[q] = cookie[q] /\ body'[q] = body[q]
                                /\ since'[q] = since[q] /\ late'[q] = late[q]
    BY Zenon DEF TypeOK, Goto, Rest, Login, Prune, LoginInsert, Callback, Select, Consume, Consumed,
           Verify, InsertSession, Created, Answer, Crash
<1>2. Wrote(r) \/ (state' = state /\ \A q \in Requests \ {r} : stale'[q] = stale[q])
    BY Zenon DEF TypeOK, Rest, Login, Prune, LoginInsert, Callback, Select, Consume, Consumed,
           Verify, InsertSession, Created, Answer, Crash
<1>3. ASSUME NEW q \in Requests \ {r}, pc[q] = "selected"
      PROVE  stale'[q] \/ (~stale[q] /\ state' = state)
    <2>1. CASE Wrote(r)
        BY Zenon, <1>3, <2>1 DEF Wrote
    <2>2. CASE state' = state /\ stale'[q] = stale[q]
        BY Zenon, <2>2
    <2> QED BY Zenon, <1>2, <2>1, <2>2
<1> QED BY Zenon, <1>1, <1>3 DEF Alone

LEMMA OneRequest ==
    ASSUME IInv, [Next]_vars, NEW r \in Requests, Alone(r), RequestOK(r)',
           sessions' = sessions,
           jar' # None => state'[jar'].st # "absent",
           pc'[r] \in Used => pc[r] \in Used /\ cookie'[r] = cookie[r]
    PROVE  IInv'
<1>1. TypeOK'
    BY Zenon, NextType DEF IInv
<1>2. RequestsOK'
    <2>1. ASSUME NEW q \in Requests \ {r} PROVE RequestOK(q)'
        BY Zenon, OtherRequest DEF Alone
    <2> QED BY Zenon, <2>1 DEF RequestsOK
<1>3. Owned'
    BY DEF IInv, Owned, Alone
<1>4. SessionsCounted'
    BY Zenon, StatesStep DEF IInv, SessionsCounted, StatesKept, Ended
<1> QED BY Zenon, <1>1, <1>2, <1>3, <1>4 DEF IInv, JarKnown

\* The steps that leave the jar and count no session: what remains is the request itself.
LEMMA SameJar ==
    ASSUME IInv, [Next]_vars, jar' = jar
    PROVE  jar' # None => state'[jar'].st # "absent"
BY Zenon, StatesStep DEF IInv, TypeOK, JarKnown

LEMMA NextIInv ==
    IInv /\ [Next]_vars => IInv'
<1> SUFFICES ASSUME IInv, [Next]_vars PROVE IInv'
    OBVIOUS
<1>0. TypeOK /\ TypeOK' /\ StatesKept
      /\ \A s \in LoginStates : state[s].st # "absent" => state'[s].st # "absent"
    BY Zenon, NextType, StatesStep DEF IInv
<1>1. ASSUME NEW r \in Requests, Login(r) PROVE IInv'
    <2>1. RequestOK(r)'
        BY Zenon, <1>1, <1>0 DEF Login, Goto, TypeOK, RequestOK, Used, Picked
    <2> QED BY Zenon, <1>1, <1>0, <2>1, AloneStep, OneRequest, SameJar DEF Login, Goto, TypeOK, Used
<1>2. ASSUME NEW r \in Requests, Prune(r) PROVE IInv'
    <2>1. /\ pc[r] = "login" => pc'[r] \in {"login_insert", "answer_error"}
          /\ pc[r] = "create" => pc'[r] \in {"create_insert", "answer_clear"}
          /\ pc[r] \in {"login", "create"}
          /\ cookie' = cookie /\ body' = body /\ late' = late /\ sessions' = sessions /\ jar' = jar
        BY Zenon, <1>2, <1>0 DEF Prune, Goto, TypeOK
    <2>2. RequestOK(r)
        BY Zenon DEF IInv, RequestsOK
    <2>3. pc[r] = "create" => /\ cookie[r] \in LoginStates /\ state'[cookie[r]].st \in Ended
                              /\ state'[cookie[r]].st # "absent"
        BY Zenon, <2>2, <1>0 DEF RequestOK, StatesKept, Used, Ended
    <2>4. RequestOK(r)'
        BY Zenon, <2>1, <2>2, <2>3 DEF RequestOK, Used, Picked
    <2> QED BY Zenon, <1>2, <2>1, <2>4, AloneStep, OneRequest, SameJar DEF Used
<1>3. ASSUME NEW r \in Requests, LoginInsert(r) PROVE IInv'
    <2>1. /\ \/ /\ pc'[r] = "login_answer" /\ cookie'[r] \in LoginStates
                /\ state'[cookie'[r]].st = "fresh"
             \/ pc'[r] = "answer_error"
          /\ sessions' = sessions /\ jar' = jar
        BY <1>3, <1>0 DEF LoginInsert, create_login_state, Goto, TypeOK
    <2>2. RequestOK(r)'
        BY Zenon, <2>1 DEF RequestOK, Used, Picked
    <2> QED BY Zenon, <1>3, <2>1, <2>2, AloneStep, OneRequest, SameJar DEF Used
<1>4. ASSUME NEW r \in Requests, Callback(r) PROVE IInv'
    <2>1. /\ \/ pc'[r] = "callback" /\ jar # None /\ since'[r] = now
             \/ pc'[r] = "answer_clear"
          /\ cookie'[r] = jar /\ late'[r] = ~Usable(jar)
          /\ sessions' = sessions /\ jar' = jar /\ state' = state
        BY <1>4, <1>0 DEF Callback, Goto, TypeOK, ClockPCs
    <2>2. jar # None => jar \in LoginStates /\ state[jar].st # "absent"
        BY Zenon, <1>0 DEF IInv, JarKnown, TypeOK
    <2>3. jar # None /\ ~Usable(jar) => state[jar].st \in Ended \/ state[jar].expires_at <= now
        BY <2>2, <1>0 DEF Usable, TypeOK, Ended
    <2>4. RequestOK(r)'
        BY Zenon, <2>1, <2>2, <2>3 DEF RequestOK, Used, Picked
    <2> QED BY Zenon, <1>4, <2>1, <2>4, AloneStep, OneRequest, SameJar DEF Used
<1>5. ASSUME NEW r \in Requests, Select(r) PROVE IInv'
    <2>1. PICK t \in Clock(r) \cup {0} :
             /\ \/ t \in Clock(r) /\ pc'[r] = "selected" /\ consume_Matches(state[cookie[r]], t)
                \/ pc'[r] \in {"answer_clear", "answer_error"}
             /\ pc[r] = "callback" /\ UNCHANGED <<state, cookie, body, late, sessions, jar>>
        BY Zenon, <1>5, <1>0 DEF Select, Goto, TypeOK
    <2>2. RequestOK(r) /\ cookie[r] \in LoginStates /\ state[cookie[r]].st # "absent"
        BY Zenon, <2>1 DEF IInv, RequestsOK, RequestOK
    <2>3. pc'[r] = "selected" => ~late[r] /\ state[cookie[r]].st = "fresh"
        BY <2>1, <2>2, <1>0 DEF consume_Matches, RequestOK, TypeOK, Clock, Ended
    <2>4. RequestOK(r)'
        BY Zenon, <2>1, <2>2, <2>3 DEF RequestOK, Used, Picked
    <2> QED BY Zenon, <1>5, <2>1, <2>4, AloneStep, OneRequest, SameJar DEF Used
<1>6. ASSUME NEW r \in Requests, Consume(r) PROVE IInv'
    <2>1. RequestOK(r) /\ pc[r] = "selected"
          /\ UNCHANGED <<cookie, body, late, sessions, jar>>
        BY Zenon, <1>6 DEF IInv, RequestsOK, Consume
    <2>2. CASE pc'[r] = "answer_error"
        <3>1. RequestOK(r)'
            BY Zenon, <2>2 DEF RequestOK, Used, Picked
        <3> QED BY Zenon, <1>6, <2>1, <2>2, <3>1, AloneStep, OneRequest, SameJar DEF Used
    <2>3. CASE /\ ~stale[r] /\ pc'[r] = "consumed"
               /\ state' = [state EXCEPT ![cookie[r]].st = "consumed"]
        <3>1. cookie[r] \in LoginStates /\ state[cookie[r]].st = "fresh" /\ ~late[r]
            BY Zenon, <2>1, <2>3 DEF RequestOK, Picked
        <3>2. state'[cookie[r]].st = "consumed"
            BY <2>3, <3>1, <1>0 DEF TypeOK
        <3>3. sessions[cookie[r]] = 0
            BY SMTT(60), <3>1, <1>0 DEF IInv, SessionsCounted, TypeOK, Ended
        <3>4. RequestOK(r)'
            BY Zenon, <2>1, <2>3, <3>1, <3>2, <3>3 DEF RequestOK, Used, Picked, Ended
        <3>5. ASSUME NEW q \in Requests \ {r}, pc[q] \in Used PROVE cookie[q] # cookie[r]
            BY Zenon, <3>1, <3>5 DEF IInv, RequestsOK, RequestOK, Ended
        <3>6. Alone(r)
            BY Zenon, <1>6, AloneStep
        <3>7. RequestsOK'
            <4>1. ASSUME NEW q \in Requests \ {r} PROVE RequestOK(q)'
                BY Zenon, <2>1, <3>6, OtherRequest DEF Alone
            <4> QED BY Zenon, <3>4, <4>1 DEF RequestsOK
        <3>8. Owned'
            BY <2>1, <2>3, <3>5, <3>6 DEF IInv, Owned, Alone
        <3>9. SessionsCounted'
            BY Zenon, <2>1, <1>0 DEF IInv, SessionsCounted, StatesKept, Ended
        <3>10. JarKnown'
            BY Zenon, <2>1, SameJar DEF JarKnown
        <3> QED BY Zenon, <1>0, <3>7, <3>8, <3>9, <3>10 DEF IInv
    <2> QED BY Zenon, <1>6, <1>0, <2>2, <2>3 DEF Consume, Goto, TypeOK
<1>7. ASSUME NEW r \in Requests, Consumed(r) \/ Verify(r) \/ Created(r) PROVE IInv'
    <2>1. /\ \/ pc[r] = "consumed" /\ pc'[r] = "verify" /\ body[r] = cookie[r]
             \/ pc[r] = "verify" /\ pc'[r] = "create"
             \/ pc[r] = "created" /\ pc'[r] = "answer_session"
             \/ pc'[r] = "answer_clear"
          /\ UNCHANGED <<state, cookie, body, late, sessions, jar>>
        BY Zenon, <1>7, <1>0 DEF Consumed, Verify, Created, Goto, TypeOK, matches_body
    <2>2. RequestOK(r)
        BY DEF IInv, RequestsOK
    <2>3. RequestOK(r)'
        BY Zenon, <2>1, <2>2 DEF RequestOK, Used, Picked
    <2> QED BY Zenon, <1>7, <2>1, <2>3, AloneStep, OneRequest, SameJar DEF Used
<1>8. ASSUME NEW r \in Requests, InsertSession(r) PROVE IInv'
    <2>1. /\ RequestOK(r) /\ pc[r] = "create_insert"
          /\ UNCHANGED <<state, cookie, body, late, jar>>
        BY Zenon, <1>8 DEF IInv, RequestsOK, InsertSession
    <2>2. CASE pc'[r] = "answer_clear" /\ sessions' = sessions
        <3>1. RequestOK(r)'
            BY Zenon, <2>2 DEF RequestOK, Used, Picked
        <3> QED BY Zenon, <1>8, <2>1, <2>2, <3>1, AloneStep, OneRequest, SameJar DEF Used
    <2>3. CASE pc'[r] = "created" /\ sessions' = [sessions EXCEPT ![body[r]] = @ + 1]
        <3>1. /\ cookie[r] \in LoginStates /\ body[r] = cookie[r] /\ sessions[cookie[r]] = 0
              /\ state[cookie[r]].st \in Ended /\ ~late[r]
            BY Zenon, <2>1 DEF RequestOK, Used, Picked
        <3>2. /\ sessions'[cookie[r]] = 1
              /\ \A s \in LoginStates \ {cookie[r]} : sessions'[s] = sessions[s]
            BY SMTT(60), <2>3, <3>1, <1>0 DEF TypeOK
        <3>3. RequestOK(r)'
            BY Zenon, <2>1, <2>3, <3>1 DEF RequestOK, Used, Picked
        <3>4. Alone(r)
            BY Zenon, <1>8, AloneStep
        <3>5. ASSUME NEW q \in Requests \ {r}, pc[q] \in Used
              PROVE  sessions'[cookie[q]] = sessions[cookie[q]]
            <4>1. cookie[q] # cookie[r] /\ cookie[q] \in LoginStates
                BY Zenon, <2>1, <3>5 DEF IInv, Owned, RequestsOK, RequestOK, Used
            <4> QED BY Zenon, <3>2, <4>1
        <3>6. RequestsOK'
            <4>1. ASSUME NEW q \in Requests \ {r} PROVE RequestOK(q)'
                BY Zenon, <3>4, <3>5, OtherRequest DEF Alone
            <4> QED BY <3>3, <4>1 DEF RequestsOK
        <3>7. Owned'
            BY Zenon, <2>1, <2>3, <3>4 DEF IInv, Owned, Alone, Used
        <3>8. SessionsCounted'
            BY <2>1, <3>1, <3>2, <1>0 DEF IInv, SessionsCounted
        <3>9. JarKnown'
            BY Zenon, <2>1, SameJar DEF JarKnown
        <3> QED BY <1>0, <3>6, <3>7, <3>8, <3>9 DEF IInv
    <2> QED BY Zenon, <1>8, <1>0, <2>2, <2>3 DEF InsertSession, Goto, TypeOK
<1>9. ASSUME NEW r \in Requests, Answer(r) \/ Crash(r) PROVE IInv'
    <2>1. pc'[r] = "idle" /\ UNCHANGED <<state, sessions>>
        BY Zenon, <1>9, <1>0 DEF Answer, Crash, Rest, TypeOK
    <2>2. RequestOK(r)'
        BY Zenon, <2>1 DEF RequestOK, Used, Picked
    <2>3. jar' = jar \/ jar' = None \/ (pc[r] = "login_answer" /\ jar' = cookie[r])
        BY Zenon, <1>9 DEF Answer, Crash, AnswerPCs
    <2>4. jar' # None => state'[jar'].st # "absent"
        BY Zenon, <2>1, <2>3 DEF IInv, JarKnown, RequestsOK, RequestOK
    <2> QED BY Zenon, <1>9, <2>1, <2>2, <2>4, AloneStep, OneRequest DEF Used
<1>10. CASE OtherWrite
    <2>1. Wrote(None) /\ UNCHANGED <<now, state, jar, pc, cookie, body, since, late, sessions>>
        BY Zenon, <1>10 DEF OtherWrite
    <2>2. \A q \in Requests : pc[q] = "selected" => stale'[q]
        BY Zenon, <2>1, LoginFlowAssumption DEF Wrote
    <2>3. ASSUME NEW q \in Requests PROVE RequestOK(q)'
        BY Zenon, <2>1, <2>2, OtherRequest
    <2> QED BY Zenon, <1>0, <2>1, <2>3 DEF IInv, JarKnown, RequestsOK, Owned, SessionsCounted
<1>11. CASE Tick \/ UNCHANGED vars
    <2>1. UNCHANGED <<state, jar, pc, cookie, body, since, stale, late, sessions>>
        BY Zenon, <1>11 DEF Tick, vars
    <2> QED BY Zenon, <1>0, <2>1 DEF IInv, JarKnown, RequestsOK, RequestOK, Owned, SessionsCounted
<1> QED BY Zenon, <1>1, <1>2, <1>3, <1>4, <1>5, <1>6, <1>7, <1>8, <1>9, <1>10, <1>11 DEF Next

LEMMA Invariance ==
    Spec => []IInv
BY InitIInv, NextIInv, PTL DEF Spec

\* Any number of tabs, repeated callbacks and crashes get one session out of a login state,
\* and none out of one that was used up or expired when the callback came
\* (consume_login_state, handle_callback_session, create_session).
THEOREM OneSession ==
    Spec => []OneSessionPerState
<1>1. IInv => OneSessionPerState
    <2> SUFFICES ASSUME IInv PROVE OneSessionPerState
        OBVIOUS
    <2>1. LateCallbackRefused
        BY Zenon DEF IInv, RequestsOK, RequestOK, LateCallbackRefused, Picked
    <2> QED BY Zenon, <2>1 DEF IInv, OneSessionPerState, SessionsCounted, Ended
<1> QED BY <1>1, Invariance, PTL

\* No step of any request brings a login state back, and pruning takes only those that are
\* used up or expired (Store::prune, create_login_state, consume_login_state).
THEOREM LoginStatesOnlyEnd ==
    Spec => StatesOnlyEnd
<1>1. IInv /\ [Next]_vars => [StatesKept]_vars
    BY Zenon, StatesStep
<1> QED BY <1>1, Invariance, PTL DEF Spec, StatesOnlyEnd, StatesKept

-----------------------------------------------------------------------------
(* SessionCookie.  A cookie that is held, or on its way, names a session   *)
(* whose row lives at least as long; only touch_ready moves a deadline,    *)
(* and never back, so what has been sent stays honoured.                   *)

CookieRows == [st : {"absent", "live", "over"}, idle : Nat, absolute : Nat]

CookieReplies ==
    [kind : {"none", "unchanged", "set", "clear"}, id : Sessions \cup {NULL}, expires : Nat]

CookieTypeOK ==
    /\ second \in Nat
    /\ row \in [Sessions -> CookieRows]
    /\ held \in CookieReplies \cup {NULL}
    /\ carried \in [Tabs -> Sessions \cup {NULL, "nothing"}]
    /\ touch \in [Tabs -> [idle : Nat, candidate : Nat] \cup {NULL}]
    /\ reply \in [Tabs -> CookieReplies]
    /\ ended \subseteq Sessions

\* A cookie, in the browser or on its way, that the rows r honour for at least as long.
Backed(r, c) == c.id \in Sessions /\ r[c.id].st # "absent" /\ c.expires <= r[c.id].idle

TabInv(t) ==
    /\ carried[t] \in Sessions => row[carried[t]].st # "absent"
    /\ reply[t] # NoReply => carried[t] # "nothing"
    /\ reply[t].kind = "set" => Backed(row, reply[t])
    /\ reply[t].kind = "clear" => /\ reply[t].expires = 0
                                  /\ carried[t] \in Sessions => carried[t] \in ended
    /\ touch[t] # NULL => /\ carried[t] \in Sessions /\ reply[t] = NoReply
                          /\ touch[t].idle <= touch[t].candidate
                          /\ touch[t].candidate <= row[carried[t]].absolute

CookieInv ==
    /\ CookieTypeOK
    /\ \A s \in Sessions : row[s].idle <= row[s].absolute
    /\ \A t \in Tabs : TabInv(t)
    /\ held # NULL => Backed(row, held)

\* What a step may do to the rows: deadlines only grow, and nothing becomes absent.
RowsGrow ==
    /\ row' \in [Sessions -> CookieRows]
    /\ \A s \in Sessions :
          /\ row'[s].idle <= row'[s].absolute
          /\ row[s].st # "absent" => /\ row'[s].st # "absent"
                                     /\ row[s].idle <= row'[s].idle
                                     /\ row'[s].absolute = row[s].absolute

LEMMA BackedKept ==
    ASSUME CookieTypeOK, RowsGrow, NEW c \in CookieReplies, Backed(row, c)
    PROVE  Backed(row', c)
<1>1. c.id \in Sessions /\ row[c.id] \in CookieRows /\ row'[c.id] \in CookieRows
  BY DEF Backed, CookieTypeOK, RowsGrow
<1> QED BY <1>1 DEF Backed, RowsGrow, CookieRows, CookieReplies

LEMMA RowsUnchanged ==
    ASSUME CookieInv, row' = row
    PROVE  RowsGrow
<1>1. ASSUME NEW s \in Sessions PROVE row[s] \in CookieRows
  BY DEF CookieInv, CookieTypeOK
<1> QED BY <1>1 DEF RowsGrow, CookieInv, CookieTypeOK, CookieRows

LEMMA RowEnds ==
    ASSUME CookieInv, NEW s \in Sessions, row[s].st # "absent",
           row' = [row EXCEPT ![s].st = "over"]
    PROVE  RowsGrow
<1>1. ASSUME NEW u \in Sessions PROVE row[u] \in CookieRows
  BY DEF CookieInv, CookieTypeOK
<1>2. row' \in [Sessions -> CookieRows]
  BY <1>1 DEF CookieInv, CookieTypeOK, CookieRows
<1> QED BY <1>1, <1>2 DEF RowsGrow, CookieInv, CookieTypeOK, CookieRows

\* A tab that the step leaves alone.
LEMMA TabKept ==
    ASSUME CookieInv, RowsGrow, ended \subseteq ended', NEW u \in Tabs,
           carried'[u] = carried[u], touch'[u] = touch[u], reply'[u] = reply[u]
    PROVE  TabInv(u)'
<1>1. TabInv(u) /\ reply[u] \in CookieReplies
  BY DEF CookieInv, CookieTypeOK
<1>2. reply[u].kind = "set" => Backed(row', reply[u])
  BY <1>1, BackedKept DEF CookieInv, TabInv
<1> QED BY <1>1, <1>2 DEF TabInv, RowsGrow

LEMMA CookieInvInit == CookieInit => CookieInv
<1> SUFFICES ASSUME CookieInit PROVE CookieInv
  OBVIOUS
<1>1. NoReply \in CookieReplies /\ NoSession \in CookieRows
  BY DEF NoReply, Reply, CookieReplies, NoSession, CookieRows
<1>2. CookieTypeOK
  BY <1>1 DEF CookieInit, CookieTypeOK
<1>3. \A t \in Tabs : TabInv(t)
  BY SessionCookieAssumption DEF CookieInit, TabInv, NoReply, Reply
<1> QED BY <1>2, <1>3 DEF CookieInit, CookieInv, NoSession

\* An action of tab t with the cookie in the browser, the rows and the other tabs as they
\* may be changed.
LEMMA TabStep ==
    ASSUME CookieInv, NEW t \in Tabs, RowsGrow, Endings, second' = second, held' = held,
           \A u \in Tabs \ {t} : carried'[u] = carried[u] /\ touch'[u] = touch[u] /\ reply'[u] = reply[u],
           carried' \in [Tabs -> Sessions \cup {NULL, "nothing"}],
           touch' \in [Tabs -> [idle : Nat, candidate : Nat] \cup {NULL}],
           reply' \in [Tabs -> CookieReplies],
           TabInv(t)'
    PROVE  CookieInv'
<1>1. ended' \subseteq Sessions /\ ended \subseteq ended'
  BY DEF Endings, CookieInv, CookieTypeOK
<1>2. CookieTypeOK'
  BY <1>1 DEF CookieTypeOK, CookieInv, RowsGrow
<1>3. ASSUME NEW u \in Tabs PROVE TabInv(u)'
  BY <1>1, TabKept
<1>4. held' # NULL => Backed(row', held')
  BY BackedKept DEF CookieInv, CookieTypeOK
<1> QED BY <1>2, <1>3, <1>4 DEF CookieInv, RowsGrow

LEMMA RepliesTyped ==
    /\ NoReply \in CookieReplies /\ Unchanged \in CookieReplies /\ clear_cookie \in CookieReplies
    /\ NoReply.kind = "none" /\ Unchanged.kind = "unchanged"
    /\ clear_cookie.kind = "clear" /\ clear_cookie.expires = 0
BY DEF NoReply, Unchanged, clear_cookie, Reply, CookieReplies

\* Requests that are sent, and answers that leave the cookie alone.
LEMMA CookieSend ==
    ASSUME CookieInv, NEW t \in Tabs, Send(t), Endings
    PROVE  CookieInv'
<1>1. RowsGrow
  BY RowsUnchanged DEF Send
<1>2. TabInv(t) /\ reply[t].kind = "none" /\ touch[t] = NULL
  BY RepliesTyped, SessionCookieAssumption DEF CookieInv, TabInv, Send
<1>3. held # NULL => held.id \in Sessions /\ row[held.id].st # "absent"
  BY DEF CookieInv, Backed
<1>4. carried' \in [Tabs -> Sessions \cup {NULL, "nothing"}]
  BY <1>3 DEF Send, CookieInv, CookieTypeOK
<1>5. carried'[t] = IF held = NULL THEN NULL ELSE held.id
  BY DEF Send, CookieInv, CookieTypeOK
<1>6. TabInv(t)'
  <2>1. carried'[t] \in Sessions => row'[carried'[t]].st # "absent"
    BY <1>3, <1>5, SessionCookieAssumption DEF Send
  <2>2. reply'[t] = NoReply /\ touch'[t] = NULL
    BY <1>2, SessionCookieAssumption DEF Send, TabInv
  <2> QED BY <2>1, <2>2, RepliesTyped DEF TabInv
<1> QED
  <2>1. \A u \in Tabs \ {t} : carried'[u] = carried[u] /\ touch'[u] = touch[u] /\ reply'[u] = reply[u]
    BY DEF Send, CookieInv, CookieTypeOK
  <2> QED BY <1>1, <1>4, <1>6, <2>1, TabStep DEF Send, CookieInv, CookieTypeOK

\* An answer is decided: TabStep with what it demands of the answer.
LEMMA DecideStep ==
    ASSUME CookieInv, NEW t \in Tabs, RowsGrow, Endings, NEW c \in CookieReplies, Decides(t, c),
           UNCHANGED <<second, held, carried, touch>>,
           c.kind = "set" => Backed(row', c),
           c.kind = "clear" => c.expires = 0 /\ (carried[t] \in Sessions => carried[t] \in ended')
    PROVE  CookieInv'
<1>1. reply' \in [Tabs -> CookieReplies] /\ reply'[t] = c
  BY DEF Decides, CookieInv, CookieTypeOK
<1>2. TabInv(t)
  BY DEF CookieInv
<1>3. TabInv(t)'
  BY <1>1, <1>2 DEF TabInv, Decides, RowsGrow
<1>4. \A u \in Tabs \ {t} : carried'[u] = carried[u] /\ touch'[u] = touch[u] /\ reply'[u] = reply[u]
  BY DEF Decides, CookieInv, CookieTypeOK
<1> QED BY <1>1, <1>3, <1>4, TabStep DEF CookieInv, CookieTypeOK

LEMMA CookieUnchanged ==
    ASSUME CookieInv, NEW t \in Tabs, Allow(t) \/ Unavailable(t), Endings
    PROVE  CookieInv'
<1>1. RowsGrow
  BY RowsUnchanged DEF Allow, Unavailable
<1> QED BY <1>1, RepliesTyped, DecideStep DEF Allow, Unavailable

LEMMA CookieUnauthenticated ==
    ASSUME CookieInv, NEW t \in Tabs, Unauthenticated(t), Endings
    PROVE  CookieInv'
<1> DEFINE s == carried[t]
<1>1. s \in Sessions \cup {NULL} /\ TabInv(t)
  BY DEF Unauthenticated, Decides, CookieInv, CookieTypeOK
<1>2. RowsGrow
  BY <1>1, RowsUnchanged, RowEnds DEF Unauthenticated, TabInv
<1>3. ASSUME s \in Sessions PROVE s \in ended'
  <2>1. s # NULL /\ row[s].st # "absent" /\ row[s] \in CookieRows
    BY <1>1, <1>3, SessionCookieAssumption DEF TabInv, CookieInv, CookieTypeOK
  <2>2. row'[s].st # "absent" /\ (row'[s].st = "over" \/ row'[s].idle <= second')
    BY <1>3, <2>1 DEF Unauthenticated, is_active, CookieInv, CookieTypeOK, CookieRows
  <2> QED BY <1>3, <2>2 DEF Endings
<1> QED BY <1>2, <1>3, RepliesTyped, DecideStep DEF Unauthenticated

LEMMA CookieLogout ==
    ASSUME CookieInv, NEW t \in Tabs, logout(t), Endings
    PROVE  CookieInv'
<1>1. TabInv(t)
  BY DEF CookieInv
<1>2. RowsGrow
  BY <1>1, RowsUnchanged, RowEnds DEF logout, TabInv
<1>3. ASSUME carried[t] \in Sessions PROVE carried[t] \in ended'
  <2>1. row'[carried[t]].st = "over"
    BY <1>3 DEF logout, CookieInv, CookieTypeOK, CookieRows
  <2> QED BY <1>3, <2>1 DEF Endings
<1> QED BY <1>2, <1>3, RepliesTyped, DecideStep DEF logout

LEMMA CookieCallback ==
    ASSUME CookieInv, NEW t \in Tabs, callback(t), Endings
    PROVE  CookieInv'
<1>1. PICK s \in Sessions :
          /\ row[s].st = "absent"
          /\ row' = [row EXCEPT ![s] = [st |-> "live", absolute |-> second + AbsoluteTTL,
                                        idle |-> Earlier(second + IdleTTL, second + AbsoluteTTL)]]
          /\ Decides(t, serialize_signed_cookie(s, row'[s]))
  BY Zenon DEF callback
<1> DEFINE new == [st |-> "live", absolute |-> second + AbsoluteTTL,
                   idle |-> Earlier(second + IdleTTL, second + AbsoluteTTL)]
           c == serialize_signed_cookie(s, row'[s])
<1>2. new \in CookieRows /\ new.st # "absent" /\ new.idle <= new.absolute /\ row'[s] = new
  BY <1>1, SessionCookieAssumption DEF Earlier, CookieRows, CookieInv, CookieTypeOK
<1> HIDE DEF new
<1>3. row' = [row EXCEPT ![s] = new]
  BY <1>1 DEF new
<1>4. ASSUME NEW u \in Sessions PROVE row[u] \in CookieRows
  BY DEF CookieInv, CookieTypeOK
<1>5. RowsGrow
  <2>1. row' \in [Sessions -> CookieRows]
    BY <1>2, <1>3 DEF CookieInv, CookieTypeOK
  <2>2. ASSUME NEW u \in Sessions, u # s PROVE row'[u] = row[u]
    BY <1>3, <2>2 DEF CookieInv, CookieTypeOK
  <2> QED BY <1>1, <1>2, <1>4, <2>1, <2>2 DEF RowsGrow, CookieRows, CookieInv
<1>6. c \in CookieReplies /\ c.kind = "set" /\ Backed(row', c)
  BY <1>2 DEF serialize_signed_cookie, Reply, CookieReplies, CookieRows, Backed
<1> QED BY Zenon, <1>1, <1>5, <1>6, DecideStep DEF callback

\* The touch: what it has read, and what it writes.
LEMMA CookieTouchRead ==
    ASSUME CookieInv, NEW t \in Tabs, touch_ready(t), Endings
    PROVE  CookieInv'
<1> DEFINE s == carried[t]
           candidate == Earlier(second + IdleTTL, row[s].absolute)
           read == [idle |-> row[s].idle, candidate |-> candidate]
<1>1. s \in Sessions /\ TabInv(t) /\ row[s] \in CookieRows
  BY Zenon DEF touch_ready, CookieInv, CookieTypeOK
<1>2. read \in [idle : Nat, candidate : Nat] /\ read.idle <= read.candidate
      /\ read.candidate <= row[s].absolute
  BY <1>1, SessionCookieAssumption DEF touch_ready, Earlier, CookieRows, CookieInv, CookieTypeOK
<1>3. RowsGrow
  BY RowsUnchanged DEF touch_ready
<1>4. touch' = [touch EXCEPT ![t] = read] /\ touch'[t] = read
  BY DEF touch_ready, CookieInv, CookieTypeOK
<1> HIDE DEF read
<1>5. touch' \in [Tabs -> [idle : Nat, candidate : Nat] \cup {NULL}]
  BY Zenon, <1>2, <1>4 DEF CookieInv, CookieTypeOK
<1>6. TabInv(t)'
  BY Zenon, <1>1, <1>2, <1>4, SessionCookieAssumption, RepliesTyped DEF TabInv, touch_ready
<1>7. \A u \in Tabs \ {t} : carried'[u] = carried[u] /\ touch'[u] = touch[u] /\ reply'[u] = reply[u]
  BY Zenon, <1>4 DEF touch_ready, CookieInv, CookieTypeOK
<1> QED BY Zenon, <1>3, <1>5, <1>6, <1>7, TabStep DEF touch_ready, CookieInv, CookieTypeOK

LEMMA CookieTouched ==
    ASSUME CookieInv, NEW t \in Tabs, Touched(t), Endings
    PROVE  CookieInv'
<1> DEFINE s == carried[t]
           c == serialize_signed_cookie(s, row'[s])
<1>1. /\ s \in Sessions /\ TabInv(t) /\ row[s] \in CookieRows
      /\ touch[t] \in [idle : Nat, candidate : Nat] /\ touch[t].idle <= touch[t].candidate
      /\ touch[t].candidate <= row[s].absolute
  BY DEF Touched, CookieInv, CookieTypeOK, TabInv
<1>2. touch' \in [Tabs -> [idle : Nat, candidate : Nat] \cup {NULL}] /\ touch'[t] = NULL
  BY DEF Touched, CookieInv, CookieTypeOK
<1>3. CASE UNCHANGED <<row, reply>>
  <2>1. RowsGrow
    BY Zenon, <1>3, RowsUnchanged
  <2>2. TabInv(t)'
    BY <1>1, <1>2, <1>3, TabKept DEF TabInv, Touched, Endings, CookieInv
  <2>3. \A u \in Tabs \ {t} : carried'[u] = carried[u] /\ touch'[u] = touch[u] /\ reply'[u] = reply[u]
    BY <1>3 DEF Touched, CookieInv, CookieTypeOK
  <2> QED BY <1>2, <1>3, <2>1, <2>2, <2>3, TabStep DEF Touched, CookieInv, CookieTypeOK
<1>4. CASE /\ row[s].st = "live" /\ row[s].idle = touch[t].idle
           /\ row' = [row EXCEPT ![s].idle = touch[t].candidate]
           /\ reply' = [reply EXCEPT ![t] = c]
  <2>1. /\ row'[s] = [row[s] EXCEPT !.idle = touch[t].candidate]
        /\ \A u \in Sessions \ {s} : row'[u] = row[u]
    BY <1>1, <1>4 DEF CookieInv, CookieTypeOK
  <2>2. row'[s] \in CookieRows /\ row'[s].st = "live" /\ row'[s].idle = touch[t].candidate
        /\ row'[s].absolute = row[s].absolute
    BY <1>1, <1>4, <2>1 DEF CookieRows
  <2>3. RowsGrow
    <3>1. ASSUME NEW u \in Sessions PROVE row[u] \in CookieRows
      BY DEF CookieInv, CookieTypeOK
    <3>2. row' \in [Sessions -> CookieRows]
      <4>1. row' = [u \in Sessions |-> row'[u]]
        BY Zenon, <1>4 DEF CookieInv, CookieTypeOK
      <4>2. \A u \in Sessions : row'[u] \in CookieRows
        BY <2>1, <2>2, <3>1
      <4> QED BY <4>1, <4>2
    <3> QED BY <1>1, <1>4, <2>1, <2>2, <3>1, <3>2 DEF RowsGrow, CookieRows, CookieInv
  <2>4. c \in CookieReplies /\ c.kind = "set" /\ Backed(row', c)
    BY <1>1, <2>2 DEF serialize_signed_cookie, Reply, CookieReplies, CookieRows, Backed
  <2>5. reply' \in [Tabs -> CookieReplies] /\ reply'[t] = c
    BY <1>4, <2>4 DEF CookieInv, CookieTypeOK
  <2>6. TabInv(t)'
    BY <1>1, <1>2, <2>2, <2>4, <2>5, SessionCookieAssumption DEF TabInv, Touched
  <2>7. \A u \in Tabs \ {t} : carried'[u] = carried[u] /\ touch'[u] = touch[u] /\ reply'[u] = reply[u]
    BY Zenon, <1>4 DEF Touched, CookieInv, CookieTypeOK
  <2> QED BY <1>2, <2>3, <2>5, <2>6, <2>7, TabStep DEF Touched, CookieInv, CookieTypeOK
<1> QED BY <1>3, <1>4 DEF Touched

\* The browser.
LEMMA CookieArrive ==
    ASSUME CookieInv, NEW t \in Tabs, Arrive(t), Endings
    PROVE  CookieInv'
<1>1. ended' \subseteq Sessions /\ ended \subseteq ended' /\ RowsGrow
  BY Zenon, RowsUnchanged DEF Endings, Arrive, CookieInv, CookieTypeOK
<1>2. TabInv(t) /\ reply[t] \in CookieReplies /\ second \in Nat
  BY DEF CookieInv, CookieTypeOK
<1>3. held' # NULL => held' \in CookieReplies /\ Backed(row', held')
  <2>1. held # NULL => held \in CookieReplies /\ Backed(row', held)
    BY <1>1, BackedKept DEF CookieInv, CookieTypeOK
  <2>2. reply[t].kind = "set" => Backed(row', reply[t])
    BY <1>2 DEF TabInv, Arrive
  <2>3. reply[t].kind = "clear" => reply[t].expires <= second
    BY <1>2 DEF TabInv
  <2> QED BY Zenon, <1>2, <2>1, <2>2, <2>3 DEF Arrive
<1>4. /\ carried' \in [Tabs -> Sessions \cup {NULL, "nothing"}] /\ carried'[t] = "nothing"
      /\ reply' \in [Tabs -> CookieReplies] /\ reply'[t] = NoReply /\ touch' = touch
  BY Zenon, RepliesTyped DEF Arrive, CookieInv, CookieTypeOK
<1>5. CookieTypeOK'
  BY <1>1, <1>3, <1>4 DEF Arrive, CookieInv, CookieTypeOK
<1>6. touch[t] = NULL
  BY <1>2 DEF Arrive, TabInv
<1>7. ASSUME NEW u \in Tabs PROVE TabInv(u)'
  <2>1. CASE u = t
    BY Zenon, <1>4, <1>6, <2>1, RepliesTyped, SessionCookieAssumption DEF TabInv
  <2>2. CASE u # t
    <3>1. carried'[u] = carried[u] /\ touch'[u] = touch[u] /\ reply'[u] = reply[u]
      BY <2>2 DEF Arrive, CookieInv, CookieTypeOK
    <3> QED BY <1>1, <3>1, TabKept
  <2> QED BY Zenon, <2>1, <2>2
<1> QED BY Zenon, <1>1, <1>3, <1>5, <1>7 DEF CookieInv, RowsGrow

LEMMA CookieTicks ==
    ASSUME CookieInv, CookieTick, Endings
    PROVE  CookieInv'
<1>1. ended' \subseteq Sessions /\ ended \subseteq ended' /\ RowsGrow
  BY RowsUnchanged DEF Endings, CookieTick, CookieInv, CookieTypeOK
<1>2. held' # NULL => held' = held
  BY DEF CookieTick
<1>3. CookieTypeOK'
  BY <1>1, <1>2 DEF CookieTick, CookieInv, CookieTypeOK
<1>4. ASSUME NEW u \in Tabs PROVE TabInv(u)'
  BY Zenon, <1>1, TabKept DEF CookieTick
<1> QED BY Zenon, <1>1, <1>2, <1>3, <1>4 DEF CookieTick, CookieInv, RowsGrow

LEMMA CookieInvNext == CookieInv /\ [CookieNext]_cookieVars => CookieInv'
<1> SUFFICES ASSUME CookieInv, [CookieNext]_cookieVars PROVE CookieInv'
  OBVIOUS
<1>1. CASE CookieNext
  BY Zenon, <1>1, CookieSend, CookieUnchanged, CookieUnauthenticated, CookieLogout, CookieCallback,
     CookieTouchRead, CookieTouched, CookieArrive, CookieTicks DEF CookieNext
<1>2. CASE UNCHANGED cookieVars
  BY Zenon, <1>2 DEF cookieVars, CookieInv, CookieTypeOK, TabInv, Backed
<1> QED BY <1>1, <1>2

LEMMA CookieInvariant == CookieSpec => []CookieInv
BY CookieInvInit, CookieInvNext, PTL DEF CookieSpec

\* The browser never holds the session cookie for longer than the gateway honours it, for
\* any number of tabs and sessions and any deadlines (serialize_signed_cookie with the
\* row's deadline, after create_session and touch_ready).
THEOREM CookieIsHonoured == CookieSpec => []CookieNeverOutlivesRow
<1>1. CookieInv => CookieNeverOutlivesRow
  <2> SUFFICES ASSUME CookieInv, held # NULL
               PROVE  held.expires <= row[held.id].idle /\ held.expires <= row[held.id].absolute
    BY DEF CookieNeverOutlivesRow
  <2>1. held \in CookieReplies /\ Backed(row, held) /\ row[held.id] \in CookieRows
    BY DEF CookieInv, CookieTypeOK, Backed
  <2> QED BY <2>1 DEF CookieInv, Backed, CookieReplies, CookieRows
<1> QED BY <1>1, CookieInvariant, PTL

\* The browser loses the cookie of a session that has not ended only to the answer of a
\* request with another cookie, or to a Set-Cookie that comes too late (auth_decision
\* clears a cookie only when its session is over, handle_logout ends it).
THEOREM GoodCookieIsKept == CookieSpec => GoodCookieStays
<1> DEFINE Loss == held # NULL /\ held' = NULL /\ second' = second /\ held.id \notin ended
           Other == \E t \in Tabs : /\ reply[t] # NoReply /\ reply'[t] = NoReply
                                    /\ reply[t].kind = "set" \/ carried[t] # held.id
<1>1. ASSUME CookieInv, [CookieNext]_cookieVars, Loss PROVE Other
  <2>1. held' # held
    BY Zenon, <1>1
  <2>2. PICK t \in Tabs : Arrive(t)
    <3>1. ~CookieTick
      BY <1>1 DEF CookieTick, CookieInv, CookieTypeOK
    <3> QED BY Zenon, <1>1, <2>1, <3>1 DEF CookieNext, cookieVars, Send, Unauthenticated, Allow, touch_ready,
          Touched, Unavailable, callback, logout
  <2>3. reply[t] # NoReply /\ reply'[t] = NoReply /\ reply[t].kind \in {"set", "clear"}
    BY <1>1, <2>1, <2>2 DEF Arrive, CookieInv, CookieTypeOK
  <2>4. TabInv(t) /\ Backed(row, held)
    BY <1>1 DEF CookieInv
  <2>5. reply[t].kind = "clear" => carried[t] # held.id
    BY <1>1, <2>4 DEF TabInv, Backed
  <2> QED BY <2>3, <2>5
<1>2. CookieInv /\ [CookieNext]_cookieVars => [Loss => Other]_cookieVars
  BY <1>1
<1>3. CookieSpec => [][Loss => Other]_cookieVars
  BY <1>2, CookieInvariant, PTL DEF CookieSpec
<1> QED BY <1>3 DEF GoodCookieStays

-----------------------------------------------------------------------------
(* Jwks.  The cache, and the copy a call verifies with, are auth-mini's    *)
(* keys of a moment that is no further back than TTL and the time a fetch  *)
(* may take.                                                               *)

JwksSteps == {"idle", "fetch", "served", "ask", "refresh", "verify"}

JwksTypeOK ==
    /\ instant \in Nat
    /\ key \in [Keys -> {"new", "published", "retired"}]
    /\ changed \in [Keys -> Nat]
    /\ jwks_cache \in [created : Nat, keys : SUBSET Keys] \cup {NoJwks}
    /\ step \in [Calls -> JwksSteps]
    /\ purpose \in [Calls -> {"initial", "refresh"}]
    /\ jwks \in [Calls -> SUBSET Keys]
    /\ started \in [Calls -> Nat]

\* The key set ks is that of auth-mini at the time `at`, but for keys that were published or
\* retired since `lag` before; kind and when are the states of the keys and their times.
Follows(kind, when, ks, at, lag) ==
    \A k \in Keys :
        /\ k \in ks => kind[k] = "published" \/ (kind[k] = "retired" /\ at <= when[k] + lag)
        /\ k \notin ks /\ kind[k] = "published" => at <= when[k] + lag

CacheInv ==
    jwks_cache # NoJwks => /\ jwks_cache.created <= instant
                           /\ Follows(key, changed, jwks_cache.keys, jwks_cache.created, TIMEOUT)

CallInv(c) ==
    /\ step[c] \in {"fetch", "served", "refresh"} =>
          started[c] <= instant /\ instant <= started[c] + TIMEOUT
    /\ step[c] \in {"ask", "refresh"} => purpose[c] = "refresh"
    /\ step[c] = "served"  => Follows(key, changed, jwks[c], started[c], 0)
    /\ step[c] = "ask"     => Follows(key, changed, jwks[c], instant, Lag("initial"))
    /\ step[c] = "refresh" => Follows(key, changed, jwks[c], started[c], Lag("initial"))
    /\ step[c] = "verify"  => Follows(key, changed, jwks[c], instant, Lag(purpose[c]))

JwksInv == JwksTypeOK /\ CacheInv /\ \A c \in Calls : CallInv(c)

LEMMA LagType == Lag("initial") \in Nat /\ Lag("refresh") = Lag("initial") + TIMEOUT
                 /\ TIMEOUT <= Lag("initial") /\ Lag("initial") = CACHE_TTL - 1 + TIMEOUT
BY JwksAssumption DEF Lag

LEMMA FollowsWeaker ==
    ASSUME NEW kind, NEW when \in [Keys -> Nat], NEW ks,
           NEW at \in Nat, NEW lag \in Nat, NEW at2 \in Nat, NEW lag2 \in Nat,
           at2 + lag <= at + lag2, Follows(kind, when, ks, at, lag)
    PROVE  Follows(kind, when, ks, at2, lag2)
<1> SUFFICES ASSUME NEW k \in Keys
             PROVE  at <= when[k] + lag => at2 <= when[k] + lag2
  BY DEF Follows
<1>1. when[k] \in Nat
  OBVIOUS
<1> QED BY <1>1

\* What a call of Continue and Holds leaves behind.
Moved(c, next) ==
    /\ step' \in [Calls -> JwksSteps] /\ step'[c] = next
    /\ started' \in [Calls -> Nat]
    /\ next \in {"fetch", "refresh"} => started'[c] = instant
    /\ next = "served" => started'[c] = started[c]
    /\ \A u \in Calls \ {c} : step'[u] = step[u] /\ started'[u] = started[u]

LEMMA Continues ==
    ASSUME JwksTypeOK, NEW c \in Calls, NEW next \in JwksSteps, Continue(c, next)
    PROVE  Moved(c, next)
BY DEF JwksTypeOK, Continue, Moved

LEMMA CallKept ==
    ASSUME JwksInv, NEW u \in Calls, UNCHANGED <<instant, key, changed>>,
           step'[u] = step[u], started'[u] = started[u], purpose'[u] = purpose[u], jwks'[u] = jwks[u]
    PROVE  CallInv(u)'
BY DEF JwksInv, CallInv

\* A step of one call, with auth-mini's keys and the clock as they are.
LEMMA CallStep ==
    ASSUME JwksInv, NEW c \in Calls, NEW next \in JwksSteps, Continue(c, next),
           UNCHANGED <<instant, key, changed>>,
           jwks_cache' \in [created : Nat, keys : SUBSET Keys] \cup {NoJwks}, CacheInv',
           purpose' \in [Calls -> {"initial", "refresh"}], jwks' \in [Calls -> SUBSET Keys],
           \A u \in Calls \ {c} : purpose'[u] = purpose[u] /\ jwks'[u] = jwks[u],
           CallInv(c)'
    PROVE  JwksInv'
<1>1. Moved(c, next)
  BY Continues DEF JwksInv
<1>2. JwksTypeOK'
  BY <1>1 DEF JwksInv, JwksTypeOK, Moved
<1>3. ASSUME NEW u \in Calls PROVE CallInv(u)'
  <2>1. CASE u = c
    BY <2>1
  <2>2. CASE u # c
    BY <1>1, <2>2, CallKept DEF Moved
  <2> QED BY <2>1, <2>2
<1> QED BY <1>2, <1>3 DEF JwksInv

LEMMA JwksInvInit == JwksInit => JwksInv
BY DEF JwksInit, JwksInv, JwksTypeOK, JwksSteps, CacheInv, CallInv

LEMMA JwksLookUp ==
    ASSUME JwksInv, NEW c \in Calls, LookUp(c)
    PROVE  JwksInv'
<1>1. CacheInv' /\ jwks_cache' \in [created : Nat, keys : SUBSET Keys] \cup {NoJwks}
  BY DEF LookUp, JwksInv, CacheInv, JwksTypeOK
<1>2. /\ purpose' \in [Calls -> {"initial", "refresh"}]
      /\ \A u \in Calls \ {c} : purpose'[u] = purpose[u]
      /\ Asked(c) = IF purpose'[c] = "initial" THEN "verify" ELSE "ask"
  BY DEF LookUp, JwksInv, JwksTypeOK, Asked
<1>3. CASE jwks_cache # NoJwks /\ fresh(jwks_cache) /\ Continue(c, Asked(c)) /\ Holds(c, jwks_cache.keys)
  <2>1. jwks_cache \in [created : Nat, keys : SUBSET Keys] /\ instant \in Nat
    BY <1>3 DEF JwksInv, JwksTypeOK
  <2>2. /\ jwks' \in [Calls -> SUBSET Keys] /\ jwks'[c] = jwks_cache.keys
        /\ \A u \in Calls \ {c} : jwks'[u] = jwks[u]
    BY <1>3, <2>1 DEF Holds, JwksInv, JwksTypeOK
  <2>3. Asked(c) \in {"verify", "ask"}
    BY <1>2
  <2>4. Moved(c, Asked(c))
    BY <1>3, <2>3, Continues DEF JwksInv, JwksSteps
  <2>5. Follows(key, changed, jwks_cache.keys, instant, Lag("initial"))
    <3>1. /\ jwks_cache.created \in Nat /\ TIMEOUT \in Nat /\ Lag("initial") \in Nat
          /\ instant + TIMEOUT <= jwks_cache.created + Lag("initial")
      BY <1>3, <2>1, LagType, JwksAssumption DEF fresh
    <3>2. /\ changed \in [Keys -> Nat]
          /\ Follows(key, changed, jwks_cache.keys, jwks_cache.created, TIMEOUT)
      BY <1>3 DEF JwksInv, CacheInv, JwksTypeOK
    <3> QED BY ONLY <2>1, <3>1, <3>2, FollowsWeaker, Zenon
  <2>6. Follows(key, changed, jwks_cache.keys, instant, Lag(purpose'[c]))
    <3>1. CASE purpose'[c] = "initial"
      BY <2>5, <3>1
    <3>2. CASE purpose'[c] = "refresh"
      <4>1. changed \in [Keys -> Nat]
        BY DEF JwksInv, JwksTypeOK
      <4>2. /\ Lag("initial") \in Nat /\ Lag("refresh") \in Nat
            /\ instant + Lag("initial") <= instant + Lag("refresh")
        BY <2>1, LagType, JwksAssumption
      <4>3. Follows(key, changed, jwks_cache.keys, instant, Lag("refresh"))
        BY ONLY <2>1, <2>5, <4>1, <4>2, FollowsWeaker, Zenon
      <4> QED BY Zenon, <3>2, <4>3
    <3> QED BY <1>2, <3>1, <3>2
  <2>7. CallInv(c)'
    BY <1>2, <2>2, <2>3, <2>4, <2>5, <2>6 DEF CallInv, Moved, LookUp
  <2> QED BY <1>1, <1>2, <1>3, <2>2, <2>3, <2>7, CallStep DEF LookUp, JwksSteps
<1>4. CASE Continue(c, "fetch") /\ UNCHANGED jwks
  <2>1. Moved(c, "fetch")
    BY <1>4, Continues DEF JwksInv, JwksSteps
  <2>2. CallInv(c)'
    BY <2>1, JwksAssumption DEF CallInv, Moved, LookUp, JwksInv, JwksTypeOK
  <2> QED BY <1>1, <1>2, <1>4, <2>2, CallStep DEF LookUp, JwksSteps, JwksInv, JwksTypeOK
<1> QED BY <1>3, <1>4 DEF LookUp

LEMMA JwksServed ==
    ASSUME JwksInv, NEW c \in Calls, Served(c)
    PROVE  JwksInv'
<1>1. Moved(c, "served")
  BY Continues DEF Served, JwksInv, JwksSteps
<1>2. /\ jwks' \in [Calls -> SUBSET Keys] /\ jwks'[c] = published
      /\ \A u \in Calls \ {c} : jwks'[u] = jwks[u]
  BY DEF Served, Holds, published, JwksInv, JwksTypeOK
<1>3. Follows(key, changed, published, started[c], 0)
  BY DEF Follows, published
<1>4. CallInv(c)'
  BY <1>1, <1>2, <1>3 DEF CallInv, Moved, Served, JwksInv
<1> QED BY <1>2, <1>4, CallStep DEF Served, JwksSteps, JwksInv, JwksTypeOK, CacheInv

LEMMA JwksStored ==
    ASSUME JwksInv, NEW c \in Calls, Stored(c)
    PROVE  JwksInv'
<1>1. CallInv(c) /\ instant \in Nat /\ started[c] \in Nat /\ jwks[c] \in SUBSET Keys
      /\ Asked(c) \in {"verify", "ask"} /\ purpose[c] \in {"initial", "refresh"}
      /\ Asked(c) = IF purpose[c] = "initial" THEN "verify" ELSE "ask"
  BY DEF JwksInv, JwksTypeOK, Stored, Asked
<1>2. Moved(c, Asked(c))
  BY <1>1, Continues DEF Stored, JwksInv, JwksSteps
<1>3. Follows(key, changed, jwks[c], instant, TIMEOUT)
  <2>1. Follows(key, changed, jwks[c], started[c], 0) /\ instant + 0 <= started[c] + TIMEOUT
    BY <1>1 DEF CallInv, Stored
  <2>2. changed \in [Keys -> Nat] /\ TIMEOUT \in Nat /\ 0 \in Nat
    BY JwksAssumption DEF JwksInv, JwksTypeOK
  <2> QED BY ONLY <1>1, <2>1, <2>2, FollowsWeaker, Zenon
<1>4. Follows(key, changed, jwks[c], instant, Lag("initial"))
  <2>1. changed \in [Keys -> Nat]
    BY DEF JwksInv, JwksTypeOK
  <2>2. TIMEOUT \in Nat /\ Lag("initial") \in Nat /\ instant + TIMEOUT <= instant + Lag("initial")
    BY <1>1, LagType, JwksAssumption
  <2> QED BY ONLY <1>1, <1>3, <2>1, <2>2, FollowsWeaker, Zenon
<1>5. CacheInv' /\ jwks_cache' \in [created : Nat, keys : SUBSET Keys] \cup {NoJwks}
  BY <1>1, <1>3 DEF Stored, CacheInv
<1>6. CallInv(c)'
  BY <1>1, <1>2, <1>4 DEF CallInv, Moved, Stored
<1> QED BY <1>1, <1>5, <1>6, CallStep DEF Stored, JwksSteps, JwksInv, JwksTypeOK

LEMMA JwksRefresh ==
    ASSUME JwksInv, NEW c \in Calls, refresh(c) \/ refreshed(c)
    PROVE  JwksInv'
<1>1. CallInv(c) /\ instant \in Nat /\ started[c] \in Nat
  BY DEF JwksInv, JwksTypeOK
<1>2. CASE refresh(c)
  <2>1. Moved(c, "refresh")
    BY <1>2, Continues DEF refresh, JwksInv, JwksSteps
  <2>2. /\ step[c] = "ask" /\ Continue(c, "refresh") /\ UNCHANGED <<instant, key, changed>>
        /\ jwks_cache' = jwks_cache /\ purpose' = purpose /\ jwks' = jwks
    BY <1>2 DEF refresh
  <2>3. CallInv(c)'
    <3>1. step'[c] = "refresh" /\ started'[c] = instant /\ TIMEOUT \in Nat
      BY <2>1, JwksAssumption DEF Moved
    <3>2. /\ purpose[c] = "refresh"
          /\ Follows(key, changed, jwks[c], instant, Lag("initial"))
      BY <1>1, <2>2 DEF CallInv
    <3>3. /\ purpose'[c] = "refresh" /\ instant' = instant
          /\ Follows(key', changed', jwks'[c], started'[c], Lag("initial"))
      BY Zenon, <2>2, <3>1, <3>2
    <3>4. started'[c] <= instant' /\ instant' <= started'[c] + TIMEOUT
      BY <1>1, <3>1, <3>3
    <3> QED BY <3>1, <3>3, <3>4 DEF CallInv
  <2>4. CacheInv' /\ JwksTypeOK
    BY <2>2 DEF JwksInv, CacheInv
  <2> QED BY <2>2, <2>3, <2>4, CallStep DEF JwksSteps, JwksTypeOK
<1>3. CASE refreshed(c)
  <2>1. Moved(c, "verify")
    BY <1>3, Continues DEF refreshed, JwksInv, JwksSteps
  <2>2. Follows(key, changed, jwks[c], instant, Lag("refresh"))
    <3>1. /\ instant <= started[c] + TIMEOUT
          /\ Follows(key, changed, jwks[c], started[c], Lag("initial"))
      BY <1>1, <1>3 DEF CallInv, refreshed
    <3>2. changed \in [Keys -> Nat]
      BY DEF JwksInv, JwksTypeOK
    <3>3. /\ Lag("initial") \in Nat /\ Lag("refresh") \in Nat
          /\ instant + Lag("initial") <= started[c] + Lag("refresh")
      BY ONLY <1>1, <3>1, LagType, JwksAssumption
    <3> QED BY ONLY <1>1, <3>1, <3>2, <3>3, FollowsWeaker, Zenon
  <2>3. CallInv(c)'
    BY Zenon, <1>1, <1>3, <2>1, <2>2 DEF CallInv, Moved, refreshed
  <2> QED BY <1>3, <2>3, CallStep DEF refreshed, JwksSteps, JwksInv, JwksTypeOK, CacheInv
<1> QED BY <1>2, <1>3

LEMMA JwksEnds ==
    ASSUME JwksInv, NEW c \in Calls, CallFails(c) \/ VerifyToken(c)
    PROVE  JwksInv'
<1>1. Continue(c, "idle") /\ Holds(c, {}) /\ purpose' = [purpose EXCEPT ![c] = "initial"]
      /\ UNCHANGED <<instant, key, changed, jwks_cache>>
  BY Zenon DEF CallFails, VerifyToken
<1>2. Moved(c, "idle")
  BY Zenon, <1>1, Continues DEF JwksInv, JwksSteps
<1>3. CallInv(c)'
  BY <1>2 DEF CallInv, Moved
<1> QED BY <1>1, <1>3, CallStep DEF Holds, JwksSteps, JwksInv, JwksTypeOK, CacheInv

\* auth-mini rotates a key: what was so far away in the past stays so.
LEMMA FollowsRotated ==
    ASSUME JwksTypeOK, NEW j \in Keys, Rotate(j), NEW ks, NEW at \in Nat, NEW lag \in Nat,
           at <= instant, Follows(key, changed, ks, at, lag)
    PROVE  Follows(key', changed', ks, at, lag)
<1> SUFFICES ASSUME NEW k \in Keys
             PROVE  /\ k \in ks => key'[k] = "published" \/ (key'[k] = "retired" /\ at <= changed'[k] + lag)
                    /\ k \notin ks /\ key'[k] = "published" => at <= changed'[k] + lag
  BY DEF Follows
<1>1. CASE k = j
  BY <1>1 DEF Rotate, JwksTypeOK, Follows
<1>2. CASE k # j
  BY <1>2 DEF Rotate, JwksTypeOK, Follows
<1> QED BY <1>1, <1>2

LEMMA JwksRotate ==
    ASSUME JwksInv, NEW j \in Keys, Rotate(j)
    PROVE  JwksInv'
<1>1. JwksTypeOK /\ JwksTypeOK'
  <2>1. JwksTypeOK /\ instant \in Nat
    BY Zenon DEF JwksInv, JwksTypeOK
  <2>2. changed' \in [Keys -> Nat]
    BY Zenon, <2>1 DEF JwksTypeOK, Rotate
  <2>3. key' \in [Keys -> {"new", "published", "retired"}]
    <3>1. PICK v \in {"new", "published", "retired"} : key' = [key EXCEPT ![j] = v]
      BY Zenon DEF Rotate
    <3> QED BY Zenon, <2>1, <3>1 DEF JwksTypeOK
  <2> QED BY Zenon, <2>1, <2>2, <2>3 DEF JwksTypeOK, Rotate
<1>2. CacheInv'
  BY Zenon, <1>1, FollowsRotated, JwksAssumption DEF JwksInv, CacheInv, Rotate, JwksTypeOK
<1>3. ASSUME NEW c \in Calls PROVE CallInv(c)'
  <2>1. CallInv(c) /\ instant \in Nat /\ started[c] \in Nat /\ Lag("initial") \in Nat
        /\ Lag(purpose[c]) \in Nat
    BY <1>1, LagType, JwksAssumption DEF JwksInv, JwksTypeOK
  <2>0. ASSUME NEW at \in Nat, NEW lag \in Nat, at <= instant,
               Follows(key, changed, jwks[c], at, lag)
        PROVE  Follows(key', changed', jwks[c], at, lag)
    BY Zenon, <1>1, <2>0, FollowsRotated
  <2>6. 0 \in Nat /\ instant <= instant
    BY <2>1
  <2>2. step[c] = "served" => Follows(key', changed', jwks[c], started[c], 0)
    BY Zenon, <2>0, <2>1, <2>6 DEF CallInv
  <2>3. step[c] = "ask" => Follows(key', changed', jwks[c], instant, Lag("initial"))
    BY Zenon, <2>0, <2>1, <2>6 DEF CallInv
  <2>4. step[c] = "refresh" => Follows(key', changed', jwks[c], started[c], Lag("initial"))
    BY Zenon, <2>0, <2>1, <2>6 DEF CallInv
  <2>5. step[c] = "verify" => Follows(key', changed', jwks[c], instant, Lag(purpose[c]))
    BY Zenon, <2>0, <2>1, <2>6 DEF CallInv
  <2> QED BY <2>1, <2>2, <2>3, <2>4, <2>5 DEF CallInv, Rotate
<1> QED BY <1>1, <1>2, <1>3 DEF JwksInv

LEMMA JwksTicks ==
    ASSUME JwksInv, JwksTick
    PROVE  JwksInv'
<1>1. JwksTypeOK'
  BY DEF JwksInv, JwksTypeOK, JwksTick
<1>2. CacheInv'
  BY DEF JwksInv, JwksTypeOK, JwksTick, CacheInv
<1>3. ASSUME NEW c \in Calls PROVE CallInv(c)'
  BY JwksAssumption DEF JwksInv, JwksTypeOK, JwksTick, CallInv
<1> QED BY <1>1, <1>2, <1>3 DEF JwksInv

LEMMA JwksInvNext == JwksInv /\ [JwksNext]_jwksVars => JwksInv'
<1> SUFFICES ASSUME JwksInv, [JwksNext]_jwksVars PROVE JwksInv'
  OBVIOUS
<1>1. CASE JwksNext
  BY Zenon, <1>1, JwksLookUp, JwksServed, JwksStored, JwksRefresh, JwksEnds, JwksRotate,
     JwksTicks DEF JwksNext
<1>2. CASE UNCHANGED jwksVars
  BY <1>2 DEF jwksVars, JwksInv, JwksTypeOK, CacheInv, CallInv
<1> QED BY <1>1, <1>2

\* However fetches overtake each other and whenever auth-mini rotates its keys, a token is
\* judged by the keys auth-mini publishes or has published until recently, for any number
\* of threads, keys and tokens and any age of the cache (AuthMiniClient::jwks and
\* verify_access_token).
THEOREM VerdictsAreCurrent == JwksSpec => []VerdictsFollowRotation
<1>1. JwksInv => VerdictsFollowRotation
  <2> SUFFICES ASSUME JwksInv, NEW c \in Calls, NEW t \in Tokens, step[c] = "verify"
               PROVE  LET result   == verify_access_token(t, jwks[c], instant)
                          recently == instant <= changed[t.kid] + Lag(purpose[c])
                      IN  /\ result # "Invalid" =>
                               /\ Sound(t, instant)
                               /\ key[t.kid] = "published" \/ (key[t.kid] = "retired" /\ recently)
                               /\ result = "Ok" <=> audience_claim_contains(t.aud, Audience)
                          /\ result = "Invalid" /\ Sound(t, instant) /\ key[t.kid] = "published" => recently
    BY DEF VerdictsFollowRotation
  <2>1. Follows(key, changed, jwks[c], instant, Lag(purpose[c]))
    BY DEF JwksInv, CallInv
  <2>2. t.kid \in Keys /\ t.exp \in Nat /\ instant \in Nat
    BY JwksAssumption DEF JwksInv, JwksTypeOK
  <2>3. /\ t.kid \in jwks[c] => \/ key[t.kid] = "published"
                                \/ key[t.kid] = "retired"
                                   /\ instant <= changed[t.kid] + Lag(purpose[c])
        /\ t.kid \notin jwks[c] /\ key[t.kid] = "published" =>
              instant <= changed[t.kid] + Lag(purpose[c])
    BY Zenon, <2>1, <2>2 DEF Follows
  <2>4. Sound(t, instant) =>
           (verify_access_token(t, jwks[c], instant) = "Invalid" <=> t.kid \notin jwks[c])
    BY <2>2 DEF Sound, verify_access_token
  <2>5. ASSUME verify_access_token(t, jwks[c], instant) # "Invalid"
        PROVE  /\ Sound(t, instant) /\ t.kid \in jwks[c]
               /\ verify_access_token(t, jwks[c], instant) = "Ok"
                     <=> audience_claim_contains(t.aud, Audience)
    BY <2>2, <2>5 DEF Sound, verify_access_token
  <2> QED BY <2>3, <2>4, <2>5
<1> QED BY <1>1, JwksInvInit, JwksInvNext, PTL DEF JwksSpec
=============================================================================
