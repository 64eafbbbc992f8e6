----------------------------- MODULE LoginFlow -----------------------------
(***************************************************************************)
(* From /login to a new session: create_login_state, the browser's trip to *)
(* auth-mini, the callback that consumes the login state, and              *)
(* create_session (src/src/server.rs, src/src/db.rs).                      *)
(*                                                                         *)
(* One browser with several tabs: its requests run concurrently, share the *)
(* login-state cookie, are repeated, and are answered in any order.  One   *)
(* SQL statement is one step; consume_login_state is a deferred            *)
(* transaction, whose SELECT takes a snapshot and whose UPDATE fails if    *)
(* anybody has written since.                                              *)
(***************************************************************************)
EXTENDS Naturals

CONSTANTS
    Requests,      \* requests of the browser to /login and /auth/callback/session
    LoginStates,   \* ids that create_login_state may draw
    None,          \* no login state
    LoginStateTTL, \* config.login_state_ttl_seconds
    MaxTime        \* bound: last value of the clock

ASSUME LoginFlowAssumption ==
    /\ None \notin LoginStates \cup Requests
    /\ LoginStateTTL \in Nat \ {0} /\ MaxTime \in Nat

VARIABLES
    now,        \* the clock
    state,      \* login_states: row of each id
    jar,        \* the browser's login-state cookie
    pc,         \* where each request is
    cookie,     \* login-state cookie the request carries, or the one of its answer
    body,       \* `state` of the callback's body
    since,      \* earliest clock value its current operation may have read
    stale,      \* somebody has written since the request's SELECT
    late,       \* history: its login state was not usable when the callback arrived
    sessions    \* history: sessions created from each login state

vars == <<now, state, jar, pc, cookie, body, since, stale, late, sessions>>
requestVars == <<pc, cookie, body, since>>

PCs == {"idle", "login", "login_insert", "login_answer", "callback", "selected",
        "consumed", "verify", "create", "create_insert", "created",
        "answer_clear", "answer_session", "answer_error"}

NoRow == [st |-> "absent", expires_at |-> 0]

Init ==
    /\ now = LoginStateTTL
    /\ state = [s \in LoginStates |-> NoRow]
    /\ jar = None
    /\ pc = [r \in Requests |-> "idle"]
    /\ cookie = [r \in Requests |-> None]
    /\ body = [r \in Requests |-> None]
    /\ since = [r \in Requests |-> 0]
    /\ stale = [r \in Requests |-> FALSE]
    /\ late = [r \in Requests |-> FALSE]
    /\ sessions = [s \in LoginStates |-> 0]

Clock(r) == since[r] .. now

\* The operations that read the clock.
ClockPCs == {"login", "login_insert", "callback", "create"}

Goto(r, next) ==
    /\ pc' = [pc EXCEPT ![r] = next]
    /\ since' = [since EXCEPT ![r] = IF next \in ClockPCs THEN now ELSE 0]

\* A committed write to the database makes every other open snapshot stale.
Wrote(r) == stale' = [q \in Requests |-> q # r /\ (stale[q] \/ pc[q] = "selected")]

-----------------------------------------------------------------------------
(* GET /login.                                                             *)

Login(r) ==
    /\ pc[r] = "idle"
    /\ Goto(r, "login")
    /\ UNCHANGED <<now, state, jar, cookie, body, stale, late, sessions>>

\* The DELETE of prune on login_states, in create_login_state and create_session; it
\* writes if it deletes something, here or in gateway_sessions.
prune_Mutant(s, t) == s.st # "absent"

prune(s, t) == s.st = "consumed" \/ (s.st = "fresh" /\ s.expires_at <= t)

Prune(r) ==
    /\ pc[r] \in {"login", "create"}
    /\ \/ \E t \in Clock(r) :
             /\ state' = [s \in LoginStates |-> IF prune(state[s], t)
                              THEN [state[s] EXCEPT !.st = "deleted"] ELSE state[s]]
             /\ \/ Wrote(r)
                \/ state' = state /\ UNCHANGED stale
             /\ Goto(r, IF pc[r] = "login" THEN "login_insert" ELSE "create_insert")
       \/ /\ Goto(r, IF pc[r] = "login" THEN "answer_error" ELSE "answer_clear")
          /\ UNCHANGED <<state, stale>>
    /\ UNCHANGED <<now, jar, cookie, body, late, sessions>>

\* The id is fresh: random_token never repeats.
create_login_state(s, t) ==
    state' = [state EXCEPT ![s] = [st |-> "fresh", expires_at |-> t + LoginStateTTL]]

LoginInsert(r) ==
    /\ pc[r] = "login_insert"
    /\ \/ \E s \in LoginStates, t \in Clock(r) :
             /\ state[s].st = "absent"
             /\ create_login_state(s, t)
             /\ cookie' = [cookie EXCEPT ![r] = s]
             /\ Wrote(r)
             /\ Goto(r, "login_answer")
       \/ /\ Goto(r, "answer_error")
          /\ UNCHANGED <<state, cookie, stale>>
    /\ UNCHANGED <<now, jar, body, late, sessions>>

-----------------------------------------------------------------------------
(* POST /auth/callback/session: handle_callback_session.                   *)

Usable(s) == s # None /\ state[s].st = "fresh" /\ now < state[s].expires_at

\* A tab comes back from auth-mini with the state of some earlier /login and posts it
\* with the cookie the browser has by now.  An unsigned cookie, or a body that is not
\* JSON, is answered before the login state is touched.
Callback(r) ==
    /\ pc[r] = "idle"
    /\ \E b \in {s \in LoginStates : state[s].st # "absent"} :
          /\ body' = [body EXCEPT ![r] = b]
          /\ cookie' = [cookie EXCEPT ![r] = jar]
          /\ late' = [late EXCEPT ![r] = ~Usable(jar)]
          /\ \/ jar # None /\ Goto(r, "callback")
             \/ Goto(r, "answer_clear")
    /\ UNCHANGED <<now, state, jar, stale, sessions>>

\* The SELECT of consume_login_state.
consume_Matches(s, t) == s.st = "fresh" /\ t < s.expires_at

Select(r) ==
    /\ pc[r] = "callback"
    /\ \/ \E t \in Clock(r) :
             Goto(r, IF consume_Matches(state[cookie[r]], t) THEN "selected"
                                                             ELSE "answer_clear")
       \/ Goto(r, "answer_error")
    /\ UNCHANGED <<now, state, jar, cookie, body, stale, late, sessions>>

\* The UPDATE and the COMMIT of consume_login_state.  The UPDATE names the id alone; it
\* is the snapshot that makes it fail if the row may have changed.
Consume_Mutant(r) ==
    /\ pc[r] = "selected"
    /\ state' = [state EXCEPT ![cookie[r]].st = "consumed"]
    /\ Wrote(r)
    /\ Goto(r, "consumed")
    /\ UNCHANGED <<now, jar, cookie, body, late, sessions>>

Consume(r) ==
    /\ pc[r] = "selected"
    /\ \/ /\ ~stale[r]
          /\ state' = [state EXCEPT ![cookie[r]].st = "consumed"]
          /\ Wrote(r)
          /\ Goto(r, "consumed")
       \/ /\ Goto(r, "answer_error")
          /\ stale' = [stale EXCEPT ![r] = FALSE]
          /\ UNCHANGED state
    /\ UNCHANGED <<now, jar, cookie, body, late, sessions>>

\* The state of the body is compared only now; then into_tokens.
matches_body(r) == body[r] = cookie[r]

Consumed(r) ==
    /\ pc[r] = "consumed"
    /\ \/ matches_body(r) /\ Goto(r, "verify")
       \/ Goto(r, "answer_clear")
    /\ UNCHANGED <<now, state, jar, cookie, body, stale, late, sessions>>

\* verify_initial_access, and the comparison of the session id.
Verify(r) ==
    /\ pc[r] = "verify"
    /\ Goto(r, "create") \/ Goto(r, "answer_clear")
    /\ UNCHANGED <<now, state, jar, cookie, body, stale, late, sessions>>

\* The INSERT of create_session; SessionRow has the row.
InsertSession(r) ==
    /\ pc[r] = "create_insert"
    /\ \/ /\ sessions' = [sessions EXCEPT ![body[r]] = @ + 1]
          /\ Wrote(r)
          /\ Goto(r, "created")
       \/ /\ Goto(r, "answer_clear")
          /\ UNCHANGED <<sessions, stale>>
    /\ UNCHANGED <<now, state, jar, cookie, body, late>>

\* The lookup that ends create_session; the policy decides between 200 and 403, both
\* with the session cookie.
Created(r) ==
    /\ pc[r] = "created"
    /\ Goto(r, "answer_session") \/ Goto(r, "answer_clear")
    /\ UNCHANGED <<now, state, jar, cookie, body, stale, late, sessions>>

-----------------------------------------------------------------------------
(* Answers, other writers, time and crashes.                               *)

AnswerPCs == {"login_answer", "answer_clear", "answer_session", "answer_error"}

Rest(r) ==
    /\ pc' = [pc EXCEPT ![r] = "idle"]
    /\ since' = [since EXCEPT ![r] = 0]
    /\ cookie' = [cookie EXCEPT ![r] = None]
    /\ body' = [body EXCEPT ![r] = None]
    /\ late' = [late EXCEPT ![r] = FALSE]
    /\ stale' = [stale EXCEPT ![r] = FALSE]

\* The browser receives an answer: /login sets the cookie, every answer of the callback
\* but a 500 clears it.
Answer(r) ==
    /\ pc[r] \in AnswerPCs
    /\ jar' = CASE pc[r] = "login_answer" -> cookie[r]
                [] pc[r] = "answer_error" -> jar
                [] OTHER -> None
    /\ Rest(r)
    /\ UNCHANGED <<now, state, sessions>>

\* Any other statement of the gateway that writes, such as touch_ready.
OtherWrite ==
    /\ \E r \in Requests : pc[r] = "selected" /\ ~stale[r]
    /\ Wrote(None)
    /\ UNCHANGED <<now, state, jar, pc, cookie, body, since, late, sessions>>

Tick ==
    /\ now < MaxTime
    /\ now' = now + 1
    /\ UNCHANGED <<state, jar, pc, cookie, body, since, stale, late, sessions>>

\* The request is never answered: its process crashes, its open transaction rolls back.
Crash(r) ==
    /\ pc[r] # "idle"
    /\ Rest(r)
    /\ UNCHANGED <<now, state, jar, sessions>>

Next ==
    \/ \E r \in Requests :
          \/ Login(r) \/ Prune(r) \/ LoginInsert(r) \/ Callback(r) \/ Select(r) \/ Consume(r)
          \/ Consumed(r) \/ Verify(r) \/ InsertSession(r) \/ Created(r) \/ Answer(r) \/ Crash(r)
    \/ OtherWrite
    \/ Tick

Spec == Init /\ [][Next]_vars
-----------------------------------------------------------------------------
(* Properties.                                                             *)

\* Every variable of the login flow has its type.
TypeOK ==
    /\ now \in Nat
    /\ state \in [LoginStates -> [st : {"absent", "fresh", "consumed", "deleted"},
                                  expires_at : Nat]]
    /\ jar \in LoginStates \cup {None}
    /\ pc \in [Requests -> PCs]
    /\ cookie \in [Requests -> LoginStates \cup {None}]
    /\ body \in [Requests -> LoginStates \cup {None}]
    /\ since \in [Requests -> Nat]
    /\ stale \in [Requests -> BOOLEAN]
    /\ late \in [Requests -> BOOLEAN]
    /\ sessions \in [LoginStates -> Nat]

\* A callback that arrives when the login state of its cookie has expired, or has been
\* consumed, gets no session, whatever the clock its statements read.
LateCallbackRefused ==
    \A r \in Requests : pc[r] \in {"created", "answer_session"} => ~late[r]

\* Besides the types: one login leads to one session at most, and its state is used up.
\* Two callbacks that select the same login state, a repeated callback, or one repeated
\* after a crash, never both get through consume_login_state, and none that is late does.
OneSessionPerState ==
    /\ TypeOK /\ LateCallbackRefused
    /\ \A s \in LoginStates : /\ sessions[s] <= 1
                              /\ sessions[s] > 0 => state[s].st \in {"consumed", "deleted"}

\* A login state is used up once and never comes back; as long as it is neither used nor
\* expired, no pruning by another tab's login or callback takes it away.
StatesOnlyEnd ==
    [][ \A s \in LoginStates :
            /\ state[s].st # "absent" => state'[s].expires_at = state[s].expires_at
            /\ state[s].st = "fresh" => \/ state'[s].st \in {"fresh", "consumed"}
                                        \/ state[s].expires_at <= now
            /\ state[s].st = "consumed" => state'[s].st \in {"consumed", "deleted"}
            /\ state[s].st = "deleted" => state'[s].st = "deleted" ]_vars
=============================================================================
