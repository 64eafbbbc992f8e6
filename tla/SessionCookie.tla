--------------------------- MODULE SessionCookie ---------------------------
(***************************************************************************)
(* The session cookie of one browser with several tabs: the answers of     *)
(* auth_decision, the callback and logout that set or clear it             *)
(* (src/src/server.rs, src/src/cookies.rs), and the delays and overtaking  *)
(* of these answers, most of which wait for an upstream first.  The row    *)
(* is in SessionRow, the decision in AuthSession; here a decision is one   *)
(* step on the deadlines of the row, or two if it moves them.              *)
(***************************************************************************)
EXTENDS Naturals

CONSTANTS
    Tabs,          \* requests of the browser
    Sessions,      \* ids that create_session may draw
    IdleTTL,       \* config.session_ttl_seconds
    AbsoluteTTL,   \* config.session_absolute_ttl_seconds
    NULL,
    LastSecond     \* bound: last value of the clock

ASSUME SessionCookieAssumption ==
    /\ {NULL, "nothing"} \cap Sessions = {}
    /\ IdleTTL \in Nat /\ AbsoluteTTL \in Nat

VARIABLES
    second,    \* the clock, of the gateway and of the browser
    row,       \* deadlines of each session
    held,      \* the cookie in the browser
    carried,   \* the session whose cookie each request has carried
    touch,     \* what touch_ready has read, before it writes
    reply,     \* the Set-Cookie of its answer, which is on its way
    ended      \* history: sessions that have been revoked or have lapsed

cookieVars == <<second, row, held, carried, touch, reply, ended>>

NoSession == [st |-> "absent", idle |-> 0, absolute |-> 0]

Reply(kind, id, expires) == [kind |-> kind, id |-> id, expires |-> expires]
NoReply   == Reply("none", NULL, 0)      \* nothing is decided yet
Unchanged == Reply("unchanged", NULL, 0)

CookieInit ==
    /\ second = 0
    /\ row = [s \in Sessions |-> NoSession]
    /\ held = NULL
    /\ carried = [t \in Tabs |-> "nothing"]
    /\ touch = [t \in Tabs |-> NULL]
    /\ reply = [t \in Tabs |-> NoReply]
    /\ ended = {}

Earlier(a, b) == IF a <= b THEN a ELSE b
is_active(r) == r.st = "live" /\ second < r.idle

\* Recorded with every step.
Endings == ended' = ended \cup {s \in Sessions : /\ row'[s].st # "absent"
                                                 /\ row'[s].st = "over" \/ row'[s].idle <= second'}

\* A Set-Cookie has the session and an absolute time, which is the deadline of the row.
serialize_signed_cookie_Mutant(s, r) == Reply("set", s, second + IdleTTL)

serialize_signed_cookie(s, r) == Reply("set", s, r.idle)
clear_cookie == Reply("clear", NULL, 0)

-----------------------------------------------------------------------------
\* A request leaves the browser with the cookie it has.
Send(t) ==
    /\ carried[t] = "nothing"
    /\ carried' = [carried EXCEPT ![t] = IF held = NULL THEN NULL ELSE held.id]
    /\ UNCHANGED <<second, row, held, touch, reply>>

Decides(t, cookie) ==
    /\ carried[t] # "nothing" /\ touch[t] = NULL /\ reply[t] = NoReply
    /\ reply' = [reply EXCEPT ![t] = cookie]

\* auth_decision without a session, with one that is over, or with one auth-mini rejects.
Unauthenticated(t) ==
    LET s == carried[t]
    IN  /\ Decides(t, clear_cookie)
        /\ \/ s = NULL /\ UNCHANGED row
           \/ s # NULL /\ ~is_active(row[s]) /\ UNCHANGED row
           \/ s # NULL /\ is_active(row[s]) /\ row' = [row EXCEPT ![s].st = "over"]
    /\ UNCHANGED <<second, held, carried, touch>>

\* It allows the request; the session has been read while it was active.
Allow(t) ==
    LET s == carried[t]
    IN  s \in Sessions /\ is_active(row[s]) /\ Decides(t, Unchanged)
    /\ UNCHANGED <<second, row, held, carried, touch>>

\* touch_ready is due and would move the deadline: it has the session and the time, ...
touch_ready(t) ==
    LET s == carried[t]
        candidate == Earlier(second + IdleTTL, row[s].absolute)
    IN  /\ s \in Sessions /\ touch[t] = NULL /\ reply[t] = NoReply
        /\ is_active(row[s]) /\ candidate > row[s].idle
        /\ touch' = [touch EXCEPT ![t] = [idle |-> row[s].idle, candidate |-> candidate]]
    /\ UNCHANGED <<second, row, held, carried, reply>>

\* ... and writes if nobody has written meanwhile: the cookie is renewed.  Otherwise (a
\* refresh may have changed the row, too) auth_decision starts again.
Touched(t) ==
    LET s == carried[t]
    IN  /\ touch[t] # NULL
        /\ touch' = [touch EXCEPT ![t] = NULL]
        /\ \/ /\ row[s].st = "live" /\ row[s].idle = touch[t].idle
              /\ row' = [row EXCEPT ![s].idle = touch[t].candidate]
              /\ reply' = [reply EXCEPT ![t] = serialize_signed_cookie(s, row'[s])]
           \/ UNCHANGED <<row, reply>>
    /\ UNCHANGED <<second, held, carried>>

\* It forbids the request, or cannot tell (503): the cookie stays.
Unavailable_Mutant(t) ==
    /\ Decides(t, clear_cookie)
    /\ UNCHANGED <<second, row, held, carried, touch>>

Unavailable(t) ==
    /\ Decides(t, Unchanged)
    /\ UNCHANGED <<second, row, held, carried, touch>>

\* handle_callback_session creates a session, whatever cookie the request has carried.
callback(t) ==
    /\ \E s \in Sessions :
          /\ row[s].st = "absent"
          /\ row' = [row EXCEPT ![s] = [st |-> "live", absolute |-> second + AbsoluteTTL,
                                        idle |-> Earlier(second + IdleTTL, second + AbsoluteTTL)]]
          /\ Decides(t, serialize_signed_cookie(s, row'[s]))
    /\ UNCHANGED <<second, held, carried, touch>>

\* handle_logout revokes the session of the cookie and clears it; a failure is a 500, which
\* is Unavailable here.
logout(t) ==
    /\ Decides(t, clear_cookie)
    /\ row' = IF carried[t] \in Sessions THEN [row EXCEPT ![carried[t]].st = "over"] ELSE row
    /\ UNCHANGED <<second, held, carried, touch>>

-----------------------------------------------------------------------------
\* An answer arrives, in any order, or never; the browser does what it says.
Arrive(t) ==
    /\ reply[t] # NoReply
    /\ \/ held' = held
       \/ reply[t].kind \in {"set", "clear"}
          /\ held' = IF reply[t].expires <= second THEN NULL ELSE reply[t]
    /\ carried' = [carried EXCEPT ![t] = "nothing"]
    /\ reply' = [reply EXCEPT ![t] = NoReply]
    /\ UNCHANGED <<second, row, touch>>

\* The browser drops a cookie that has expired.
CookieTick ==
    /\ second < LastSecond
    /\ second' = second + 1
    /\ held' = IF held # NULL /\ held.expires <= second' THEN NULL ELSE held
    /\ UNCHANGED <<row, carried, touch, reply>>

CookieNext ==
    /\ \/ \E t \in Tabs : \/ Send(t) \/ Unauthenticated(t) \/ Allow(t) \/ touch_ready(t)
                          \/ Touched(t) \/ Unavailable(t) \/ callback(t) \/ logout(t) \/ Arrive(t)
       \/ CookieTick
    /\ Endings

CookieSpec == CookieInit /\ [][CookieNext]_cookieVars
-----------------------------------------------------------------------------
(* Properties.                                                             *)

\* The browser never holds a cookie for longer than the gateway honours it: however long an
\* answer waits for the upstream, and whichever answer comes last, the cookie's time is no
\* later than the row's deadlines.
CookieNeverOutlivesRow ==
    held # NULL => held.expires <= row[held.id].idle /\ held.expires <= row[held.id].absolute

\* A browser with the cookie of a session that has never ended loses it only to the answer
\* of a request with another cookie, such as one sent before the login, or to a Set-Cookie
\* so late that it has expired (an answer the upstream has held back): neither an outage nor
\* a refusal of the session's own requests takes it away.
GoodCookieStays ==
    [][ held # NULL /\ held' = NULL /\ second' = second /\ held.id \notin ended =>
           \E t \in Tabs : /\ reply[t] # NoReply /\ reply'[t] = NoReply
                           /\ reply[t].kind = "set" \/ carried[t] # held.id ]_cookieVars
=============================================================================
