---------------------------- MODULE ProxyRequest ----------------------------
(***************************************************************************)
(* One request through the gateway, from its head to the head of the       *)
(* answer: handle_hyper_request, handle_local_request and                  *)
(* handle_proxy_fallback of src/src/server.rs and forward of               *)
(* src/src/proxy.rs.  A step of the model runs from one await of the       *)
(* handler to the next; what the awaited component does (the auth          *)
(* decision, the choice of a transport, the upstream's response) is a      *)
(* choice over everything it may answer.  HttpHead has the rules.          *)
(*                                                                         *)
(* The configuration is read in one place each: proxy mode when the        *)
(* request is routed, the upstream protocol when a transport is chosen.    *)
(***************************************************************************)
EXTENDS HttpHead, FiniteSetsExt

CONSTANTS
    Requests,     \* heads the server may hand to handle_hyper_request
    Replies       \* responses an upstream may send, over HTTP/1 or HTTP/2

\* Over HTTP/1 a request with a transfer-encoding has a body: hyper reads one.
ASSUME RequestsAssumption ==
    \A r \in Requests :
        /\ IsHead(r.head) /\ r.body \in BOOLEAN
        /\ r.version # "HTTP_2" /\ Has(r.head, "transfer-encoding") => r.body

ASSUME RepliesAssumption == \A r \in Replies : IsHead(r.head)

VARIABLES
    req,          \* the request
    pc,           \* the await the handler is at
    decision,     \* the auth decision, "none" before there is one
    protocol,     \* the protocol of the selected transport
    sent,         \* the head sent upstream, the empty head before
    reply,        \* the upstream's response
    answer        \* the answer given to the server

vars == <<req, pc, decision, protocol, sent, reply, answer>>

EmptyHead == [n \in {} |-> <<>>]

NoReply  == [status |-> 0, version |-> "none", body |-> FALSE, head |-> EmptyHead]
NoAnswer == [status |-> 0, head |-> EmptyHead, tunnel |-> FALSE]

OWNED_PATHS ==
    {"/healthz", "/login", "/auth/callback", "/auth/callback/session", "/auth/check",
     "/logout"}

\* The cookies the gateway sets itself.
Renewal      == <<"amg_session", "renewal">>
ClearSession == <<"amg_session", "clear">>
NewSession   == <<"amg_session", "new">>
LoginState   == <<"amg_login_state", "new">>
ClearState   == <<"amg_login_state", "clear">>

-----------------------------------------------------------------------------
(* Reading the request.                                                    *)

request_has_body(r) ==
    \/ r.body
    \/ Lines(r.head, "content-length") \notin {<<>>, << <<"0">> >>}
    \/ Has(r.head, "transfer-encoding")

validate_expect(r) ==
    Has(r.head, "expect") =>
        /\ Lines(r.head, "expect") = << <<"100-continue">> >>
        /\ r.version = "HTTP_11" /\ request_has_body(r)

\* Whether public_authority has an answer, and the answer.
public_authority_known(r) ==
    IF r.version # "HTTP_2" THEN exactly_one(r.head, "host")
    ELSE r.authority # "none" /\ Lines(r.head, "host") \in {<<>>, << <<r.authority>> >>}

public_authority(r) == IF r.version # "HTTP_2" THEN r.head["host"][1] ELSE <<r.authority>>

validate_ordinary_h2_request(r) ==
    /\ r.scheme \in {"http", "https"} /\ r.authority # "none" /\ r.path \notin {"none", "*"}
    /\ public_authority_known(r)

\* Over HTTP/2 every cookie line must be readable, over HTTP/1 the first
\* unreadable one counts as no cookie.
proxy_auth_cookie(r) == r.version = "HTTP_2" => "opaque" \notin Elements(r.head, "cookie")

classify_fallback_target(r) ==
    /\ r.path \notin {"*", "none"}
    /\ IF r.version = "HTTP_2" THEN r.scheme \in {"http", "https"} /\ r.authority # "none"
       ELSE IF r.scheme # "none" THEN r.scheme \in {"http", "https"}
       ELSE r.authority = "none"

\* A path with unsafe bytes, a second leading slash or a fragment.
normalize_return_target(path) == path # "//unsafe"

derive_client_ip_known(r) ==
    r.trusted_peer /\ Has(r.head, "x-forwarded-for") =>
        Lines(r.head, "x-forwarded-for") = << <<"client ip">> >>

derive_client_ip(r) ==
    IF r.trusted_peer /\ Has(r.head, "x-forwarded-for")
    THEN r.head["x-forwarded-for"][1] ELSE <<"peer ip">>

\* What the gateway adds to a forwarded head.
From(r) ==
    [authority |-> public_authority(r), client_ip |-> derive_client_ip(r),
     proto |-> <<"https">>, user |-> <<"user">>]

-----------------------------------------------------------------------------
(* Answers.                                                                *)

WithCookies(head, cookies) ==
    IF cookies = <<>> THEN head
    ELSE [n \in DOMAIN head \cup {"set-cookie"} |->
             IF n = "set-cookie" THEN cookies ELSE head[n]]

WithClose(head, close) == IF close THEN Insert(head, "connection", <<"close">>) ELSE head

finish_downstream_response(head, version) ==
    IF version = "HTTP_2" THEN Without(head, HopHeaders) ELSE head

\* The handler returns; the server finishes the answer for the request's
\* version.
Return(status, head, tunnel) ==
    /\ answer' = [status |-> status,
                  head   |-> finish_downstream_response(head, req.version),
                  tunnel |-> tunnel]
    /\ pc' = "answered"

generated_response(status, close, cookies) ==
    Return(status, WithClose(WithCookies(EmptyHead, cookies), close), FALSE)

local_into_hyper(status, close, cookies) ==
    Return(status, WithClose(WithCookies(EmptyHead, cookies), close), FALSE)

\* The first of a list of checks that fails: its status and close flag.
FirstFailure(checks) ==
    LET failed == {i \in DOMAIN checks : ~checks[i][1]}
    IN  IF failed = {} THEN <<0, FALSE>>
        ELSE LET i == Min(failed) IN <<checks[i][2], checks[i][3]>>

-----------------------------------------------------------------------------
(* The handlers.                                                           *)

websocket == parse_websocket_request(req)

body_bearing == request_has_body(req)

Owned(r) == r.path \in OWNED_PATHS

Init ==
    /\ req \in Requests
    /\ pc = "received" /\ decision = "none" /\ protocol = "none"
    /\ sent = EmptyHead /\ reply = NoReply /\ answer = NoAnswer

\* handle_hyper_request: what is refused before the request is routed.
Refuse ==
    /\ pc = "received" /\ req.version = "HTTP_2"
    /\ \/ /\ req.method # "CONNECT" /\ ~validate_ordinary_h2_request(req)
          /\ generated_response(400, TRUE, <<>>)
       \/ /\ req.method = "CONNECT" /\ Owned(req)
          /\ generated_response(IF websocket = "bad_request" THEN 400 ELSE 405, TRUE, <<>>)
    /\ UNCHANGED <<req, decision, protocol, sent, reply>>

\* The server hands the request to handle_local_request or, in proxy mode, to
\* handle_proxy_fallback.
Routed ==
    /\ pc = "received"
    /\ req.version = "HTTP_2" =>
           IF req.method = "CONNECT" THEN ~Owned(req) ELSE validate_ordinary_h2_request(req)

\* Runs the checks, and goes on to next if all hold.
Check(checks, next) ==
    LET failure == FirstFailure(checks)
    IN  IF failure[1] = 0 THEN pc' = next /\ UNCHANGED answer
        ELSE generated_response(failure[1], failure[2], <<>>)

handle_local_request(proxy_mode) ==
    /\ Routed /\ (Owned(req) \/ ~proxy_mode)
    /\ Check(<< <<proxy_auth_cookie(req), 400, TRUE>>,
                <<validate_expect(req), 417, TRUE>>,
                <<Lines(req.head, "content-length") # << <<"huge">> >>, 400, TRUE>> >>,
             IF Owned(req) THEN "local" ELSE "adapter")
    /\ UNCHANGED <<req, decision, protocol, sent, reply>>

handle_proxy_fallback ==
    /\ Routed /\ ~Owned(req)
    /\ Check(<< <<DOMAIN req.head \cap {"x_auth_mini_user_id"} = {}, 400, TRUE>>,
                <<websocket # "bad_request", 400, TRUE>>,
                <<websocket # "method_not_allowed", 405, TRUE>>,
                <<classify_fallback_target(req), 400, TRUE>>,
                <<public_authority_known(req), 400, TRUE>>,
                <<normalize_return_target(req.path), 400, body_bearing>>,
                <<validate_expect(req), 417, TRUE>>,
                <<derive_client_ip_known(req), 400, TRUE>>,
                <<proxy_auth_cookie(req), 400, TRUE>> >>,
             "auth")
    /\ UNCHANGED <<req, decision, protocol, sent, reply>>

\* The body of a local request is larger than MAX_LOCAL_BODY or breaks off.
CollectFails ==
    /\ pc \in {"local", "adapter"} /\ req.body /\ ~Has(req.head, "transfer-encoding")
    /\ generated_response(400, TRUE, <<>>)
    /\ UNCHANGED <<req, decision, protocol, sent, reply>>

AdapterFallback ==
    /\ pc = "adapter" /\ local_into_hyper(404, body_bearing, <<>>)
    /\ UNCHANGED <<req, decision, protocol, sent, reply>>

\* Request::new takes the path of an HTTP/1 target as it was written, an
\* absolute target matches no route.
route(r) ==
    <<r.method, IF r.version # "HTTP_2" /\ r.scheme # "none" THEN "absolute" ELSE r.path>>

\* The statuses and cookies of handle_request's answers, /auth/check apart.
handle_request(r) ==
    CASE route(r) = <<"GET", "/healthz">> -> {<<204, <<>>>>}
      [] route(r) = <<"GET", "/auth/callback">> -> {<<200, <<>>>>}
      [] route(r) = <<"GET", "/login">> -> {<<302, <<LoginState>>>>, <<400, <<>>>>}
      [] route(r) = <<"POST", "/auth/callback/session">> ->
            {<<s, <<ClearState>>>> : s \in {400, 401}}
                \cup {<<s, <<ClearState, NewSession>>>> : s \in {200, 403}}
      [] route(r) \in {<<"GET", "/logout">>, <<"POST", "/logout">>} ->
            {<<302, <<ClearSession>>>>}
      [] OTHER -> {<<404, <<>>>>}

Blocking ==
    {<<"GET", "/login">>, <<"POST", "/auth/callback/session">>, <<"GET", "/auth/check">>,
     <<"GET", "/logout">>, <<"POST", "/logout">>}

LocalAnswer ==
    /\ pc = "local" /\ route(req) # <<"GET", "/auth/check">>
    /\ \E a \in handle_request(req) : local_into_hyper(a[1], body_bearing, a[2])
    /\ UNCHANGED <<req, decision, protocol, sent, reply>>

\* The executor is full, or the closure fails or panics.
LocalFails ==
    /\ pc = "local" /\ route(req) \in Blocking
    /\ \E status \in {503, 500} : local_into_hyper(status, body_bearing, <<>>)
    /\ UNCHANGED <<req, decision, protocol, sent, reply>>

Decisions == {"allow", "renewed", "unauthenticated", "forbidden", "unavailable"}

renewal(d) == IF d = "renewed" THEN <<Renewal>> ELSE <<>>

handle_auth_check ==
    /\ pc = "local" /\ route(req) = <<"GET", "/auth/check">>
    /\ \E d \in Decisions :
          /\ decision' = d
          /\ CASE d \in {"allow", "renewed"} ->
                    Return(204, WithClose(WithCookies(
                               Insert(EmptyHead, "x-auth-mini-user-id", <<"user">>),
                               renewal(d)), body_bearing), FALSE)
               [] d = "unauthenticated" ->
                    local_into_hyper(401, body_bearing, <<ClearSession>>)
               [] d = "forbidden" -> local_into_hyper(403, body_bearing, <<>>)
               [] d = "unavailable" -> local_into_hyper(503, body_bearing, <<>>)
    /\ UNCHANGED <<req, protocol, sent, reply>>

\* execute_proxy_auth, and what handle_proxy_fallback makes of its result.  An
\* unauthenticated request is sent to log in, unless building that answer
\* fails; the session cookie is cleared either way.
execute_proxy_auth ==
    /\ pc = "auth"
    /\ \E d \in Decisions :
          /\ decision' = d
          /\ CASE d \in {"allow", "renewed"} -> pc' = "select" /\ UNCHANGED answer
               [] d = "unauthenticated" ->
                    \/ local_into_hyper(302, body_bearing, <<ClearSession, LoginState>>)
                    \/ generated_response(500, body_bearing, <<ClearSession>>)
               [] d = "forbidden" -> generated_response(403, body_bearing, <<>>)
               [] d = "unavailable" -> generated_response(503, body_bearing, <<>>)
    /\ UNCHANGED <<req, protocol, sent, reply>>

\* The executor is full, or the decision panics: there is no decision.
proxy_auth_execution_error ==
    /\ pc = "auth"
    /\ \E status \in {503, 500} : generated_response(status, body_bearing, <<>>)
    /\ UNCHANGED <<req, decision, protocol, sent, reply>>

\* forward returns an error; the answer still renews the cookie.
ForwardError_Mutant(status) == generated_response(status, body_bearing, <<>>)

ForwardError(status) == generated_response(status, body_bearing, renewal(decision))

\* The protocol of a new transport: of the configured one, "Auto" only over
\* TLS, and of what ALPN negotiated, "none" in clear text.
select_actual_protocol(configured, tls, alpn) ==
    CASE ~tls -> configured
      [] tls /\ configured = "Http1" -> IF alpn = "none" THEN "Http1" ELSE "error"
      [] tls /\ configured = "Http2" -> IF alpn = "h2" THEN "Http2" ELSE "error"
      [] tls /\ configured = "Auto" ->
            CASE alpn = "h2" -> "Http2"
              [] alpn \in {"http/1.1", "none"} -> "Http1"
              [] OTHER -> "error"

\* No permit, no resolver slot, no connection, or no randomness for a key.
SelectFails ==
    /\ pc = "select"
    /\ \E status \in {503, 502, 500} : ForwardError(status)
    /\ UNCHANGED <<req, decision, protocol, sent, reply>>

\* A transport is selected and ready.  A WebSocket request is not sent over an
\* HTTP/2 connection whose peer did not enable extended CONNECT.
forward_send ==
    /\ pc = "select"
    /\ \E tls \in BOOLEAN, configured \in {"Auto", "Http1", "Http2"},
          alpn \in {"none", "h2", "http/1.1", "other"}, extended_connect \in BOOLEAN :
          LET p == select_actual_protocol(configured, tls, alpn)
              plain == sanitize_request_headers(req.head, From(req), websocket # "none", p)
              key == prepare_websocket(websocket, p)
          IN  /\ ~tls => configured # "Auto" /\ alpn = "none"
              /\ IF p = "error"
                    \/ (websocket # "none" /\ p = "Http2" /\ ~extended_connect)
                 THEN ForwardError(502) /\ UNCHANGED <<protocol, sent>>
                 ELSE /\ protocol' = p
                      /\ sent' = IF websocket = "none" \/ key = "none" THEN plain
                                 ELSE Insert(plain, "sec-websocket-key", <<key>>)
                      /\ pc' = "dispatch" /\ UNCHANGED answer
    /\ UNCHANGED <<req, decision, reply>>

\* The exchange fails before a response head, or the generation is revoked.
DispatchFails ==
    /\ pc = "dispatch"
    /\ \E status \in {502, 500} : ForwardError(status)
    /\ UNCHANGED <<req, decision, protocol, sent, reply>>

VersionsOf(p) == IF p = "Http2" THEN {"HTTP_2"} ELSE {"HTTP_10", "HTTP_11"}

\* The response head arrives.  The upload may be incomplete only if the request
\* had a body.
forward_reply ==
    /\ pc = "dispatch"
    /\ \E r \in Replies, upload_complete \in BOOLEAN :
          /\ r.version \in VersionsOf(protocol) /\ (upload_complete \/ req.body)
          /\ reply' = r
          /\ IF websocket # "none"
             THEN IF validate_websocket_upstream_response(r, req.head, websocket, protocol)
                  THEN Return(IF websocket = "Http1" THEN 101 ELSE 200,
                              sanitize_websocket_response_head(
                                  r.head, renewal(decision), websocket),
                              TRUE)
                  ELSE ForwardError(502)
             ELSE IF r.status = 101 \/ ~connection_tokens_parse(r.head) THEN ForwardError(502)
             ELSE Return(r.status,
                         WithClose(sanitize_response_head(r.head, renewal(decision)),
                                   body_bearing \/ ~upload_complete),
                         FALSE)
    /\ UNCHANGED <<req, decision, protocol, sent>>

Next ==
    \/ Refuse \/ handle_proxy_fallback
    \/ \E proxy_mode \in BOOLEAN : handle_local_request(proxy_mode)
    \/ CollectFails \/ AdapterFallback \/ LocalAnswer \/ LocalFails \/ handle_auth_check
    \/ execute_proxy_auth \/ proxy_auth_execution_error
    \/ SelectFails \/ forward_send \/ DispatchFails \/ forward_reply

Spec == Init /\ [][Next]_vars

-----------------------------------------------------------------------------
(* Properties.                                                             *)

OwnHeaders == {"host"} \cup AuthMiniPrefixed \cup ForwardedPrefixed

\* Whatever a client writes into its head, and whichever headers it nominates
\* in Connection, the upstream receives the identity, the addresses and the
\* host the gateway inserted, no credential and no hop-by-hop header of the
\* client, and every other header exactly as the client sent it (forward with
\* sanitize_request_headers, over both protocols).
ForwardedHead ==
    pc = "dispatch" \/ reply # NoReply =>
        LET tunnel    == websocket # "none"
            nominated == parse_connection_tokens(req.head)
            removed   == OwnHeaders \cup HopHeaders \cup ClientOnly \cup {"sec-websocket-key"}
        IN  /\ \A n \in OwnHeaders :
                  Lines(sent, n) =
                      CASE n = "host" /\ protocol = "Http1" -> <<public_authority(req)>>
                        [] n = "x-forwarded-host" -> <<public_authority(req)>>
                        [] n = "x-forwarded-for" -> <<derive_client_ip(req)>>
                        [] n = "x-forwarded-proto" -> << <<"https">> >>
                        [] n = "x-auth-mini-user-id" -> << <<"user">> >>
                        [] OTHER -> <<>>
            /\ DOMAIN sent \cap (HopHeaders \cup ClientOnly) =
                  IF tunnel /\ protocol = "Http1" THEN {"connection", "upgrade"} ELSE {}
            /\ Has(sent, "sec-websocket-key") <=> tunnel /\ protocol = "Http1"
            /\ Without(sent, removed) = Without(req.head, removed \cup nominated)

\* A tunnel is opened only for an allowed request that was a handshake of its
\* HTTP version, after the upstream has completed the handshake it was itself
\* sent; the client is answered in its own version, with the accept value of
\* its own key over HTTP/1, and with a subprotocol and extensions it offered.
\* No other answer switches protocols (forward, over the four bridges).
TunnelOnlyByHandshake ==
    /\ answer.tunnel =>
          /\ decision \in {"allow", "renewed"}
          /\ <<req.version, websocket>> \in {<<"HTTP_11", "Http1">>, <<"HTTP_2", "Http2">>}
          /\ IF protocol = "Http1"
             THEN /\ reply.status = 101
                  /\ Lines(reply.head, "sec-websocket-accept") =
                         << <<websocket_accept(sent["sec-websocket-key"][1][1])>> >>
             ELSE reply.status = 200
          /\ IF req.version = "HTTP_11"
             THEN /\ answer.status = 101
                  /\ Lines(answer.head, "connection") = << <<"upgrade">> >>
                  /\ Lines(answer.head, "upgrade") = << <<"websocket">> >>
                  /\ Lines(answer.head, "sec-websocket-accept") =
                         << <<websocket_accept(req.head["sec-websocket-key"][1][1])>> >>
             ELSE answer.status = 200 /\ ~Has(answer.head, "sec-websocket-accept")
          /\ \A n \in {"sec-websocket-protocol", "sec-websocket-extensions"} :
                Elements(answer.head, n) \subseteq Elements(req.head, n)
    /\ answer.status = 101 => answer.tunnel

OwnCookies(head) ==
    {line \in Range(Lines(head, "set-cookie")) : line[1] \in {"amg_session", "amg_login_state"}}

\* On every path, errors included, the answer carries the session cookie the
\* auth decision asked for (a touched session's new deadline, or its removal)
\* and no session or login cookie of anyone else's; it has no hop-by-hop header
\* of the upstream's; and an HTTP/1 connection whose request body may be unread
\* is closed (auth_decision, forward, generated_response,
\* finish_downstream_response).
AnswerHead ==
    pc = "answered" =>
        /\ decision # "none" =>
              OwnCookies(answer.head) \in
                  CASE decision = "renewed" -> {{Renewal}}
                    [] decision = "unauthenticated" ->
                          {{ClearSession}, {ClearSession, LoginState}}
                    [] OTHER -> {{}}
        /\ decision = "none" /\ ~Owned(req) => OwnCookies(answer.head) = {}
        /\ DOMAIN answer.head \cap HopHeaders \subseteq
              IF req.version = "HTTP_2" THEN {}
              ELSE IF answer.tunnel THEN {"connection", "upgrade"} ELSE {"connection"}
        /\ ~answer.tunnel /\ Has(answer.head, "connection") =>
              Lines(answer.head, "connection") = << <<"close">> >>
        /\ req.version # "HTTP_2" /\ (req.body \/ Has(req.head, "transfer-encoding")) =>
              Lines(answer.head, "connection") = << <<"close">> >>
=============================================================================
