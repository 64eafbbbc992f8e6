------------------------------ MODULE HttpHead ------------------------------
(***************************************************************************)
(* The rules of src/src/proxy.rs about the heads of requests and           *)
(* responses: which requests are WebSocket handshakes, what is removed     *)
(* from a head and put into it on the way to the upstream and back, and    *)
(* which upstream responses complete a handshake.                          *)
(*                                                                         *)
(* A head is a function from the header names it has to the lines they     *)
(* have; a line is the sequence of its comma-separated elements.  Names    *)
(* are the real ones, in lower case.  An element is an abstract word:      *)
(* "opaque" stands for bytes to_str() refuses, "not token" for text that   *)
(* is no token (for an extension: whose name or parameters do not parse),  *)
(* "" for an empty element.  The first element of a set-cookie line is the *)
(* cookie's name.                                                          *)
(*                                                                         *)
(* An operator X_Mutant is X with a mistake; no specification uses it.  It *)
(* documents which mistake the properties of the project would notice.     *)
(***************************************************************************)
EXTENDS Naturals, Sequences, FiniteSets, Functions

\* A head is a function from names to sequences of lines.
IsHead(head) ==
    /\ head = [n \in DOMAIN head |-> head[n]]
    /\ \A n \in DOMAIN head : head[n] \in Seq(Seq(STRING))

Has(head, name) == name \in DOMAIN head

Lines(head, name) == IF Has(head, name) THEN head[name] ELSE <<>>

Elements(head, name) == UNION {Range(line) : line \in Range(Lines(head, name))}

Without(head, names) == Restrict(head, DOMAIN head \ names)

\* HeaderMap::insert: one line, in place of all earlier ones.
Insert(head, name, line) ==
    [n \in DOMAIN head \cup {name} |-> IF n = name THEN <<line>> ELSE head[n]]

NotToken == {"", "opaque", "not token"}

Distinct(head, name) ==
    LET lines == Lines(head, name)
    IN  \A i, j \in DOMAIN lines : \A k \in DOMAIN lines[i], l \in DOMAIN lines[j] :
            lines[i][k] = lines[j][l] => i = j /\ k = l

exactly_one(head, name) == Len(Lines(head, name)) = 1

parse_connection_tokens(head) == Elements(head, "connection")

connection_tokens_parse(head) == parse_connection_tokens(head) \cap NotToken = {}

HopHeaders ==
    {"connection", "keep-alive", "proxy-connection", "proxy-authenticate",
     "proxy-authorization", "te", "trailer", "transfer-encoding", "upgrade"}

\* The names remove_prefixed finds: representatives of each prefix.
AuthMiniPrefixed  == {"x-auth-mini-user-id", "x-auth-mini-email"}
ForwardedPrefixed ==
    {"x-forwarded-for", "x-forwarded-proto", "x-forwarded-host", "x-forwarded-port"}

-----------------------------------------------------------------------------
(* WebSocket requests.                                                     *)

HandshakeHeaders ==
    {"sec-websocket-key", "sec-websocket-version", "sec-websocket-protocol",
     "sec-websocket-extensions"}

websocket_handshake_headers_present(head) ==
    (HandshakeHeaders \cup {"sec-websocket-accept"}) \cap DOMAIN head # {}

parse_protocols(head) == Elements(head, "sec-websocket-protocol")

protocols_parse(head) ==
    parse_protocols(head) \cap NotToken = {} /\ Distinct(head, "sec-websocket-protocol")

parse_extensions(head) == Elements(head, "sec-websocket-extensions")

extensions_parse(head) ==
    parse_extensions(head) \cap NotToken = {} /\ Distinct(head, "sec-websocket-extensions")

validate_websocket_origin(head) ==
    Has(head, "origin") =>
        /\ exactly_one(head, "origin")
        /\ head["origin"][1] \in {<<"null">>, <<"https://app">>}

\* Every content length of the request is a number, all are equal and zero.
validate_h2_websocket_content_length(head) == Elements(head, "content-length") \subseteq {"0"}

validate_h2_websocket_request(r) ==
    /\ r.scheme \in {"http", "https"} /\ r.authority # "none" /\ r.path \notin {"none", "*"}
    /\ ~r.body
    /\ validate_h2_websocket_content_length(r.head)
    /\ DOMAIN r.head \cap
           {"host", "connection", "upgrade", "keep-alive", "proxy-connection",
            "transfer-encoding", "te", "trailer", "sec-websocket-key",
            "sec-websocket-accept"} = {}
    /\ Lines(r.head, "sec-websocket-version") = << <<"13">> >>
    /\ validate_websocket_origin(r.head)
    /\ protocols_parse(r.head) /\ extensions_parse(r.head)

\* The HTTP/1 handshake, once the head has an upgrade header or token.
H1Handshake(r) ==
    /\ "upgrade" \in parse_connection_tokens(r.head)
    /\ parse_connection_tokens(r.head) \cap (HandshakeHeaders \cup {"origin"})
           \cap DOMAIN r.head = {}
    /\ ~Has(r.head, "sec-websocket-accept")
    /\ Lines(r.head, "upgrade") = << <<"websocket">> >>
    /\ r.method = "GET" /\ r.version = "HTTP_11" /\ ~r.body
    /\ Lines(r.head, "sec-websocket-version") = << <<"13">> >>
    /\ Lines(r.head, "sec-websocket-key") = << <<"client key">> >>
    /\ validate_websocket_origin(r.head)
    /\ protocols_parse(r.head) /\ extensions_parse(r.head)

parse_websocket_request(r) ==
    CASE r.method = "CONNECT" /\ (r.version # "HTTP_2" \/ r.protocol # "websocket") ->
            "method_not_allowed"
      [] r.method = "CONNECT" /\ r.version = "HTTP_2" /\ r.protocol = "websocket" ->
            IF validate_h2_websocket_request(r) THEN "Http2" ELSE "bad_request"
      [] r.method # "CONNECT" /\ r.protocol # "none" -> "method_not_allowed"
      [] r.method # "CONNECT" /\ r.protocol = "none" ->
            IF ~connection_tokens_parse(r.head) THEN "bad_request"
            ELSE IF "upgrade" \notin parse_connection_tokens(r.head)
                    /\ ~Has(r.head, "upgrade")
            THEN IF websocket_handshake_headers_present(r.head) THEN "bad_request" ELSE "none"
            ELSE IF H1Handshake(r) THEN "Http1" ELSE "bad_request"

\* The key of the handshake sent upstream; "none" over HTTP/2.
prepare_websocket(websocket, protocol) ==
    IF protocol = "Http2" THEN "none"
    ELSE IF websocket = "Http1" THEN "client key" ELSE "generated key"

\* SHA-1 of the key and a fixed GUID: different keys, different values.
websocket_accept(key) == "accept of " \o key

-----------------------------------------------------------------------------
(* The head sent upstream.                                                 *)

ClientOnly ==
    {"content-length", "cookie", "authorization", "forwarded", "x-real-ip", "expect"}

\* What sanitize_request_headers inserts once the client's own are removed;
\* from is what the gateway knows of the request: the authority, the client's
\* address, the public scheme and the user.
insert_own_headers(head, from, websocket, protocol) ==
    LET hosted == IF protocol = "Http1" THEN Insert(head, "host", from.authority)
                  ELSE Without(head, {"host"})
        named == Insert(Insert(Insert(Insert(hosted,
                     "x-forwarded-for", from.client_ip),
                     "x-forwarded-proto", from.proto),
                     "x-forwarded-host", from.authority),
                     "x-auth-mini-user-id", from.user)
    IN  IF ~websocket THEN named
        ELSE IF protocol = "Http1"
        THEN Insert(Insert(named, "connection", <<"upgrade">>), "upgrade", <<"websocket">>)
        ELSE Without(named, {"sec-websocket-key", "sec-websocket-accept"})

\* The nominated headers are removed after the gateway's own are inserted.
sanitize_request_headers_Mutant(head, from, websocket, protocol) ==
    Without(insert_own_headers(
                Without(head, HopHeaders \cup ClientOnly \cup AuthMiniPrefixed
                                  \cup ForwardedPrefixed),
                from, websocket, protocol),
            parse_connection_tokens(head))

sanitize_request_headers(head, from, websocket, protocol) ==
    insert_own_headers(
        Without(head, parse_connection_tokens(head) \cup HopHeaders \cup ClientOnly
                          \cup AuthMiniPrefixed \cup ForwardedPrefixed),
        from, websocket, protocol)

-----------------------------------------------------------------------------
(* The upstream's response.                                                *)

is_allowed_application_cookie(line) ==
    line[1] \notin NotToken \cup {"amg_session", "amg_login_state"}

\* The set-cookie lines that are kept, in their order: kept[i] has those of
\* the first i lines.
filter_application_cookies(lines) ==
    LET kept[i \in 0 .. Len(lines)] ==
            IF i = 0 THEN <<>>
            ELSE IF is_allowed_application_cookie(lines[i]) THEN Append(kept[i - 1], lines[i])
            ELSE kept[i - 1]
    IN  kept[Len(lines)]

\* renewal is the sequence of set-cookie lines the auth decision asked for.
sanitize_response_head(head, renewal) ==
    LET stripped == Without(head, parse_connection_tokens(head) \cup HopHeaders
                                      \cup {"content-length"} \cup AuthMiniPrefixed)
        cookies  == filter_application_cookies(Lines(stripped, "set-cookie")) \o renewal
        plain    == Without(stripped, {"set-cookie"})
    IN  IF cookies = <<>> THEN plain
        ELSE [n \in DOMAIN plain \cup {"set-cookie"} |->
                 IF n = "set-cookie" THEN cookies ELSE plain[n]]

\* At most one subprotocol, among those the request offered, and no extension
\* the request did not offer.
validate_websocket_response_selections(head, request) ==
    /\ Has(head, "sec-websocket-protocol") =>
          /\ exactly_one(head, "sec-websocket-protocol")
          /\ Len(head["sec-websocket-protocol"][1]) = 1
          /\ parse_protocols(head) \subseteq parse_protocols(request)
    /\ extensions_parse(head)
    /\ parse_extensions(head) \subseteq parse_extensions(request)

validate_h1_websocket_response(reply, request, key) ==
    LET connection == parse_connection_tokens(reply.head)
    IN  /\ reply.status = 101 /\ reply.version = "HTTP_11" /\ ~reply.body
        /\ DOMAIN reply.head \cap {"sec-websocket-key", "sec-websocket-version", "origin"} = {}
        /\ connection_tokens_parse(reply.head)
        /\ "upgrade" \in connection /\ "sec-websocket-accept" \notin connection
        /\ connection \cap {"sec-websocket-protocol", "sec-websocket-extensions"}
               \cap DOMAIN reply.head = {}
        /\ Lines(reply.head, "upgrade") = << <<"websocket">> >>
        /\ Lines(reply.head, "sec-websocket-accept") = << <<websocket_accept(key)>> >>
        /\ validate_websocket_response_selections(reply.head, request)

validate_h2_websocket_response(reply, request) ==
    /\ reply.status = 200 /\ reply.version = "HTTP_2" /\ ~reply.body
    /\ DOMAIN reply.head \cap
           {"connection", "upgrade", "content-length", "keep-alive", "proxy-connection",
            "transfer-encoding", "te", "trailer", "sec-websocket-key",
            "sec-websocket-accept", "sec-websocket-version", "origin", "host"} = {}
    /\ validate_websocket_response_selections(reply.head, request)

validate_websocket_upstream_response(reply, request, websocket, protocol) ==
    IF protocol = "Http1"
    THEN validate_h1_websocket_response(reply, request, prepare_websocket(websocket, protocol))
    ELSE validate_h2_websocket_response(reply, request)

\* The upstream's value is passed on.
sanitize_websocket_response_head_Mutant(head, renewal, websocket) ==
    LET plain == sanitize_response_head(head, renewal)
    IN  IF websocket = "Http1"
        THEN Insert(Insert(plain, "connection", <<"upgrade">>), "upgrade", <<"websocket">>)
        ELSE Without(plain, HopHeaders \cup {"sec-websocket-accept"})

sanitize_websocket_response_head(head, renewal, websocket) ==
    LET plain == Without(sanitize_response_head(head, renewal),
                         {"sec-websocket-key", "sec-websocket-accept",
                          "sec-websocket-version", "origin", "host"})
    IN  IF websocket = "Http1"
        THEN Insert(Insert(Insert(plain,
                 "connection", <<"upgrade">>),
                 "upgrade", <<"websocket">>),
                 "sec-websocket-accept", <<websocket_accept("client key")>>)
        ELSE Without(plain, HopHeaders)
=============================================================================
