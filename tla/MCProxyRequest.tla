--------------------------- MODULE MCProxyRequest ---------------------------
(***************************************************************************)
(* A small instance of ProxyRequest for TLC: request and response heads    *)
(* built from a plain head, or from a complete handshake, by at most two   *)
(* changes.                                                                *)
(***************************************************************************)
EXTENDS ProxyRequest, TLC

Line(name, line) == name :> <<line>>

\* The header lines a client may add to a request.
Extras ==
    {Line("cookie", <<"session">>), Line("cookie", <<"opaque">>),
     Line("authorization", <<"bearer">>), Line("accept", <<"any">>),
     Line("x-auth-mini-user-id", <<"other">>), Line("x-auth-mini-email", <<"other">>),
     Line("x-forwarded-for", <<"client ip">>),
     Line("x-forwarded-for", <<"client ip", "proxy ip">>),
     Line("x-forwarded-port", <<"443">>), Line("forwarded", <<"client ip">>),
     Line("expect", <<"100-continue">>), Line("content-length", <<"0">>),
     Line("content-length", <<"5">>), Line("content-length", <<"huge">>),
     Line("origin", <<"https://app">>), Line("sec-websocket-key", <<"client key">>),
     Line("x_auth_mini_user_id", <<"other">>)}

\* Headers of a single HTTP/1 connection.
H1Extras ==
    {Line("keep-alive", <<"5">>), Line("te", <<"trailers">>),
     Line("transfer-encoding", <<"chunked">>), Line("upgrade", <<"websocket">>)}
        \cup {Line("connection", line) : line \in
                {<<"close">>, <<"accept">>, <<"x-forwarded-for">>, <<"">>, <<"upgrade">>,
                 <<"x-auth-mini-user-id", "host">>, <<"cookie", "x-forwarded-host">>}}

Changed(heads, extras) == heads \cup {e @@ h : e \in extras, h \in heads}

Sized(head, body) ==
    IF Has(head, "transfer-encoding") THEN TRUE
    ELSE IF Has(head, "content-length") THEN head["content-length"] # << <<"0">> >>
    ELSE body

Request(version, method, path, trusted, head, body) ==
    [version |-> version, method |-> method, path |-> path, head |-> head,
     protocol |-> IF method = "CONNECT" THEN "websocket" ELSE "none",
     scheme |-> IF version = "HTTP_2" THEN "https" ELSE "none",
     authority |-> IF version = "HTTP_2" THEN "gateway" ELSE "none",
     body |-> Sized(head, body), trusted_peer |-> trusted]

HostLine == Line("host", <<"gateway">>)

H1Plain ==
    {Request("HTTP_11", "GET", "/app", trusted, h, FALSE) : trusted \in BOOLEAN,
        h \in Changed(Changed({HostLine}, Extras), H1Extras)}

H2Plain ==
    {Request("HTTP_2", "POST", "/app", TRUE, h, body) :
        h \in Changed(Changed({EmptyHead}, Extras), Extras), body \in BOOLEAN}

\* Every route and form of target.
Targets ==
    {[Request(version, method, path, FALSE, h, FALSE) EXCEPT !.scheme = scheme, !.body = body] :
        version \in {"HTTP_10", "HTTP_11", "HTTP_2"}, method \in {"GET", "POST"},
        path \in OWNED_PATHS \cup {"/app", "//unsafe", "*"}, scheme \in {"none", "https", "ftp"},
        h \in {HostLine, Line("host", <<"gateway">>) @@ Line("cookie", <<"opaque">>)},
        body \in BOOLEAN}
    \cup {[Request(version, method, path, FALSE, h, FALSE) EXCEPT !.authority = authority,
                                                                 !.protocol = extension] :
             version \in {"HTTP_11", "HTTP_2"}, method \in {"CONNECT"},
             path \in {"none", "/app", "/login"}, authority \in {"none", "gateway"},
             h \in {HostLine, EmptyHead, "host" :> << <<"a">>, <<"b">> >>},
             extension \in {"none", "websocket"}}
    \cup {Request("HTTP_11", "GET", "/app", FALSE, h, FALSE) :
             h \in {EmptyHead, "host" :> << <<"a">>, <<"b">> >>}}

\* HTTP/1 and HTTP/2 handshakes, complete ones and ones with a change.
Offer ==
    {EmptyHead, Line("sec-websocket-protocol", <<"chat", "log">>),
     "sec-websocket-protocol" :> << <<"chat">>, <<"chat">> >>,
     Line("sec-websocket-protocol", <<"not token">>),
     Line("sec-websocket-extensions", <<"deflate">>),
     Line("sec-websocket-extensions", <<"deflate", "deflate">>),
     Line("origin", <<"null">>), Line("origin", <<"not token">>)}

H1Handshakes ==
    LET whole == HostLine @@ Line("connection", <<"upgrade">>)
                     @@ Line("upgrade", <<"websocket">>)
                     @@ Line("sec-websocket-key", <<"client key">>)
                     @@ Line("sec-websocket-version", <<"13">>)
        changed == Changed({whole}, {Line("connection", line) : line \in
                       {<<"keep-alive">>, <<"upgrade", "sec-websocket-key">>,
                        <<"upgrade", "x-auth-mini-user-id">>, <<"upgrade", "origin">>}}
                       \cup {Line("upgrade", <<"h2c">>), Line("sec-websocket-version", <<"8">>),
                             Line("sec-websocket-key", <<"not base64">>),
                             "sec-websocket-key" :> << <<"client key">>, <<"client key">> >>,
                             Line("sec-websocket-accept", <<"accept of client key">>),
                             Line("content-length", <<"5">>), Line("cookie", <<"session">>),
                             Line("x-auth-mini-user-id", <<"other">>)})
                   \cup {Without(whole, {n}) : n \in DOMAIN whole}
    IN  {Request("HTTP_11", method, "/app", FALSE, o @@ h, FALSE) :
            method \in {"GET", "POST"}, h \in changed, o \in Offer}

H2Handshakes ==
    LET whole == Line("sec-websocket-version", <<"13">>)
        changed == Changed({whole}, {Line("host", <<"gateway">>),
                       Line("sec-websocket-version", <<"8">>),
                       Line("sec-websocket-key", <<"client key">>),
                       Line("content-length", <<"0">>), Line("cookie", <<"session">>),
                       Line("x-auth-mini-user-id", <<"other">>)}) \cup {EmptyHead}
    IN  {Request("HTTP_2", "CONNECT", "/app", FALSE, o @@ h, FALSE) :
            h \in changed, o \in Offer}

MCRequests == H1Plain \cup H2Plain \cup Targets \cup H1Handshakes \cup H2Handshakes

\* Plain responses with headers of the upstream's own.
PlainReplies ==
    LET heads == Changed(Changed({EmptyHead},
                     {"set-cookie" :> << <<"app">>, <<"amg_session", "app">> >>,
                      "set-cookie" :> << <<"not token">>, <<"app">>, <<"amg_login_state">> >>,
                      Line("x-auth-mini-user-id", <<"other">>), Line("content-length", <<"5">>)}),
                     {Line("connection", <<"close">>), Line("connection", <<"set-cookie">>),
                      Line("connection", <<"">>), Line("keep-alive", <<"5">>)})
    IN  {[status |-> 200, version |-> version, body |-> TRUE, head |-> h] :
            version \in {"HTTP_10", "HTTP_11"}, h \in heads}
        \cup {[status |-> 200, version |-> "HTTP_2", body |-> TRUE, head |-> h] :
                 h \in {g \in heads : DOMAIN g \cap HopHeaders = {}}}

\* What an upstream may select, and complete or broken ends of a handshake.
Selections ==
    {EmptyHead, Line("sec-websocket-protocol", <<"chat">>),
     Line("sec-websocket-protocol", <<"other">>),
     "sec-websocket-protocol" :> << <<"chat">>, <<"log">> >>,
     Line("sec-websocket-extensions", <<"deflate">>),
     Line("sec-websocket-extensions", <<"deflate", "deflate">>),
     Line("set-cookie", <<"amg_session", "app">>)}

H1Ends ==
    LET whole == Line("connection", <<"upgrade">>) @@ Line("upgrade", <<"websocket">>)
        changed == Changed({whole}, {Line("upgrade", <<"h2c">>),
                       Line("connection", <<"upgrade", "set-cookie">>),
                       Line("connection", <<"upgrade", "sec-websocket-accept">>),
                       Line("sec-websocket-version", <<"13">>)})
                   \cup {Without(whole, {n}) : n \in DOMAIN whole}
    IN  {[status |-> 101, version |-> "HTTP_11", body |-> FALSE,
          head |-> s @@ Line("sec-websocket-accept", <<websocket_accept(key)>>) @@ h] :
            h \in changed, s \in Selections, key \in {"client key", "generated key"}}

H2Ends ==
    {[status |-> status, version |-> "HTTP_2", body |-> FALSE, head |-> s @@ h] :
        status \in {200, 404}, s \in Selections,
        h \in {EmptyHead, Line("sec-websocket-accept", <<websocket_accept("client key")>>),
               Line("origin", <<"null">>)}}

MCReplies == PlainReplies \cup H1Ends \cup H2Ends
=============================================================================
