------------------------- MODULE ProxyRequest_proofs -------------------------
(***************************************************************************)
(* The head sent upstream, the tunnels and the answers, for every request  *)
(* and every reply of Requests and Replies.  A head may have any names,    *)
(* with any lines, and nominate any headers; of the names with the         *)
(* prefixes x-auth-mini- and x-forwarded-, HttpHead has those of           *)
(* AuthMiniPrefixed and ForwardedPrefixed.                                 *)
(*                                                                         *)
(* The invariant says that what is sent is what forward computes from the  *)
(* request and the protocol it has selected, and that an answer is what    *)
(* the path to it computes from the request, the decision and the reply;   *)
(* the rest is about the sanitizers, name by name.  That                   *)
(* filter_application_cookies keeps only allowed lines, however many there *)
(* are, is by induction on their number, as a least counterexample.        *)
(***************************************************************************)
EXTENDS ProxyRequest, WellFoundedInduction, TLAPS

IsFunction(head) == head = [n \in DOMAIN head |-> head[n]]

-----------------------------------------------------------------------------
(* Heads.                                                                  *)

LEMMA WithoutHead ==
    ASSUME NEW head, NEW names
    PROVE  /\ IsFunction(Without(head, names))
           /\ DOMAIN Without(head, names) = DOMAIN head \ names
           /\ \A n \in DOMAIN head \ names : Without(head, names)[n] = head[n]
BY Zenon DEF Without, Restrict, IsFunction

\* What forward sends: sanitize_request_headers and, over HTTP/1, the key.
Expected(r, p) ==
    LET plain == sanitize_request_headers(r.head, From(r), parse_websocket_request(r) # "none", p)
        key == prepare_websocket(parse_websocket_request(r), p)
    IN  IF parse_websocket_request(r) = "none" \/ key = "none" THEN plain
        ELSE Insert(plain, "sec-websocket-key", <<key>>)

\* named is head with the gateway's own headers inserted, name by name.
NamedAs(named, head, from, p) ==
    LET own == {"x-forwarded-for", "x-forwarded-proto", "x-forwarded-host",
                "x-auth-mini-user-id"}
    IN  /\ IsFunction(named)
        /\ DOMAIN named = (DOMAIN head \ {"host"}) \cup own
                              \cup (IF p = "Http1" THEN {"host"} ELSE {})
        /\ p = "Http1" => named["host"] = <<from.authority>>
        /\ named["x-forwarded-for"] = <<from.client_ip>>
        /\ named["x-forwarded-proto"] = <<from.proto>>
        /\ named["x-forwarded-host"] = <<from.authority>>
        /\ named["x-auth-mini-user-id"] = <<from.user>>
        /\ \A n \in DOMAIN head \ (own \cup {"host"}) : named[n] = head[n]

LEMMA NamedHead ==
    ASSUME NEW head, NEW from, NEW p \in {"Http1", "Http2"}
    PROVE  NamedAs(insert_own_headers(head, from, FALSE, p), head, from, p)
<1> DEFINE a == IF p = "Http1" THEN Insert(head, "host", from.authority)
                ELSE Without(head, {"host"})
           b == Insert(a, "x-forwarded-for", from.client_ip)
           c == Insert(b, "x-forwarded-proto", from.proto)
           d == Insert(c, "x-forwarded-host", from.authority)
           e == Insert(d, "x-auth-mini-user-id", from.user)
<1>1. /\ DOMAIN a = (DOMAIN head \ {"host"}) \cup (IF p = "Http1" THEN {"host"} ELSE {})
      /\ p = "Http1" => a["host"] = <<from.authority>>
      /\ \A n \in DOMAIN head \ {"host"} : a[n] = head[n]
    BY Zenon DEF Insert, Without, Restrict
<1>2. insert_own_headers(head, from, FALSE, p) = e
    BY Zenon DEF insert_own_headers
<1> HIDE DEF a
<1>3. /\ DOMAIN b = DOMAIN a \cup {"x-forwarded-for"}
      /\ b["x-forwarded-for"] = <<from.client_ip>>
      /\ \A n \in DOMAIN a \ {"x-forwarded-for"} : b[n] = a[n]
    BY Zenon DEF Insert
<1> HIDE DEF b
<1>4. /\ DOMAIN c = DOMAIN b \cup {"x-forwarded-proto"}
      /\ c["x-forwarded-proto"] = <<from.proto>>
      /\ \A n \in DOMAIN b \ {"x-forwarded-proto"} : c[n] = b[n]
    BY Zenon DEF Insert
<1> HIDE DEF c
<1>5. /\ DOMAIN d = DOMAIN c \cup {"x-forwarded-host"}
      /\ d["x-forwarded-host"] = <<from.authority>>
      /\ \A n \in DOMAIN c \ {"x-forwarded-host"} : d[n] = c[n]
    BY Zenon DEF Insert
<1> HIDE DEF d
<1>6. /\ IsFunction(e)
      /\ DOMAIN e = DOMAIN d \cup {"x-auth-mini-user-id"}
      /\ e["x-auth-mini-user-id"] = <<from.user>>
      /\ \A n \in DOMAIN d \ {"x-auth-mini-user-id"} : e[n] = d[n]
    BY Zenon DEF Insert, IsFunction
<1> HIDE DEF e
<1>7. DOMAIN e = (DOMAIN head \ {"host"})
                    \cup {"x-forwarded-for", "x-forwarded-proto", "x-forwarded-host",
                          "x-auth-mini-user-id"}
                    \cup (IF p = "Http1" THEN {"host"} ELSE {})
    BY Zenon, <1>1, <1>3, <1>4, <1>5, <1>6
<1>8. /\ p = "Http1" => e["host"] = <<from.authority>>
      /\ e["x-forwarded-for"] = <<from.client_ip>>
      /\ e["x-forwarded-proto"] = <<from.proto>>
      /\ e["x-forwarded-host"] = <<from.authority>>
      /\ e["x-auth-mini-user-id"] = <<from.user>>
    BY <1>1, <1>3, <1>4, <1>5, <1>6
<1>9. ASSUME NEW n \in DOMAIN head \ {"x-forwarded-for", "x-forwarded-proto",
                                      "x-forwarded-host", "x-auth-mini-user-id", "host"}
      PROVE  e[n] = head[n]
    BY <1>1, <1>3, <1>4, <1>5, <1>6
<1> QED BY Zenon, <1>2, <1>6, <1>7, <1>8, <1>9 DEF NamedAs

\* What a request that is forwarded does not have.
LEMMA HandshakeFree ==
    ASSUME NEW r, parse_websocket_request(r) \in {"none", "Http1", "Http2"}
    PROVE  /\ "sec-websocket-accept" \notin DOMAIN r.head
           /\ parse_websocket_request(r) = "none" => "sec-websocket-key" \notin DOMAIN r.head
<1>1. CASE r.method = "CONNECT" /\ (r.version # "HTTP_2" \/ r.protocol # "websocket")
    BY Zenon, <1>1 DEF parse_websocket_request
<1>2. CASE r.method = "CONNECT" /\ r.version = "HTTP_2" /\ r.protocol = "websocket"
    <2>1. parse_websocket_request(r) =
              IF validate_h2_websocket_request(r) THEN "Http2" ELSE "bad_request"
        BY Zenon, <1>2 DEF parse_websocket_request
    <2>2. validate_h2_websocket_request(r) /\ parse_websocket_request(r) = "Http2"
        BY Zenon, <2>1
    <2> QED BY Zenon, <2>2 DEF validate_h2_websocket_request
<1>3. CASE r.method # "CONNECT" /\ r.protocol # "none"
    BY Zenon, <1>3 DEF parse_websocket_request
<1>4. CASE r.method # "CONNECT" /\ r.protocol = "none"
    <2>1. \/ /\ parse_websocket_request(r) = "none"
             /\ ~websocket_handshake_headers_present(r.head)
          \/ parse_websocket_request(r) = "Http1" /\ H1Handshake(r)
        BY Zenon, <1>4 DEF parse_websocket_request
    <2>2. CASE ~websocket_handshake_headers_present(r.head)
        BY Zenon, <2>2 DEF websocket_handshake_headers_present, HandshakeHeaders
    <2>3. CASE parse_websocket_request(r) = "Http1" /\ H1Handshake(r)
        BY Zenon, <2>3 DEF H1Handshake, Has
    <2> QED BY Zenon, <2>1, <2>2, <2>3
<1> QED BY Zenon, <1>1, <1>2, <1>3, <1>4

\* s is the head forward sends for r over p, name by name.
SentAs(s, r, p) ==
    LET base   == DOMAIN r.head \ (parse_connection_tokens(r.head) \cup HopHeaders
                      \cup ClientOnly \cup AuthMiniPrefixed \cup ForwardedPrefixed)
        own    == {"x-forwarded-for", "x-forwarded-proto", "x-forwarded-host",
                   "x-auth-mini-user-id"}
        tunnel == parse_websocket_request(r) # "none"
        named  == (base \ {"host"}) \cup own \cup (IF p = "Http1" THEN {"host"} ELSE {})
    IN  /\ IsFunction(s)
        /\ DOMAIN s = IF ~tunnel THEN named
                      ELSE IF p = "Http1"
                      THEN named \cup {"connection", "upgrade", "sec-websocket-key"}
                      ELSE named \ {"sec-websocket-key", "sec-websocket-accept"}
        /\ p = "Http1" => s["host"] = <<public_authority(r)>>
        /\ s["x-forwarded-for"] = <<derive_client_ip(r)>>
        /\ s["x-forwarded-proto"] = << <<"https">> >>
        /\ s["x-forwarded-host"] = <<public_authority(r)>>
        /\ s["x-auth-mini-user-id"] = << <<"user">> >>
        /\ \A n \in (base \cap DOMAIN s)
                       \ (own \cup {"host", "connection", "upgrade", "sec-websocket-key"}) :
               s[n] = r.head[n]

LEMMA ExpectedHead ==
    ASSUME NEW r, NEW p \in {"Http1", "Http2"}
    PROVE  SentAs(Expected(r, p), r, p)
<1> DEFINE strip  == parse_connection_tokens(r.head) \cup HopHeaders
                         \cup ClientOnly \cup AuthMiniPrefixed \cup ForwardedPrefixed
           base   == Without(r.head, strip)
           from   == From(r)
           own    == {"x-forwarded-for", "x-forwarded-proto", "x-forwarded-host",
                      "x-auth-mini-user-id"}
           tunnel == parse_websocket_request(r) # "none"
           named  == insert_own_headers(base, from, FALSE, p)
           key    == prepare_websocket(parse_websocket_request(r), p)
           dom    == ((DOMAIN r.head \ strip) \ {"host"}) \cup own
                         \cup (IF p = "Http1" THEN {"host"} ELSE {})
<1>1. /\ DOMAIN base = DOMAIN r.head \ strip
      /\ \A n \in DOMAIN r.head \ strip : base[n] = r.head[n]
    BY Zenon, WithoutHead
<1>2. /\ from.authority = public_authority(r) /\ from.client_ip = derive_client_ip(r)
      /\ from.proto = <<"https">> /\ from.user = <<"user">>
    BY Zenon DEF From
<1>3. sanitize_request_headers(r.head, from, tunnel, p)
          = insert_own_headers(base, from, tunnel, p)
    BY Zenon DEF sanitize_request_headers
<1> HIDE DEF strip, base, from
<1>4. /\ IsFunction(named)
      /\ DOMAIN named = (DOMAIN base \ {"host"}) \cup own
                            \cup (IF p = "Http1" THEN {"host"} ELSE {})
      /\ p = "Http1" => named["host"] = <<from.authority>>
      /\ named["x-forwarded-for"] = <<from.client_ip>>
      /\ named["x-forwarded-proto"] = <<from.proto>>
      /\ named["x-forwarded-host"] = <<from.authority>>
      /\ named["x-auth-mini-user-id"] = <<from.user>>
      /\ \A n \in DOMAIN base \ (own \cup {"host"}) : named[n] = base[n]
    <2>1. NamedAs(named, base, from, p)
        BY Zenon, NamedHead
    <2> HIDE DEF named
    <2> QED BY Zenon, <2>1 DEF NamedAs
<1>5. insert_own_headers(base, from, tunnel, p) =
          IF ~tunnel THEN named
          ELSE IF p = "Http1"
          THEN Insert(Insert(named, "connection", <<"upgrade">>), "upgrade", <<"websocket">>)
          ELSE Without(named, {"sec-websocket-key", "sec-websocket-accept"})
    BY Zenon DEF insert_own_headers
<1>6. key = "none" <=> p = "Http2"
    BY Zenon DEF prepare_websocket
<1>7. Expected(r, p) =
          IF ~tunnel THEN named
          ELSE IF p = "Http1"
          THEN Insert(Insert(Insert(named, "connection", <<"upgrade">>),
                             "upgrade", <<"websocket">>), "sec-websocket-key", <<key>>)
          ELSE Without(named, {"sec-websocket-key", "sec-websocket-accept"})
    BY Zenon, <1>3, <1>5, <1>6 DEF Expected, from
<1> HIDE DEF key, named
<1> DEFINE s == Expected(r, p)
<1>8. /\ IsFunction(s)
      /\ DOMAIN s = IF ~tunnel THEN DOMAIN named
                    ELSE IF p = "Http1"
                    THEN DOMAIN named \cup {"connection", "upgrade", "sec-websocket-key"}
                    ELSE DOMAIN named \ {"sec-websocket-key", "sec-websocket-accept"}
      /\ \A n \in (DOMAIN named \cap DOMAIN s)
                     \ {"connection", "upgrade", "sec-websocket-key"} : s[n] = named[n]
    <2>1. CASE ~tunnel
        BY Zenon, <2>1, <1>4, <1>7
    <2>2. CASE tunnel /\ p = "Http1"
        BY Zenon, <2>2, <1>7 DEF Insert, IsFunction
    <2>3. CASE tunnel /\ p = "Http2"
        BY Zenon, <2>3, <1>7 DEF Without, Restrict, IsFunction
    <2> QED BY Zenon, <2>1, <2>2, <2>3
<1> HIDE DEF s
<1>9. DOMAIN named = dom
    BY Zenon, <1>1, <1>4
<1>10. own \subseteq DOMAIN named /\ (p = "Http1" => "host" \in DOMAIN named)
    BY Zenon, <1>9
<1>11. own \subseteq DOMAIN s /\ (p = "Http1" => "host" \in DOMAIN s)
    BY Zenon, <1>8, <1>10
<1>12. /\ p = "Http1" => s["host"] = <<public_authority(r)>>
       /\ s["x-forwarded-for"] = <<derive_client_ip(r)>>
       /\ s["x-forwarded-proto"] = << <<"https">> >>
       /\ s["x-forwarded-host"] = <<public_authority(r)>>
       /\ s["x-auth-mini-user-id"] = << <<"user">> >>
    BY Zenon, <1>2, <1>4, <1>8, <1>10, <1>11
<1>13. ASSUME NEW n \in ((DOMAIN r.head \ strip) \cap DOMAIN s)
                      \ (own \cup {"host", "connection", "upgrade", "sec-websocket-key"})
       PROVE  s[n] = r.head[n]
    BY Zenon, <1>1, <1>4, <1>8, <1>9
<1> QED BY Zenon, <1>8, <1>9, <1>12, <1>13 DEF SentAs, s, strip

-----------------------------------------------------------------------------
(* The invariant.                                                          *)

Forwarded == {"none", "Http1", "Http2"}

IInv ==
    /\ req \in Requests
    /\ pc \in {"auth", "select", "dispatch"} \/ reply # NoReply => websocket \in Forwarded
    /\ reply # NoReply => pc = "answered"
    /\ pc = "dispatch" \/ reply # NoReply =>
          protocol \in {"Http1", "Http2"} /\ sent = Expected(req, protocol)

\* A nonempty set of naturals has a least element: induction, in the form the
\* provers can use.
LEMMA LeastElement ==
    ASSUME NEW set \in SUBSET Nat, set # {}
    PROVE  \E i \in set : \A j \in set : i <= j
<1> DEFINE less == {p \in Nat \X Nat : p[1] < p[2]}
<1>1. IsWellFoundedOn(less, Nat)
  BY Zenon, NatLessThanWellFounded DEF OpToRel
<1> HIDE DEF less
<1>2. PICK i \in set : \A j \in set : <<j, i>> \notin less
  BY Zenon, <1>1, WFMin
<1>3. ASSUME NEW j \in set, j < i PROVE FALSE
  <2>1. <<j, i>> \in Nat \X Nat /\ <<j, i>>[1] < <<j, i>>[2]
    BY Zenon, <1>3
  <2>2. <<j, i>> \in less
    BY Zenon, <2>1 DEF less
  <2> QED BY Zenon, <1>2, <2>2
<1>4. \A j \in set : i <= j
  BY <1>3
<1> QED BY Zenon, <1>4

LEMMA SomeMin ==
    ASSUME NEW S \in SUBSET Nat, S # {}
    PROVE  Min(S) \in S
<1>1. \E x \in S : \A y \in S : x <= y
    BY Zenon, LeastElement
<1> QED BY Zenon, <1>1 DEF Min

\* A request whose checks all hold passes each of them.
LEMMA ChecksHold ==
    ASSUME NEW checks, DOMAIN checks \subseteq Nat,
           \A i \in DOMAIN checks : checks[i][2] # 0,
           FirstFailure(checks)[1] = 0
    PROVE  \A i \in DOMAIN checks : checks[i][1]
<1> DEFINE failed == {i \in DOMAIN checks : ~checks[i][1]}
<1>1. CASE failed = {}
    BY Zenon, <1>1
<1>2. CASE failed # {}
    <2>1. Min(failed) \in failed
        BY Zenon, <1>2, SomeMin
    <2>2. FirstFailure(checks)[1] = checks[Min(failed)][2]
        BY Zenon, <1>2 DEF FirstFailure
    <2> QED BY Zenon, <2>1, <2>2
<1> QED BY Zenon, <1>1, <1>2

\* A failing check gives the status and the close flag of one of the checks.
LEMMA ChecksFail ==
    ASSUME NEW checks, DOMAIN checks \subseteq Nat, FirstFailure(checks)[1] # 0
    PROVE  \E i \in DOMAIN checks : FirstFailure(checks) = <<checks[i][2], checks[i][3]>>
<1> DEFINE failed == {i \in DOMAIN checks : ~checks[i][1]}
<1>1. failed # {}
    <2>1. failed = {} => FirstFailure(checks) = <<0, FALSE>>
        BY Zenon DEF FirstFailure
    <2>2. <<0, FALSE>>[1] = 0
        OBVIOUS
    <2> QED BY Zenon, <2>1, <2>2
<1>2. Min(failed) \in failed
    BY Zenon, <1>1, SomeMin
<1> QED BY Zenon, <1>1, <1>2 DEF FirstFailure

LEMMA InitIInv ==
    Init => IInv
BY Zenon DEF Init, IInv

LEMMA FallbackForwards ==
    ASSUME handle_proxy_fallback, pc' = "auth"
    PROVE  websocket \in Forwarded
<1> DEFINE checks ==
             << <<DOMAIN req.head \cap {"x_auth_mini_user_id"} = {}, 400, TRUE>>,
                <<websocket # "bad_request", 400, TRUE>>,
                <<websocket # "method_not_allowed", 405, TRUE>>,
                <<classify_fallback_target(req), 400, TRUE>>,
                <<public_authority_known(req), 400, TRUE>>,
                <<normalize_return_target(req.path), 400, body_bearing>>,
                <<validate_expect(req), 417, TRUE>>,
                <<derive_client_ip_known(req), 400, TRUE>>,
                <<proxy_auth_cookie(req), 400, TRUE>> >>
<1>1. FirstFailure(checks)[1] = 0
    BY Zenon DEF handle_proxy_fallback, Check, generated_response, Return
<1>2. DOMAIN checks = 1..9 /\ \A i \in 1..9 : checks[i][2] # 0
    OBVIOUS
<1>3. checks[2][1] = (websocket # "bad_request") /\ checks[3][1] = (websocket # "method_not_allowed")
    OBVIOUS
<1> HIDE DEF checks
<1>4. checks[2][1] /\ checks[3][1]
    <2>1. DOMAIN checks \subseteq Nat /\ 2 \in DOMAIN checks /\ 3 \in DOMAIN checks
        BY <1>2
    <2> QED BY Zenon, <1>1, <1>2, <2>1, ChecksHold

<1>5. websocket # "bad_request" /\ websocket # "method_not_allowed"
    BY Zenon, <1>3, <1>4
<1>6. websocket \in Forwarded \cup {"bad_request", "method_not_allowed"}
    BY Zenon DEF websocket, parse_websocket_request, Forwarded
<1> QED BY Zenon, <1>5, <1>6

\* A step that gives no protocol, head or reply leaves the invariant.
LEMMA OtherStep ==
    ASSUME IInv, UNCHANGED <<req, protocol, sent, reply>>,
           reply = NoReply, pc' # "dispatch",
           pc' \in {"auth", "select"} => websocket \in Forwarded
    PROVE  IInv'
BY Zenon DEF IInv, websocket

\* The steps that end in generated_response, or answer in another way.
LEMMA AnsweringStep ==
    ASSUME IInv, UNCHANGED <<req, protocol, sent, reply>>, reply = NoReply, pc' = "answered"
    PROVE  IInv'
BY Zenon, OtherStep

LEMMA SendStep ==
    ASSUME IInv, forward_send
    PROVE  IInv'
<1>1. PICK tls \in BOOLEAN, configured \in {"Auto", "Http1", "Http2"},
           alpn \in {"none", "h2", "http/1.1", "other"}, extended_connect \in BOOLEAN :
          LET p == select_actual_protocol(configured, tls, alpn)
              plain == sanitize_request_headers(req.head, From(req), websocket # "none", p)
              key == prepare_websocket(websocket, p)
          IN  /\ ~tls => configured # "Auto" /\ alpn = "none"
              /\ IF p = "error"
                    \/ (websocket # "none" /\ p = "Http2" /\ ~extended_connect)
                 THEN ForwardError(502) /\ UNCHANGED <<protocol, sent>>
                 ELSE /\ protocol' = p
                      /\ sent' = IF websocket = "none" \/ key = "none" THEN plain
                                 ELSE Insert(plain, "sec-websocket-key", <<key>>)
                      /\ pc' = "dispatch" /\ UNCHANGED answer
    BY Zenon DEF forward_send
<1> DEFINE p == select_actual_protocol(configured, tls, alpn)
           refused == p = "error" \/ (websocket # "none" /\ p = "Http2" /\ ~extended_connect)
<1>2. pc = "select" /\ UNCHANGED <<req, decision, reply>>
    BY Zenon DEF forward_send
<1>3. reply = NoReply /\ websocket \in Forwarded
    BY Zenon, <1>2 DEF IInv
<1>4. p \in {"Http1", "Http2", "error"}
    BY Zenon, <1>1 DEF select_actual_protocol
<1>5. CASE refused
    <2>1. ForwardError(502) /\ UNCHANGED <<protocol, sent>>
        BY Zenon, <1>1, <1>5
    <2>2. pc' = "answered"
        BY Zenon, <2>1 DEF ForwardError, generated_response, Return
    <2> QED BY Zenon, <1>2, <1>3, <2>1, <2>2, AnsweringStep
<1>6. CASE ~refused
    <2>1. protocol' = p /\ pc' = "dispatch" /\ sent' = Expected(req, p)
        BY Zenon, <1>1, <1>6, Zenon DEF Expected, websocket
    <2>2. p \in {"Http1", "Http2"}
        BY Zenon, <1>4, <1>6
    <2> HIDE DEF p
    <2> QED BY Zenon, <1>2, <1>3, <2>1, <2>2 DEF IInv, websocket
<1> QED BY Zenon, <1>5, <1>6

LEMMA ReplyStep ==
    ASSUME IInv, forward_reply
    PROVE  IInv'
<1>1. pc = "dispatch" /\ UNCHANGED <<req, decision, protocol, sent>>
    BY Zenon DEF forward_reply
<1>2. pc' = "answered"
    BY Zenon DEF forward_reply, ForwardError, generated_response, Return
<1>3. /\ websocket \in Forwarded
      /\ protocol \in {"Http1", "Http2"} /\ sent = Expected(req, protocol)
    BY Zenon, <1>1 DEF IInv
<1> QED BY Zenon, <1>1, <1>2, <1>3 DEF IInv, websocket

LEMMA NextIInv ==
    IInv /\ [Next]_vars => IInv'
<1> SUFFICES ASSUME IInv, [Next]_vars PROVE IInv'
    OBVIOUS
<1>0. pc # "answered" => reply = NoReply
    BY Zenon DEF IInv
<1>1. CASE Refuse
    BY Zenon, <1>0, <1>1, AnsweringStep DEF Refuse, generated_response, Return
<1>2. CASE handle_proxy_fallback
    <2>1. pc = "received" /\ UNCHANGED <<req, decision, protocol, sent, reply>>
        BY Zenon, <1>2 DEF handle_proxy_fallback, Routed
    <2>2. pc' \in {"auth", "answered"}
        BY Zenon, <1>2, Zenon DEF handle_proxy_fallback, Check, generated_response, Return
    <2> QED BY Zenon, <1>0, <1>2, <2>1, <2>2, FallbackForwards, OtherStep
<1>3. ASSUME NEW proxy_mode \in BOOLEAN, handle_local_request(proxy_mode)
      PROVE  IInv'
    <2>1. pc = "received" /\ UNCHANGED <<req, decision, protocol, sent, reply>>
        BY Zenon, <1>3 DEF handle_local_request, Routed
    <2>2. pc' \in {"local", "adapter", "answered"}
        BY ZenonT(60), <1>3, Zenon DEF handle_local_request, Check, generated_response, Return
    <2> QED BY Zenon, <1>0, <2>1, <2>2, OtherStep
<1>4. CASE CollectFails
    BY Zenon, <1>0, <1>4, AnsweringStep DEF CollectFails, generated_response, Return
<1>5. CASE AdapterFallback
    BY Zenon, <1>0, <1>5, AnsweringStep DEF AdapterFallback, local_into_hyper, Return
<1>6. CASE LocalAnswer
    BY Zenon, <1>0, <1>6, AnsweringStep DEF LocalAnswer, local_into_hyper, Return
<1>7. CASE LocalFails
    BY <1>0, <1>7, AnsweringStep DEF LocalFails, local_into_hyper, Return
<1>8. CASE handle_auth_check
    <2>1. pc = "local" /\ UNCHANGED <<req, protocol, sent, reply>>
        BY Zenon, <1>8 DEF handle_auth_check
    <2>2. pc' = "answered"
        BY Zenon, <1>8 DEF handle_auth_check, local_into_hyper, Return, Decisions
    <2> QED BY Zenon, <1>0, <2>1, <2>2, AnsweringStep
<1>9. CASE execute_proxy_auth
    <2>1. pc = "auth" /\ UNCHANGED <<req, protocol, sent, reply>>
        BY Zenon, <1>9 DEF execute_proxy_auth
    <2>2. pc' \in {"select", "answered"}
        BY ZenonT(60), <1>9 DEF execute_proxy_auth, local_into_hyper, generated_response, Return,
                    Decisions
    <2>3. websocket \in Forwarded
        BY Zenon, <2>1 DEF IInv
    <2> QED BY Zenon, <1>0, <2>1, <2>2, <2>3, OtherStep
<1>10. CASE proxy_auth_execution_error
    BY <1>0, <1>10, AnsweringStep DEF proxy_auth_execution_error, generated_response, Return
<1>11. CASE SelectFails
    BY <1>0, <1>11, AnsweringStep DEF SelectFails, ForwardError, generated_response, Return
<1>12. CASE forward_send
    BY Zenon, <1>12, SendStep
<1>13. CASE DispatchFails
    BY <1>0, <1>13, AnsweringStep DEF DispatchFails, ForwardError, generated_response, Return
<1>14. CASE forward_reply
    BY <1>14, ReplyStep
<1>15. CASE UNCHANGED vars
    BY Zenon, <1>15 DEF vars, IInv, websocket
<1> QED BY Zenon, <1>1, <1>2, <1>3, <1>4, <1>5, <1>6, <1>7, <1>8, <1>9, <1>10, <1>11, <1>12,
           <1>13, <1>14, <1>15 DEF Next

LEMMA IInvForwardedHead ==
    ASSUME IInv
    PROVE  ForwardedHead
<1> SUFFICES ASSUME pc = "dispatch" \/ reply # NoReply
             PROVE  ForwardedHead
    BY Zenon DEF ForwardedHead
<1> DEFINE tunnel    == websocket # "none"
           nominated == parse_connection_tokens(req.head)
           removed   == OwnHeaders \cup HopHeaders \cup ClientOnly \cup {"sec-websocket-key"}
<1>1. /\ protocol \in {"Http1", "Http2"} /\ sent = Expected(req, protocol)
      /\ websocket \in Forwarded /\ IsFunction(req.head)
    BY Zenon, RequestsAssumption DEF IInv, IsHead, IsFunction
<1>2. SentAs(sent, req, protocol)
    BY Zenon, <1>1, ExpectedHead
<1>3. /\ "sec-websocket-accept" \notin DOMAIN req.head
      /\ ~tunnel => "sec-websocket-key" \notin DOMAIN req.head
    BY <1>1, HandshakeFree DEF websocket, Forwarded
<1>4. \A n \in OwnHeaders :
          Lines(sent, n) =
              CASE n = "host" /\ protocol = "Http1" -> <<public_authority(req)>>
                [] n = "x-forwarded-host" -> <<public_authority(req)>>
                [] n = "x-forwarded-for" -> <<derive_client_ip(req)>>
                [] n = "x-forwarded-proto" -> << <<"https">> >>
                [] n = "x-auth-mini-user-id" -> << <<"user">> >>
                [] OTHER -> <<>>
    BY Zenon, <1>1, <1>2
       DEF SentAs, Lines, Has, OwnHeaders, AuthMiniPrefixed, ForwardedPrefixed, websocket
<1>5. DOMAIN sent \cap (HopHeaders \cup ClientOnly) =
          IF tunnel /\ protocol = "Http1" THEN {"connection", "upgrade"} ELSE {}
    BY <1>1, <1>2 DEF SentAs, HopHeaders, ClientOnly, websocket
<1>6. Has(sent, "sec-websocket-key") <=> tunnel /\ protocol = "Http1"
    BY <1>1, <1>2, <1>3 DEF SentAs, Has, websocket
<1>7. Without(sent, removed) = Without(req.head, removed \cup nominated)
    <2>1. DOMAIN sent \ removed = DOMAIN req.head \ (removed \cup nominated)
        BY SMTT(60), <1>1, <1>2, <1>3 DEF SentAs, OwnHeaders, AuthMiniPrefixed, ForwardedPrefixed,
                                HopHeaders, ClientOnly, websocket
    <2>2. ASSUME NEW n \in DOMAIN sent \ removed
          PROVE  sent[n] = req.head[n]
        BY Zenon, <1>2, <2>1 DEF SentAs, OwnHeaders, AuthMiniPrefixed, ForwardedPrefixed,
                          HopHeaders, ClientOnly
    <2> HIDE DEF removed, nominated
    <2> QED BY Zenon, <2>1, <2>2 DEF Without, Restrict
<1> QED BY Zenon, <1>4, <1>5, <1>6, <1>7 DEF ForwardedHead

\* Whatever names a client writes into its head, with whatever lines, and
\* whichever it nominates in Connection, the head forward sends has the
\* gateway's own headers with the gateway's values, none of the headers only
\* the client and the gateway share, and the rest as it came
\* (sanitize_request_headers, prepare_websocket).
THEOREM EveryForwardedHead ==
    Spec => []ForwardedHead
<1>1. IInv => ForwardedHead
    BY Zenon, IInvForwardedHead
<1> QED BY InitIInv, NextIInv, <1>1, PTL DEF Spec

-----------------------------------------------------------------------------
(* The head of an answer.                                                  *)

\* kept[i] of filter_application_cookies.
Keeps(kept, lines, n) ==
    kept = [i \in 0 .. n |->
               IF i = 0 THEN <<>>
               ELSE IF is_allowed_application_cookie(lines[i])
               THEN Append(kept[i - 1], lines[i])
               ELSE kept[i - 1]]

\* There are such sequences for a prefix of every length, so filter_application_cookies
\* is defined.
LEMMA KeptExists ==
    ASSUME NEW lines \in Seq(Seq(STRING))
    PROVE  \A n \in 0 .. Len(lines) : \E kept : Keeps(kept, lines, n)
<1> DEFINE without == {n \in 0 .. Len(lines) : ~ \E kept : Keeps(kept, lines, n)}
<1> SUFFICES ASSUME without # {} PROVE FALSE
    BY Zenon
<1>0. Len(lines) \in Nat
    OBVIOUS
<1>1. PICK n \in without : \A m \in without : n <= m
    <2>1. without \in SUBSET Nat
        BY <1>0
    <2> HIDE DEF without
    <2> QED BY Zenon, <2>1, LeastElement
<1>2. n \in Nat /\ n <= Len(lines)
    BY <1>0, <1>1
<1>3. CASE n = 0
    <2> DEFINE k == [i \in 0 .. 0 |-> <<>>]
    <2>1. Keeps(k, lines, 0)
        BY DEF Keeps
    <2> QED BY Zenon, <1>1, <1>3, <2>1
<1>4. CASE n # 0
    <2>1. n - 1 \in 0 .. Len(lines) /\ ~ (n <= n - 1)
        BY <1>0, <1>2, <1>4
    <2>2. PICK old : Keeps(old, lines, n - 1)
        BY Zenon, <1>1, <2>1
    <2> DEFINE k == [i \in 0 .. n |->
                        IF i < n THEN old[i]
                        ELSE IF is_allowed_application_cookie(lines[n])
                        THEN Append(old[n - 1], lines[n]) ELSE old[n - 1]]
    <2>3. Keeps(k, lines, n)
        <3>1. ASSUME NEW i \in 0 .. n
              PROVE  k[i] = IF i = 0 THEN <<>>
                            ELSE IF is_allowed_application_cookie(lines[i])
                            THEN Append(k[i - 1], lines[i])
                            ELSE k[i - 1]
            <4>1. CASE i < n
                <5>1. i \in 0 .. (n - 1) /\ (i # 0 => i - 1 \in 0 .. n /\ i - 1 < n)
                    BY <1>2, <4>1
                <5>2. old[i] = IF i = 0 THEN <<>>
                               ELSE IF is_allowed_application_cookie(lines[i])
                               THEN Append(old[i - 1], lines[i])
                               ELSE old[i - 1]
                    BY Zenon, <2>2, <5>1 DEF Keeps
                <5>3. k[i] = old[i] /\ (i # 0 => k[i - 1] = old[i - 1])
                    BY Zenon, <4>1, <5>1
                <5> QED BY Zenon, <5>2, <5>3
            <4>2. CASE i = n
                <5>1. n - 1 \in 0 .. n /\ n - 1 < n /\ ~ (n < n)
                    BY <1>2, <1>4
                <5>2. k[n - 1] = old[n - 1]
                    BY Zenon, <5>1
                <5> QED BY Zenon, <1>4, <4>2, <5>1, <5>2
            <4> QED BY <1>2, <4>1, <4>2
        <3>2. k = [i \in 0 .. n |-> k[i]]
            BY Zenon
        <3> HIDE DEF k
        <3> QED BY Zenon, <3>1, <3>2 DEF Keeps
    <2> QED BY Zenon, <1>1, <2>3
<1> QED BY Zenon, <1>3, <1>4

AllowedLines(lines) ==
    /\ lines \in Seq(Seq(STRING))
    /\ \A i \in DOMAIN lines : is_allowed_application_cookie(lines[i])

\* What is kept are allowed lines.
LEMMA KeptAllowed ==
    ASSUME NEW lines \in Seq(Seq(STRING)), NEW kept, Keeps(kept, lines, Len(lines))
    PROVE  \A n \in 0 .. Len(lines) : AllowedLines(kept[n])
<1> DEFINE wrong == {n \in 0 .. Len(lines) : ~AllowedLines(kept[n])}
<1> SUFFICES ASSUME wrong # {} PROVE FALSE
    BY Zenon
<1>0. Len(lines) \in Nat
    OBVIOUS
<1>1. PICK n \in wrong : \A m \in wrong : n <= m
    <2>1. wrong \in SUBSET Nat
        BY <1>0
    <2> HIDE DEF wrong
    <2> QED BY Zenon, <2>1, LeastElement
<1>2. n \in Nat /\ n \in 0 .. Len(lines)
    BY <1>0, <1>1
<1>3. kept[n] = IF n = 0 THEN <<>>
                ELSE IF is_allowed_application_cookie(lines[n])
                THEN Append(kept[n - 1], lines[n])
                ELSE kept[n - 1]
    BY Zenon, <1>2 DEF Keeps
<1>4. CASE n = 0
    <2>1. AllowedLines(<<>>)
        BY DEF AllowedLines
    <2> QED BY Zenon, <1>1, <1>3, <1>4, <2>1
<1>5. CASE n # 0
    <2>1. n - 1 \in 0 .. Len(lines) /\ ~ (n <= n - 1) /\ lines[n] \in Seq(STRING)
        BY <1>0, <1>2, <1>5
    <2>2. AllowedLines(kept[n - 1])
        BY Zenon, <1>1, <2>1
    <2>3. CASE is_allowed_application_cookie(lines[n])
        <3> DEFINE short == kept[n - 1]
                   line  == lines[n]
        <3>1. short \in Seq(Seq(STRING)) /\ line \in Seq(STRING)
            BY Zenon, <2>1, <2>2 DEF AllowedLines
        <3>2. /\ \A i \in DOMAIN short : is_allowed_application_cookie(short[i])
              /\ is_allowed_application_cookie(line)
            BY Zenon, <2>2, <2>3 DEF AllowedLines
        <3>3. kept[n] = Append(short, line)
            BY Zenon, <1>3, <1>5, <2>3
        <3> HIDE DEF short, line
        <3>4. Append(short, line) \in Seq(Seq(STRING))
            BY <3>1
        <3>5. ASSUME NEW i \in DOMAIN Append(short, line)
              PROVE  is_allowed_application_cookie(Append(short, line)[i])
            <4>1. \/ i \in DOMAIN short /\ Append(short, line)[i] = short[i]
                  \/ Append(short, line)[i] = line
                BY <3>1
            <4> QED BY Zenon, <3>2, <4>1
        <3> QED BY Zenon, <1>1, <3>3, <3>4, <3>5 DEF AllowedLines
    <2>4. CASE ~is_allowed_application_cookie(lines[n])
        BY Zenon, <1>1, <1>3, <1>5, <2>2, <2>4
    <2> QED BY Zenon, <2>3, <2>4
<1> QED BY Zenon, <1>4, <1>5

\* filter_application_cookies returns allowed lines.
LEMMA AllowedCookies ==
    ASSUME NEW lines \in Seq(Seq(STRING))
    PROVE  AllowedLines(filter_application_cookies(lines))
<1> DEFINE kept == CHOOSE k : Keeps(k, lines, Len(lines))
<1>0. Len(lines) \in 0 .. Len(lines)
    OBVIOUS
<1>1. \E k : Keeps(k, lines, Len(lines))
    BY Zenon, <1>0, KeptExists
<1>2. Keeps(kept, lines, Len(lines))
    BY Zenon, <1>1
<1>3. filter_application_cookies(lines) = kept[Len(lines)]
    BY Zenon DEF filter_application_cookies, Keeps
<1> HIDE DEF kept
<1> QED BY Zenon, <1>0, <1>2, <1>3, KeptAllowed

\* The gateway's own cookies among set-cookie lines.
Own(lines) == {line \in Range(lines) : line[1] \in {"amg_session", "amg_login_state"}}

\* h is what sanitize_response_head may make of head.
SanitizedAs(h, head, cookies) ==
    /\ DOMAIN h \cap HopHeaders = {}
    /\ \A n \in DOMAIN h \ {"set-cookie"} : n \in DOMAIN head /\ h[n] = head[n]
    /\ OwnCookies(h) = Own(cookies)

LEMMA SanitizedHead ==
    ASSUME NEW head, IsHead(head), NEW L, NEW cookies \in Seq(L)
    PROVE  SanitizedAs(sanitize_response_head(head, cookies), head, cookies)
<1> DEFINE removed  == parse_connection_tokens(head) \cup HopHeaders
                           \cup {"content-length"} \cup AuthMiniPrefixed
           stripped == Without(head, removed)
           lines    == Lines(stripped, "set-cookie")
           kept     == filter_application_cookies(lines)
           all      == kept \o cookies
           plain    == Without(stripped, {"set-cookie"})
           h        == sanitize_response_head(head, cookies)
<1>1. h = IF all = <<>> THEN plain
          ELSE [n \in DOMAIN plain \cup {"set-cookie"} |->
                   IF n = "set-cookie" THEN all ELSE plain[n]]
    BY Zenon DEF sanitize_response_head
<1>2. HopHeaders \subseteq removed /\ "set-cookie" \notin HopHeaders
    BY Zenon DEF HopHeaders
<1>3. /\ DOMAIN stripped = DOMAIN head \ removed
      /\ \A n \in DOMAIN head \ removed : stripped[n] = head[n]
    <2> HIDE DEF removed
    <2> QED BY Zenon, WithoutHead
<1>4. lines \in Seq(Seq(STRING))
    <2>1. <<>> \in Seq(Seq(STRING))
        OBVIOUS
    <2> HIDE DEF removed, stripped
    <2> QED BY Zenon, <1>3, <2>1 DEF Lines, Has, IsHead
<1>5. AllowedLines(kept)
    <2> HIDE DEF lines
    <2> QED BY Zenon, <1>4, AllowedCookies
<1> HIDE DEF removed, stripped, lines
<1>6. /\ DOMAIN plain = DOMAIN stripped \ {"set-cookie"}
      /\ \A n \in DOMAIN stripped \ {"set-cookie"} : plain[n] = stripped[n]
    BY Zenon, WithoutHead
<1> HIDE DEF kept, plain
<1>7. Own(all) = Own(cookies)
    <2>1. kept \in Seq(Seq(STRING))
        BY Zenon, <1>5 DEF AllowedLines
    <2>2. Range(all) = Range(kept) \cup Range(cookies)
        <3>1. \A i \in DOMAIN all : \/ i \in DOMAIN kept /\ all[i] = kept[i]
                                    \/ \E j \in DOMAIN cookies : all[i] = cookies[j]
            <4>1. ASSUME NEW i \in DOMAIN all, i \notin DOMAIN kept
                  PROVE  i - Len(kept) \in DOMAIN cookies /\ all[i] = cookies[i - Len(kept)]
                BY <2>1, <4>1
            <4>2. \A i \in DOMAIN kept : all[i] = kept[i]
                BY <2>1
            <4> HIDE DEF all
            <4> QED BY Zenon, <4>1, <4>2
        <3>2. \A i \in DOMAIN kept : i \in DOMAIN all /\ all[i] = kept[i]
            BY <2>1
        <3>3. \A j \in DOMAIN cookies : Len(kept) + j \in DOMAIN all /\ all[Len(kept) + j] = cookies[j]
            BY <2>1
        <3> HIDE DEF all
        <3>4. ASSUME NEW line \in Range(all) PROVE line \in Range(kept) \cup Range(cookies)
            <4>1. PICK i \in DOMAIN all : line = all[i]
                BY Zenon DEF Range
            <4> QED BY Zenon, <3>1, <4>1 DEF Range
        <3>5. ASSUME NEW line \in Range(kept) PROVE line \in Range(all)
            BY Zenon, <3>2 DEF Range
        <3>6. ASSUME NEW line \in Range(cookies) PROVE line \in Range(all)
            <4>1. PICK j \in DOMAIN cookies : line = cookies[j]
                BY Zenon DEF Range
            <4> QED BY Zenon, <3>3, <4>1 DEF Range
        <3> QED BY Zenon, <3>4, <3>5, <3>6
    <2>3. \A line \in Range(kept) : line[1] \notin {"amg_session", "amg_login_state"}
        BY Zenon, <1>5 DEF AllowedLines, is_allowed_application_cookie, Range
    <2> HIDE DEF all
    <2> QED BY Zenon, <2>2, <2>3 DEF Own
<1> HIDE DEF all, h
<1>8. CASE all = <<>>
    <2>1. h = plain
        BY Zenon, <1>1, <1>8
    <2>2. Lines(h, "set-cookie") = all
        BY Zenon, <1>6, <1>8, <2>1 DEF Lines, Has
    <2>3. OwnCookies(h) = Own(cookies)
        BY Zenon, <1>7, <2>2 DEF OwnCookies, Own
    <2> QED BY Zenon, <1>2, <1>3, <1>6, <2>1, <2>3 DEF SanitizedAs, h
<1>9. CASE all # <<>>
    <2>1. /\ DOMAIN h = DOMAIN plain \cup {"set-cookie"}
          /\ h["set-cookie"] = all
          /\ \A n \in DOMAIN plain \ {"set-cookie"} : h[n] = plain[n]
        BY Zenon, <1>1, <1>9
    <2>2. Lines(h, "set-cookie") = all
        BY Zenon, <2>1 DEF Lines, Has
    <2>3. OwnCookies(h) = Own(cookies)
        BY Zenon, <1>7, <2>2 DEF OwnCookies, Own
    <2> QED BY Zenon, <1>2, <1>3, <1>6, <2>1, <2>3 DEF SanitizedAs, h
<1> QED BY Zenon, <1>8, <1>9

LEMMA WithCookiesHead ==
    ASSUME NEW head, "set-cookie" \notin DOMAIN head, DOMAIN head \cap HopHeaders = {},
           NEW cookies
    PROVE  /\ DOMAIN WithCookies(head, cookies) \cap HopHeaders = {}
           /\ OwnCookies(WithCookies(head, cookies)) = Own(cookies)
<1>1. "set-cookie" \notin HopHeaders
    BY Zenon DEF HopHeaders
<1>2. Lines(WithCookies(head, cookies), "set-cookie") = cookies
    BY Zenon DEF WithCookies, Lines, Has
<1>3. DOMAIN WithCookies(head, cookies) \subseteq DOMAIN head \cup {"set-cookie"}
    BY Zenon DEF WithCookies
<1> QED BY Zenon, <1>1, <1>2, <1>3 DEF OwnCookies, Own

\* The head of an answer that opens no tunnel: base, closed or not.
ClosedAs(h, base, close, version) ==
    /\ OwnCookies(h) = OwnCookies(base)
    /\ DOMAIN h \cap HopHeaders \subseteq IF version = "HTTP_2" THEN {} ELSE {"connection"}
    /\ Has(h, "connection") => Lines(h, "connection") = << <<"close">> >>
    /\ version # "HTTP_2" /\ close => Lines(h, "connection") = << <<"close">> >>

LEMMA ClosedHead ==
    ASSUME NEW base, DOMAIN base \cap HopHeaders = {}, NEW close \in BOOLEAN, NEW version
    PROVE  ClosedAs(finish_downstream_response(WithClose(base, close), version),
                    base, close, version)
<1> DEFINE c == WithClose(base, close)
           h == finish_downstream_response(c, version)
<1>0. "set-cookie" \notin HopHeaders /\ "connection" \in HopHeaders
    BY Zenon DEF HopHeaders
<1>1. /\ Lines(c, "set-cookie") = Lines(base, "set-cookie")
      /\ DOMAIN c = IF close THEN DOMAIN base \cup {"connection"} ELSE DOMAIN base
      /\ close => c["connection"] = << <<"close">> >>
    BY Zenon, <1>0 DEF WithClose, Insert, Lines, Has
<1> HIDE DEF c
<1>2. CASE version = "HTTP_2"
    <2>1. h = Without(c, HopHeaders)
        BY Zenon, <1>2 DEF finish_downstream_response
    <2> HIDE DEF h
    <2>2. /\ DOMAIN h = DOMAIN c \ HopHeaders
          /\ \A n \in DOMAIN c \ HopHeaders : h[n] = c[n]
        BY Zenon, <2>1, WithoutHead
    <2>3. Lines(h, "set-cookie") = Lines(c, "set-cookie")
        BY Zenon, <1>0, <2>2 DEF Lines, Has
    <2> QED BY Zenon, <1>0, <1>1, <1>2, <2>2, <2>3 DEF ClosedAs, OwnCookies, Has, h, c
<1>3. CASE version # "HTTP_2"
    <2>1. h = c
        BY Zenon, <1>3 DEF finish_downstream_response
    <2> HIDE DEF h
    <2> QED BY Zenon, <1>0, <1>1, <1>3, <2>1 DEF ClosedAs, OwnCookies, Has, Lines, h, c
<1> QED BY Zenon, <1>2, <1>3

\* The head of the answer that opens a tunnel, for a client of each version.
TunnelAs(h, head, cookies, ws) ==
    /\ OwnCookies(h) = Own(cookies)
    /\ DOMAIN h \cap HopHeaders \subseteq IF ws = "Http1" THEN {"connection", "upgrade"} ELSE {}
    /\ ws = "Http1" =>
          /\ Lines(h, "connection") = << <<"upgrade">> >>
          /\ Lines(h, "upgrade") = << <<"websocket">> >>
          /\ Lines(h, "sec-websocket-accept") = << <<websocket_accept("client key")>> >>
    /\ ws = "Http2" => ~Has(h, "sec-websocket-accept")
    /\ \A n \in {"sec-websocket-protocol", "sec-websocket-extensions"} :
          Elements(h, n) \subseteq Elements(head, n)

LEMMA TunnelHead ==
    ASSUME NEW head, IsHead(head), NEW L, NEW cookies \in Seq(L),
           NEW ws \in {"Http1", "Http2"}
    PROVE  TunnelAs(finish_downstream_response(
                        sanitize_websocket_response_head(head, cookies, ws),
                        IF ws = "Http1" THEN "HTTP_11" ELSE "HTTP_2"),
                    head, cookies, ws)
<1> DEFINE first == sanitize_response_head(head, cookies)
           names == {"sec-websocket-key", "sec-websocket-accept", "sec-websocket-version",
                     "origin", "host"}
           plain == Without(first, names)
           h     == finish_downstream_response(sanitize_websocket_response_head(head, cookies, ws),
                        IF ws = "Http1" THEN "HTTP_11" ELSE "HTTP_2")
<1>1. SanitizedAs(first, head, cookies)
    BY Zenon, SanitizedHead
<1>2. h = IF ws = "Http1"
          THEN Insert(Insert(Insert(plain,
                   "connection", <<"upgrade">>),
                   "upgrade", <<"websocket">>),
                   "sec-websocket-accept", <<websocket_accept("client key")>>)
          ELSE Without(Without(plain, HopHeaders), HopHeaders)
    BY Zenon DEF finish_downstream_response, sanitize_websocket_response_head
<1> HIDE DEF first, h
<1>3. /\ DOMAIN plain = DOMAIN first \ names
      /\ \A n \in DOMAIN first \ names : plain[n] = first[n]
    <2> HIDE DEF names
    <2> QED BY Zenon, WithoutHead
<1> HIDE DEF plain
<1>4. /\ DOMAIN plain \cap HopHeaders = {} /\ "sec-websocket-accept" \notin DOMAIN plain
      /\ \A n \in DOMAIN plain \ {"set-cookie"} : n \in DOMAIN head /\ plain[n] = head[n]
      /\ Lines(plain, "set-cookie") = Lines(first, "set-cookie")
    BY Zenon, <1>1, <1>3 DEF SanitizedAs, Lines, Has
<1>5. OwnCookies(plain) = Own(cookies)
    BY Zenon, <1>1, <1>4 DEF SanitizedAs, OwnCookies
<1>6. \A n \in {"sec-websocket-protocol", "sec-websocket-extensions"} :
          Lines(plain, n) = <<>> \/ Lines(plain, n) = Lines(head, n)
    BY Zenon, <1>4 DEF Lines, Has
<1>7. \A n \in {"sec-websocket-protocol", "sec-websocket-extensions"} :
          Elements(plain, n) \subseteq Elements(head, n)
    <2>1. Range(<<>>) = {}
        BY DEF Range
    <2> QED BY Zenon, <1>6, <2>1 DEF Elements
<1>8. {"set-cookie", "sec-websocket-protocol", "sec-websocket-extensions",
       "sec-websocket-accept"} \cap HopHeaders = {}
    BY Zenon DEF HopHeaders
<1>9. CASE ws = "Http1"
    <2>1. /\ DOMAIN h = DOMAIN plain \cup {"connection", "upgrade", "sec-websocket-accept"}
          /\ h["connection"] = << <<"upgrade">> >>
          /\ h["upgrade"] = << <<"websocket">> >>
          /\ h["sec-websocket-accept"] = << <<websocket_accept("client key")>> >>
          /\ \A n \in DOMAIN plain \ {"connection", "upgrade", "sec-websocket-accept"} :
                h[n] = plain[n]
        <3> DEFINE a == Insert(plain, "connection", <<"upgrade">>)
                   b == Insert(a, "upgrade", <<"websocket">>)
        <3>1. /\ DOMAIN a = DOMAIN plain \cup {"connection"}
              /\ a["connection"] = << <<"upgrade">> >>
              /\ \A n \in DOMAIN plain \ {"connection"} : a[n] = plain[n]
            BY Zenon DEF Insert
        <3> HIDE DEF a
        <3>2. /\ DOMAIN b = DOMAIN a \cup {"upgrade"}
              /\ b["upgrade"] = << <<"websocket">> >>
              /\ \A n \in DOMAIN a \ {"upgrade"} : b[n] = a[n]
            BY Zenon DEF Insert
        <3>3. h = Insert(b, "sec-websocket-accept", <<websocket_accept("client key")>>)
            BY Zenon, <1>2, <1>9 DEF a
        <3> HIDE DEF b
        <3>4. /\ DOMAIN h = DOMAIN b \cup {"sec-websocket-accept"}
              /\ h["sec-websocket-accept"] = << <<websocket_accept("client key")>> >>
              /\ \A n \in DOMAIN b \ {"sec-websocket-accept"} : h[n] = b[n]
            BY Zenon, <3>3 DEF Insert
        <3>5. DOMAIN h = DOMAIN plain \cup {"connection", "upgrade", "sec-websocket-accept"}
            BY Zenon, <3>1, <3>2, <3>4
        <3>6. h["connection"] = << <<"upgrade">> >> /\ h["upgrade"] = << <<"websocket">> >>
            BY Zenon, <3>1, <3>2, <3>4
        <3> QED BY Zenon, <3>1, <3>2, <3>4, <3>5, <3>6
    <2>2. \A n \in {"set-cookie", "sec-websocket-protocol", "sec-websocket-extensions"} :
              Lines(h, n) = Lines(plain, n)
        BY Zenon, <2>1 DEF Lines, Has
    <2>3. /\ OwnCookies(h) = OwnCookies(plain)
          /\ \A n \in {"sec-websocket-protocol", "sec-websocket-extensions"} :
                Elements(h, n) = Elements(plain, n)
        BY Zenon, <2>2 DEF OwnCookies, Elements
    <2>4. DOMAIN h \cap HopHeaders \subseteq {"connection", "upgrade"}
        BY Zenon, <1>4, <1>8, <2>1
    <2>5. /\ Lines(h, "connection") = << <<"upgrade">> >>
          /\ Lines(h, "upgrade") = << <<"websocket">> >>
          /\ Lines(h, "sec-websocket-accept") = << <<websocket_accept("client key")>> >>
        BY Zenon, <2>1 DEF Lines, Has
    <2> QED BY Zenon, <1>5, <1>7, <1>9, <2>3, <2>4, <2>5 DEF TunnelAs, h
<1>10. CASE ws = "Http2"
    <2> DEFINE a == Without(plain, HopHeaders)
    <2>1. h = Without(a, HopHeaders)
        BY Zenon, <1>2, <1>10
    <2>2. /\ DOMAIN a = DOMAIN plain \ HopHeaders
          /\ \A n \in DOMAIN plain \ HopHeaders : a[n] = plain[n]
        BY Zenon, WithoutHead
    <2> HIDE DEF a
    <2>3. /\ DOMAIN h = DOMAIN a \ HopHeaders
          /\ \A n \in DOMAIN a \ HopHeaders : h[n] = a[n]
        BY Zenon, <2>1, WithoutHead
    <2>4. \A n \in {"set-cookie", "sec-websocket-protocol", "sec-websocket-extensions"} :
              Lines(h, n) = Lines(plain, n)
        BY Zenon, <1>8, <2>2, <2>3 DEF Lines, Has
    <2>5. /\ OwnCookies(h) = OwnCookies(plain)
          /\ \A n \in {"sec-websocket-protocol", "sec-websocket-extensions"} :
                Elements(h, n) = Elements(plain, n)
        BY Zenon, <2>4 DEF OwnCookies, Elements
    <2>6. DOMAIN h \cap HopHeaders = {} /\ ~Has(h, "sec-websocket-accept")
        BY Zenon, <1>4, <2>2, <2>3 DEF Has
    <2> QED BY Zenon, <1>5, <1>7, <1>10, <2>5, <2>6 DEF TunnelAs, h
<1> QED BY Zenon, <1>9, <1>10

\* What a handshake has.
LEMMA HandshakeHas ==
    ASSUME NEW r
    PROVE  /\ parse_websocket_request(r) = "Http1" =>
                 /\ r.version = "HTTP_11" /\ ~r.body
                 /\ Lines(r.head, "sec-websocket-key") = << <<"client key">> >>
           /\ parse_websocket_request(r) = "Http2" => r.version = "HTTP_2"
<1>1. CASE r.method = "CONNECT" /\ (r.version # "HTTP_2" \/ r.protocol # "websocket")
    BY Zenon, <1>1 DEF parse_websocket_request
<1>2. CASE r.method = "CONNECT" /\ r.version = "HTTP_2" /\ r.protocol = "websocket"
    <2>1. parse_websocket_request(r) \in {"Http2", "bad_request"}
        BY Zenon, <1>2 DEF parse_websocket_request
    <2> QED BY Zenon, <1>2, <2>1
<1>3. CASE r.method # "CONNECT" /\ r.protocol # "none"
    BY Zenon, <1>3 DEF parse_websocket_request
<1>4. CASE r.method # "CONNECT" /\ r.protocol = "none"
    <2>1. \/ parse_websocket_request(r) \in {"none", "bad_request"}
          \/ parse_websocket_request(r) = "Http1" /\ H1Handshake(r)
        BY Zenon, <1>4 DEF parse_websocket_request
    <2> QED BY Zenon, <2>1 DEF H1Handshake
<1> QED BY Zenon, <1>1, <1>2, <1>3, <1>4

\* An upstream that has completed the handshake it was sent, and selected only
\* what was offered.
Completes(r, request, ws, p) ==
    /\ p = "Http1" =>
          /\ r.status = 101
          /\ Lines(r.head, "sec-websocket-accept") =
                 << <<websocket_accept(prepare_websocket(ws, p))>> >>
    /\ p = "Http2" => r.status = 200
    /\ \A n \in {"sec-websocket-protocol", "sec-websocket-extensions"} :
          Elements(r.head, n) \subseteq Elements(request, n)

LEMMA ValidReply ==
    ASSUME NEW r, NEW request, NEW ws \in {"Http1", "Http2"}, NEW p \in {"Http1", "Http2"},
           validate_websocket_upstream_response(r, request, ws, p)
    PROVE  Completes(r, request, ws, p)
<1>1. validate_websocket_response_selections(r.head, request)
    BY Zenon DEF validate_websocket_upstream_response, validate_h1_websocket_response,
                 validate_h2_websocket_response
<1>2. Range(<<>>) = {}
    BY DEF Range
<1>3. Elements(r.head, "sec-websocket-protocol") \subseteq Elements(request, "sec-websocket-protocol")
    <2>1. CASE Has(r.head, "sec-websocket-protocol")
        BY Zenon, <1>1, <2>1 DEF validate_websocket_response_selections, parse_protocols
    <2>2. CASE ~Has(r.head, "sec-websocket-protocol")
        <3>1. Lines(r.head, "sec-websocket-protocol") = <<>>
            BY Zenon, <2>2 DEF Lines
        <3> QED BY Zenon, <1>2, <3>1 DEF Elements
    <2> QED BY Zenon, <2>1, <2>2
<1>4. Elements(r.head, "sec-websocket-extensions")
          \subseteq Elements(request, "sec-websocket-extensions")
    BY Zenon, <1>1 DEF validate_websocket_response_selections, parse_extensions
<1> QED BY Zenon, <1>3, <1>4
        DEF Completes, validate_websocket_upstream_response, validate_h1_websocket_response,
            validate_h2_websocket_response

-----------------------------------------------------------------------------
(* Every answer.                                                           *)

\* The gateway's own cookies that the decision d asks for.
CookiesFor(d) ==
    CASE d = "renewed" -> {{Renewal}}
      [] d = "unauthenticated" -> {{ClearSession}, {ClearSession, LoginState}}
      [] OTHER -> {{}}

\* The decision is there exactly when it has been taken, the handler of the
\* gateway's own routes is reached by these routes only, and every answer has
\* the two properties.
AnswerInv ==
    /\ pc \in {"received", "local", "adapter", "auth"} => decision = "none"
    /\ pc \in {"select", "dispatch"} => decision \in {"allow", "renewed"}
    /\ pc = "local" => Owned(req)
    /\ pc # "answered" => answer = NoAnswer
    /\ TunnelOnlyByHandshake
    /\ AnswerHead

\* The cookies set with the decision d, for a request that is the gateway's own
\* or not.
Asked(own, d, owned) ==
    /\ d # "none" => own \in CookiesFor(d)
    /\ d = "none" /\ ~owned => own = {}

LEMMA PlainAnswer ==
    ASSUME req' = req, NEW base, DOMAIN base \cap HopHeaders = {},
           NEW close \in BOOLEAN, NEW code, code # 101,
           Return(code, WithClose(base, close), FALSE),
           body_bearing => close,
           Asked(OwnCookies(base), decision', Owned(req))
    PROVE  AnswerInv'
<1> DEFINE h == finish_downstream_response(WithClose(base, close), req.version)
<1>1. ClosedAs(h, base, close, req.version)
    BY Zenon, ClosedHead
<1> HIDE DEF h
<1>2. answer' = [status |-> code, head |-> h, tunnel |-> FALSE] /\ pc' = "answered"
    BY Zenon DEF Return, h
<1>3. answer'.status = code /\ answer'.head = h /\ answer'.tunnel = FALSE
    BY <1>2
<1>4. TunnelOnlyByHandshake'
    BY Zenon, <1>3 DEF TunnelOnlyByHandshake
<1>5. req.body \/ Has(req.head, "transfer-encoding") => close
    BY Zenon DEF body_bearing, request_has_body
<1>6. AnswerHead'
    <2>1. decision' # "none" => OwnCookies(answer'.head) \in CookiesFor(decision')
        BY Zenon, <1>1, <1>3 DEF ClosedAs, Asked
    <2>2. decision' = "none" /\ ~Owned(req') => OwnCookies(answer'.head) = {}
        BY Zenon, <1>1, <1>3 DEF ClosedAs, Asked
    <2>3. DOMAIN answer'.head \cap HopHeaders \subseteq
              IF req'.version = "HTTP_2" THEN {}
              ELSE IF answer'.tunnel THEN {"connection", "upgrade"} ELSE {"connection"}
        BY Zenon, <1>1, <1>3 DEF ClosedAs
    <2>4. Has(answer'.head, "connection") => Lines(answer'.head, "connection") = << <<"close">> >>
        BY Zenon, <1>1, <1>3 DEF ClosedAs
    <2>5. req'.version # "HTTP_2" /\ (req'.body \/ Has(req'.head, "transfer-encoding")) =>
              Lines(answer'.head, "connection") = << <<"close">> >>
        BY Zenon, <1>1, <1>3, <1>5 DEF ClosedAs
    <2> QED BY Zenon, <2>1, <2>2, <2>3, <2>4, <2>5 DEF AnswerHead, CookiesFor
<1> QED BY Zenon, <1>2, <1>4, <1>6 DEF AnswerInv

\* generated_response and local_into_hyper.
LEMMA GeneratedAnswer ==
    ASSUME req' = req, NEW close \in BOOLEAN, NEW code, code # 101, NEW cookies,
           Return(code, WithClose(WithCookies(EmptyHead, cookies), close), FALSE),
           body_bearing => close,
           Asked(Own(cookies), decision', Owned(req))
    PROVE  AnswerInv'
<1> DEFINE base == WithCookies(EmptyHead, cookies)
<1>1. "set-cookie" \notin DOMAIN EmptyHead /\ DOMAIN EmptyHead \cap HopHeaders = {}
    BY Zenon DEF EmptyHead
<1>2. DOMAIN base \cap HopHeaders = {} /\ OwnCookies(base) = Own(cookies)
    BY Zenon, <1>1, WithCookiesHead
<1> HIDE DEF base
<1> QED BY Zenon, <1>2, PlainAnswer DEF base

LEMMA RangeNone ==
    Range(<<>>) = {}
BY DEF Range

LEMMA RangeOne ==
    ASSUME NEW a PROVE Range(<<a>>) = {a}
BY DEF Range

LEMMA RangeTwo ==
    ASSUME NEW a, NEW b PROVE Range(<<a, b>>) = {a, b}
<1>1. DOMAIN <<a, b>> = {1, 2} /\ <<a, b>>[1] = a /\ <<a, b>>[2] = b
    OBVIOUS
<1> QED BY Zenon, <1>1 DEF Range

\* The gateway's own cookies among those it sets.
LEMMA OwnOnes ==
    /\ Own(<<>>) = {}
    /\ Own(<<Renewal>>) = {Renewal}
    /\ Own(<<ClearSession>>) = {ClearSession}
    /\ Own(<<ClearSession, LoginState>>) = {ClearSession, LoginState}
<1>1. /\ Range(<<>>) = {} /\ Range(<<Renewal>>) = {Renewal}
      /\ Range(<<ClearSession>>) = {ClearSession}
      /\ Range(<<ClearSession, LoginState>>) = {ClearSession, LoginState}
    BY Zenon, RangeNone, RangeOne, RangeTwo
<1>2. Renewal[1] = "amg_session" /\ ClearSession[1] = "amg_session" /\ LoginState[1] = "amg_login_state"
    BY DEF Renewal, ClearSession, LoginState
<1> QED BY Zenon, <1>1, <1>2 DEF Own

\* An answer without cookies.
LEMMA BareAnswer ==
    ASSUME req' = req, NEW close \in BOOLEAN, NEW code, code # 101,
           Return(code, WithClose(WithCookies(EmptyHead, <<>>), close), FALSE),
           body_bearing => close,
           decision' \notin {"renewed", "unauthenticated"}
    PROVE  AnswerInv'
<1>1. Asked(Own(<<>>), decision', Owned(req))
    BY Zenon, OwnOnes DEF Asked, CookiesFor
<1> QED BY Zenon, <1>1, GeneratedAnswer

\* A step that goes on.
LEMMA GoingOn ==
    ASSUME AnswerInv, UNCHANGED <<req, answer>>, pc # "answered", pc' # "answered",
           pc' \in {"received", "local", "adapter", "auth"} => decision' = "none",
           pc' \in {"select", "dispatch"} => decision' \in {"allow", "renewed"},
           pc' = "local" => Owned(req)
    PROVE  AnswerInv'
<1>1. answer' = NoAnswer
    BY Zenon DEF AnswerInv
<1>2. answer'.tunnel = FALSE /\ answer'.status = 0
    BY <1>1 DEF NoAnswer
<1>3. TunnelOnlyByHandshake' /\ AnswerHead'
    <2>1. 0 # 101
        OBVIOUS
    <2> QED BY Zenon, <1>2, <2>1 DEF TunnelOnlyByHandshake, AnswerHead
<1> QED BY Zenon, <1>1, <1>3 DEF AnswerInv

LEMMA BodyBearing ==
    body_bearing \in BOOLEAN
BY Zenon DEF body_bearing, request_has_body

LEMMA CheckStep ==
    ASSUME AnswerInv, pc = "received", UNCHANGED <<req, decision>>,
           NEW checks, DOMAIN checks \subseteq Nat,
           \A i \in DOMAIN checks : checks[i][2] # 101 /\ checks[i][3] \in {TRUE, body_bearing},
           NEW next \in {"local", "adapter", "auth"}, next = "local" => Owned(req),
           Check(checks, next)
    PROVE  AnswerInv'
<1>1. decision' = "none" /\ pc # "answered"
    BY Zenon DEF AnswerInv
<1>2. CASE FirstFailure(checks)[1] = 0
    <2>1. pc' = next /\ UNCHANGED answer
        BY Zenon, <1>2 DEF Check
    <2> QED BY Zenon, <1>1, <2>1, GoingOn
<1>3. CASE FirstFailure(checks)[1] # 0
    <2>1. PICK i \in DOMAIN checks : FirstFailure(checks) = <<checks[i][2], checks[i][3]>>
        BY Zenon, <1>3, ChecksFail
    <2>2. FirstFailure(checks)[1] = checks[i][2] /\ FirstFailure(checks)[2] = checks[i][3]
        BY <2>1
    <2>3. generated_response(checks[i][2], checks[i][3], <<>>)
        BY Zenon, <1>3, <2>2 DEF Check
    <2>4. checks[i][2] # 101 /\ checks[i][3] \in BOOLEAN /\ (body_bearing => checks[i][3])
        BY Zenon, BodyBearing
    <2> QED BY Zenon, <1>1, <2>3, <2>4, BareAnswer DEF generated_response
<1> QED BY Zenon, <1>2, <1>3

\* The cookies of an allowed request.
LEMMA RenewalAsked ==
    ASSUME NEW d \in {"allow", "renewed"}
    PROVE  /\ renewal(d) \in Seq({Renewal})
           /\ Own(renewal(d)) \in CookiesFor(d)
<1>1. <<>> \in Seq({Renewal}) /\ <<Renewal>> \in Seq({Renewal})
    OBVIOUS
<1> QED BY Zenon, <1>1, OwnOnes DEF renewal, CookiesFor

LEMMA ForwardErrorStep ==
    ASSUME AnswerInv, pc \in {"select", "dispatch"}, UNCHANGED <<req, decision>>,
           NEW code, code # 101, ForwardError(code)
    PROVE  AnswerInv'
<1>1. decision \in {"allow", "renewed"}
    BY Zenon DEF AnswerInv
<1>2. Asked(Own(renewal(decision)), decision', Owned(req))
    BY Zenon, <1>1, RenewalAsked DEF Asked
<1>3. Return(code, WithClose(WithCookies(EmptyHead, renewal(decision)), body_bearing), FALSE)
    BY Zenon DEF ForwardError, generated_response
<1> QED BY Zenon, <1>2, <1>3, BodyBearing, GeneratedAnswer

\* The answer to a request that was not a handshake.
LEMMA RepliedStep ==
    ASSUME AnswerInv, pc = "dispatch", UNCHANGED <<req, decision>>,
           NEW r \in Replies, r.status # 101, NEW close \in BOOLEAN, body_bearing => close,
           Return(r.status, WithClose(sanitize_response_head(r.head, renewal(decision)), close),
                  FALSE)
    PROVE  AnswerInv'
<1>1. decision \in {"allow", "renewed"} /\ IsHead(r.head)
    BY Zenon, RepliesAssumption DEF AnswerInv
<1> DEFINE base == sanitize_response_head(r.head, renewal(decision))
<1>2. SanitizedAs(base, r.head, renewal(decision))
    BY Zenon, <1>1, RenewalAsked, SanitizedHead
<1> HIDE DEF base
<1>3. DOMAIN base \cap HopHeaders = {} /\ OwnCookies(base) = Own(renewal(decision))
    BY Zenon, <1>2 DEF SanitizedAs
<1>4. Asked(OwnCookies(base), decision', Owned(req))
    BY Zenon, <1>1, <1>3, RenewalAsked DEF Asked
<1>5. Return(r.status, WithClose(base, close), FALSE)
    BY Zenon DEF base
<1> QED BY Zenon, <1>3, <1>4, <1>5, PlainAnswer

\* The answer that opens a tunnel.
LEMMA TunnelStep ==
    ASSUME IInv, AnswerInv, pc = "dispatch", UNCHANGED <<req, decision, protocol, sent>>,
           NEW r \in Replies, reply' = r, websocket # "none",
           validate_websocket_upstream_response(r, req.head, websocket, protocol),
           Return(IF websocket = "Http1" THEN 101 ELSE 200,
                  sanitize_websocket_response_head(r.head, renewal(decision), websocket), TRUE)
    PROVE  AnswerInv'
<1>1. /\ decision \in {"allow", "renewed"} /\ IsHead(r.head)
      /\ websocket \in {"Http1", "Http2"} /\ protocol \in {"Http1", "Http2"}
      /\ sent = Expected(req, protocol) /\ req \in Requests
    BY Zenon, RepliesAssumption DEF AnswerInv, IInv, Forwarded
<1> DEFINE version == IF websocket = "Http1" THEN "HTTP_11" ELSE "HTTP_2"
           h == finish_downstream_response(
                    sanitize_websocket_response_head(r.head, renewal(decision), websocket), version)
           code == IF websocket = "Http1" THEN 101 ELSE 200
<1>2. TunnelAs(h, r.head, renewal(decision), websocket)
    BY Zenon, <1>1, RenewalAsked, TunnelHead
<1>3. /\ req.version = version
      /\ websocket = "Http1" =>
            ~req.body /\ Lines(req.head, "sec-websocket-key") = << <<"client key">> >>
    BY Zenon, <1>1, HandshakeHas DEF websocket
<1> HIDE DEF h
<1>4. answer' = [status |-> code, head |-> h, tunnel |-> TRUE] /\ pc' = "answered"
    BY Zenon, <1>3 DEF Return, h
<1>5. answer'.status = code /\ answer'.head = h /\ answer'.tunnel = TRUE
    BY <1>4
<1>6. websocket' = websocket
    BY Zenon DEF websocket
<1>7. Completes(r, req.head, websocket, protocol)
    BY Zenon, <1>1, ValidReply
<1>8. protocol = "Http1" => sent["sec-websocket-key"] = << <<prepare_websocket(websocket, protocol)>> >>
    <2> SUFFICES ASSUME protocol = "Http1"
                 PROVE  sent["sec-websocket-key"] = << <<prepare_websocket(websocket, protocol)>> >>
        OBVIOUS
    <2>1. prepare_websocket(websocket, protocol) # "none"
        BY Zenon DEF prepare_websocket
    <2> QED BY Zenon, <1>1, <2>1 DEF Expected, Insert, websocket
<1>9. protocol = "Http1" => sent["sec-websocket-key"][1][1] = prepare_websocket(websocket, protocol)
    <2> DEFINE key == prepare_websocket(websocket, protocol)
    <2> HIDE DEF key
    <2>1. << <<key>> >>[1][1] = key
        OBVIOUS
    <2> QED BY Zenon, <1>8, <2>1 DEF key
<1>10. websocket = "Http1" => req.head["sec-websocket-key"][1][1] = "client key"
    <2>1. << <<"client key">> >> # <<>> /\ << <<"client key">> >>[1][1] = "client key"
        OBVIOUS
    <2> QED BY Zenon, <1>3, <2>1 DEF Lines
<1>11. TunnelOnlyByHandshake'
    <2>1. IF protocol = "Http1"
          THEN /\ r.status = 101
               /\ Lines(r.head, "sec-websocket-accept") =
                      << <<websocket_accept(sent["sec-websocket-key"][1][1])>> >>
          ELSE r.status = 200
        BY Zenon, <1>1, <1>7, <1>9 DEF Completes
    <2>2. IF req.version = "HTTP_11"
          THEN /\ code = 101
               /\ Lines(h, "connection") = << <<"upgrade">> >>
               /\ Lines(h, "upgrade") = << <<"websocket">> >>
               /\ Lines(h, "sec-websocket-accept") =
                      << <<websocket_accept(req.head["sec-websocket-key"][1][1])>> >>
          ELSE code = 200 /\ ~Has(h, "sec-websocket-accept")
        BY Zenon, <1>1, <1>2, <1>3, <1>10 DEF TunnelAs
    <2>3. \A n \in {"sec-websocket-protocol", "sec-websocket-extensions"} :
              Elements(h, n) \subseteq Elements(req.head, n)
        BY Zenon, <1>2, <1>7 DEF TunnelAs, Completes
    <2>4. <<req.version, websocket>> \in {<<"HTTP_11", "Http1">>, <<"HTTP_2", "Http2">>}
        BY Zenon, <1>1, <1>3
    <2> HIDE DEF code, version
    <2> QED BY Zenon, <1>1, <1>5, <1>6, <2>1, <2>2, <2>3, <2>4 DEF TunnelOnlyByHandshake
<1>12. AnswerHead'
    <2>1. OwnCookies(h) \in CookiesFor(decision) /\ decision # "none"
        BY Zenon, <1>1, <1>2, RenewalAsked DEF TunnelAs
    <2>2. DOMAIN h \cap HopHeaders \subseteq
              IF req.version = "HTTP_2" THEN {} ELSE {"connection", "upgrade"}
        BY Zenon, <1>1, <1>2, <1>3 DEF TunnelAs
    <2>3. ~(req.version # "HTTP_2" /\ (req.body \/ Has(req.head, "transfer-encoding")))
        BY Zenon, <1>1, <1>3, RequestsAssumption
    <2> HIDE DEF code, version
    <2> QED BY Zenon, <1>5, <2>1, <2>2, <2>3 DEF AnswerHead, CookiesFor
<1> QED BY Zenon, <1>4, <1>11, <1>12 DEF AnswerInv

LEMMA InitAnswerInv ==
    Init => AnswerInv
<1> SUFFICES ASSUME Init PROVE AnswerInv
    OBVIOUS
<1>1. pc = "received" /\ decision = "none" /\ answer = NoAnswer
    BY Zenon DEF Init
<1>2. answer.tunnel = FALSE /\ answer.status # 101
    BY <1>1 DEF NoAnswer
<1> QED BY Zenon, <1>1, <1>2 DEF AnswerInv, TunnelOnlyByHandshake, AnswerHead

LEMMA FallbackAnswers ==
    ASSUME AnswerInv, handle_proxy_fallback
    PROVE  AnswerInv'
<1> DEFINE checks ==
             << <<DOMAIN req.head \cap {"x_auth_mini_user_id"} = {}, 400, TRUE>>,
                <<websocket # "bad_request", 400, TRUE>>,
                <<websocket # "method_not_allowed", 405, TRUE>>,
                <<classify_fallback_target(req), 400, TRUE>>,
                <<public_authority_known(req), 400, TRUE>>,
                <<normalize_return_target(req.path), 400, body_bearing>>,
                <<validate_expect(req), 417, TRUE>>,
                <<derive_client_ip_known(req), 400, TRUE>>,
                <<proxy_auth_cookie(req), 400, TRUE>> >>
<1>1. pc = "received" /\ UNCHANGED <<req, decision>> /\ Check(checks, "auth")
    BY Zenon DEF handle_proxy_fallback, Routed
<1>2. DOMAIN checks = 1..9
    OBVIOUS
<1>3. /\ \A i \in 1..9 : checks[i][2] # 101
      /\ \A i \in 1..9 : i # 6 => checks[i][3] = TRUE
      /\ checks[6][3] = body_bearing
    OBVIOUS
<1>4. 1..9 \subseteq Nat
    OBVIOUS
<1> HIDE DEF checks
<1>5. \A i \in DOMAIN checks : checks[i][2] # 101 /\ checks[i][3] \in {TRUE, body_bearing}
    BY Zenon, <1>2, <1>3
<1>6. DOMAIN checks \subseteq Nat
    BY Zenon, <1>2, <1>4
<1> QED BY Zenon, <1>1, <1>5, <1>6, CheckStep

LEMMA LocalChecks ==
    ASSUME AnswerInv, NEW proxy_mode \in BOOLEAN, handle_local_request(proxy_mode)
    PROVE  AnswerInv'
<1> DEFINE checks ==
             << <<proxy_auth_cookie(req), 400, TRUE>>,
                <<validate_expect(req), 417, TRUE>>,
                <<Lines(req.head, "content-length") # << <<"huge">> >>, 400, TRUE>> >>
<1>1. /\ pc = "received" /\ UNCHANGED <<req, decision>>
      /\ Check(checks, IF Owned(req) THEN "local" ELSE "adapter")
    BY Zenon DEF handle_local_request, Routed
<1>2. DOMAIN checks = 1..3
    OBVIOUS
<1>3. /\ \A i \in 1..3 : checks[i][2] # 101
      /\ \A i \in 1..3 : checks[i][3] = TRUE
    OBVIOUS
<1>4. 1..3 \subseteq Nat
    OBVIOUS
<1> HIDE DEF checks
<1>5. \A i \in DOMAIN checks : checks[i][2] # 101 /\ checks[i][3] \in {TRUE, body_bearing}
    BY Zenon, <1>2, <1>3
<1>6. DOMAIN checks \subseteq Nat
    BY Zenon, <1>2, <1>4
<1>7. CASE Owned(req)
    BY Zenon, <1>1, <1>5, <1>6, <1>7, CheckStep
<1>8. CASE ~Owned(req)
    BY Zenon, <1>1, <1>5, <1>6, <1>8, CheckStep
<1> QED BY Zenon, <1>7, <1>8

\* A route of the gateway's own is answered with no cookie of a decision.
LEMMA LocalAnswers ==
    ASSUME AnswerInv, LocalAnswer
    PROVE  AnswerInv'
<1>1. /\ pc = "local" /\ UNCHANGED <<req, decision>> /\ Owned(req) /\ decision' = "none"
    BY Zenon DEF LocalAnswer, AnswerInv
<1>2. PICK a \in handle_request(req) : local_into_hyper(a[1], body_bearing, a[2])
    BY Zenon DEF LocalAnswer
<1>3. a[1] \in {204, 200, 302, 400, 401, 403, 404}
    <2> DEFINE r == route(req)
    <2>1. CASE r = <<"GET", "/healthz">>
        BY <1>2, <2>1 DEF handle_request
    <2>2. CASE r = <<"GET", "/auth/callback">>
        BY <1>2, <2>2 DEF handle_request
    <2>3. CASE r = <<"GET", "/login">>
        BY <1>2, <2>3 DEF handle_request
    <2>4. CASE r = <<"POST", "/auth/callback/session">>
        BY <1>2, <2>4 DEF handle_request
    <2>5. CASE r \in {<<"GET", "/logout">>, <<"POST", "/logout">>}
        BY <1>2, <2>5 DEF handle_request
    <2>6. CASE r \notin {<<"GET", "/healthz">>, <<"GET", "/auth/callback">>, <<"GET", "/login">>,
                         <<"POST", "/auth/callback/session">>, <<"GET", "/logout">>,
                         <<"POST", "/logout">>}
        BY <1>2, <2>6 DEF handle_request
    <2> QED BY Zenon, <2>1, <2>2, <2>3, <2>4, <2>5, <2>6
<1>4. a[1] # 101
    BY <1>3
<1>5. Asked(Own(a[2]), decision', Owned(req))
    BY Zenon, <1>1 DEF Asked
<1>6. Return(a[1], WithClose(WithCookies(EmptyHead, a[2]), body_bearing), FALSE)
    BY Zenon, <1>2 DEF local_into_hyper
<1> QED BY Zenon, <1>1, <1>4, <1>5, <1>6, BodyBearing, GeneratedAnswer

LEMMA AuthCheckAnswers ==
    ASSUME AnswerInv, handle_auth_check
    PROVE  AnswerInv'
<1>1. pc = "local" /\ UNCHANGED <<req, protocol, sent, reply>>
    BY Zenon DEF handle_auth_check
<1>2. PICK d \in Decisions :
          /\ decision' = d
          /\ CASE d \in {"allow", "renewed"} ->
                    Return(204, WithClose(WithCookies(
                               Insert(EmptyHead, "x-auth-mini-user-id", <<"user">>),
                               renewal(d)), body_bearing), FALSE)
               [] d = "unauthenticated" ->
                    local_into_hyper(401, body_bearing, <<ClearSession>>)
               [] d = "forbidden" -> local_into_hyper(403, body_bearing, <<>>)
               [] d = "unavailable" -> local_into_hyper(503, body_bearing, <<>>)
    BY Zenon DEF handle_auth_check
<1>4. CASE d \in {"allow", "renewed"}
    <2> DEFINE head == Insert(EmptyHead, "x-auth-mini-user-id", <<"user">>)
               base == WithCookies(head, renewal(d))
    <2>1. "set-cookie" \notin DOMAIN head /\ DOMAIN head \cap HopHeaders = {}
        BY Zenon DEF Insert, EmptyHead, HopHeaders
    <2> HIDE DEF head
    <2>2. DOMAIN base \cap HopHeaders = {} /\ OwnCookies(base) = Own(renewal(d))
        BY Zenon, <2>1, WithCookiesHead
    <2>3. Asked(OwnCookies(base), decision', Owned(req))
        BY Zenon, <1>2, <1>4, <2>2, RenewalAsked DEF Asked
    <2> DEFINE code == 204
    <2>4. Return(code, WithClose(base, body_bearing), FALSE)
        BY Zenon, <1>2, <1>4 DEF head
    <2>5. code # 101
        OBVIOUS
    <2> HIDE DEF base, code
    <2> QED BY Zenon, <1>1, <2>2, <2>3, <2>4, <2>5, BodyBearing, PlainAnswer
<1>5. CASE d = "unauthenticated"
    <2> DEFINE code == 401
    <2>0. code # 101
        OBVIOUS
    <2>1. Return(code, WithClose(WithCookies(EmptyHead, <<ClearSession>>), body_bearing), FALSE)
        BY Zenon, <1>2, <1>5 DEF local_into_hyper
    <2> HIDE DEF code
    <2>2. Asked(Own(<<ClearSession>>), decision', Owned(req))
        BY Zenon, <1>2, <1>5, OwnOnes DEF Asked, CookiesFor
    <2> QED BY Zenon, <1>1, <2>0, <2>1, <2>2, BodyBearing, GeneratedAnswer
<1>6. CASE d = "forbidden"
    <2> DEFINE code == 403
    <2>0. code # 101
        OBVIOUS
    <2>1. Return(code, WithClose(WithCookies(EmptyHead, <<>>), body_bearing), FALSE)
        BY Zenon, <1>2, <1>6 DEF local_into_hyper
    <2> HIDE DEF code
    <2>2. decision' \notin {"renewed", "unauthenticated"}
        BY Zenon, <1>2, <1>6
    <2> QED BY Zenon, <1>1, <2>0, <2>1, <2>2, BodyBearing, BareAnswer
<1>7. CASE d = "unavailable"
    <2> DEFINE code == 503
    <2>0. code # 101
        OBVIOUS
    <2>1. Return(code, WithClose(WithCookies(EmptyHead, <<>>), body_bearing), FALSE)
        BY Zenon, <1>2, <1>7 DEF local_into_hyper
    <2> HIDE DEF code
    <2>2. decision' \notin {"renewed", "unauthenticated"}
        BY Zenon, <1>2, <1>7
    <2> QED BY Zenon, <1>1, <2>0, <2>1, <2>2, BodyBearing, BareAnswer
<1> QED BY Zenon, <1>4, <1>5, <1>6, <1>7 DEF Decisions

LEMMA AuthAnswers ==
    ASSUME AnswerInv, execute_proxy_auth
    PROVE  AnswerInv'
<1>1. pc = "auth" /\ UNCHANGED <<req, protocol, sent, reply>>
    BY Zenon DEF execute_proxy_auth
<1>2. PICK d \in Decisions :
          /\ decision' = d
          /\ CASE d \in {"allow", "renewed"} -> pc' = "select" /\ UNCHANGED answer
               [] d = "unauthenticated" ->
                    \/ local_into_hyper(302, body_bearing, <<ClearSession, LoginState>>)
                    \/ generated_response(500, body_bearing, <<ClearSession>>)
               [] d = "forbidden" -> generated_response(403, body_bearing, <<>>)
               [] d = "unavailable" -> generated_response(503, body_bearing, <<>>)
    BY Zenon DEF execute_proxy_auth
<1>4. CASE d \in {"allow", "renewed"}
    <2>1. pc' = "select" /\ answer' = answer /\ decision' = d
        BY Zenon, <1>2, <1>4
    <2> QED BY Zenon, <1>1, <1>4, <2>1, GoingOn
<1>5. CASE d = "unauthenticated"
    <2> DEFINE c == 302
               e == 500
    <2>1. c # 101 /\ e # 101
        OBVIOUS
    <2>2. \/ Return(c, WithClose(WithCookies(EmptyHead, <<ClearSession, LoginState>>),
                                 body_bearing), FALSE)
          \/ Return(e, WithClose(WithCookies(EmptyHead, <<ClearSession>>), body_bearing), FALSE)
        BY Zenon, <1>2, <1>5 DEF local_into_hyper, generated_response
    <2> HIDE DEF c, e
    <2>3. /\ Asked(Own(<<ClearSession>>), decision', Owned(req))
          /\ Asked(Own(<<ClearSession, LoginState>>), decision', Owned(req))
        BY Zenon, <1>2, <1>5, OwnOnes DEF Asked, CookiesFor
    <2> QED BY Zenon, <1>1, <2>1, <2>2, <2>3, BodyBearing, GeneratedAnswer
<1>6. CASE d = "forbidden"
    <2> DEFINE code == 403
    <2>0. code # 101
        OBVIOUS
    <2>1. Return(code, WithClose(WithCookies(EmptyHead, <<>>), body_bearing), FALSE)
        BY Zenon, <1>2, <1>6 DEF generated_response
    <2> HIDE DEF code
    <2>2. decision' \notin {"renewed", "unauthenticated"}
        BY Zenon, <1>2, <1>6
    <2> QED BY Zenon, <1>1, <2>0, <2>1, <2>2, BodyBearing, BareAnswer
<1>7. CASE d = "unavailable"
    <2> DEFINE code == 503
    <2>0. code # 101
        OBVIOUS
    <2>1. Return(code, WithClose(WithCookies(EmptyHead, <<>>), body_bearing), FALSE)
        BY Zenon, <1>2, <1>7 DEF generated_response
    <2> HIDE DEF code
    <2>2. decision' \notin {"renewed", "unauthenticated"}
        BY Zenon, <1>2, <1>7
    <2> QED BY Zenon, <1>1, <2>0, <2>1, <2>2, BodyBearing, BareAnswer
<1> QED BY Zenon, <1>4, <1>5, <1>6, <1>7 DEF Decisions

LEMMA SendAnswers ==
    ASSUME AnswerInv, forward_send
    PROVE  AnswerInv'
<1>1. pc = "select" /\ UNCHANGED <<req, decision, reply>>
    BY Zenon DEF forward_send
<1>2. \/ ForwardError(502)
      \/ pc' = "dispatch" /\ UNCHANGED answer
    <2>1. PICK tls \in BOOLEAN, configured \in {"Auto", "Http1", "Http2"},
               alpn \in {"none", "h2", "http/1.1", "other"}, extended_connect \in BOOLEAN :
              LET p == select_actual_protocol(configured, tls, alpn)
                  plain == sanitize_request_headers(req.head, From(req), websocket # "none", p)
                  key == prepare_websocket(websocket, p)
              IN  /\ ~tls => configured # "Auto" /\ alpn = "none"
                  /\ IF p = "error"
                        \/ (websocket # "none" /\ p = "Http2" /\ ~extended_connect)
                     THEN ForwardError(502) /\ UNCHANGED <<protocol, sent>>
                     ELSE /\ protocol' = p
                          /\ sent' = IF websocket = "none" \/ key = "none" THEN plain
                                     ELSE Insert(plain, "sec-websocket-key", <<key>>)
                          /\ pc' = "dispatch" /\ UNCHANGED answer
        BY Zenon DEF forward_send
    <2> QED BY Zenon, <2>1
<1>3. CASE ForwardError(502)
    <2>1. PICK code : code # 101 /\ ForwardError(code)
        BY <1>3
    <2> QED BY Zenon, <1>1, <2>1, ForwardErrorStep
<1>4. CASE pc' = "dispatch" /\ UNCHANGED answer
    <2>1. decision' \in {"allow", "renewed"}
        BY Zenon, <1>1 DEF AnswerInv
    <2> QED BY Zenon, <1>1, <1>4, <2>1, GoingOn
<1> QED BY Zenon, <1>2, <1>3, <1>4

LEMMA ReplyAnswers ==
    ASSUME IInv, AnswerInv, forward_reply
    PROVE  AnswerInv'
<1>1. pc = "dispatch" /\ UNCHANGED <<req, decision, protocol, sent>>
    BY Zenon DEF forward_reply
<1>2. PICK r \in Replies, upload_complete \in BOOLEAN :
          /\ r.version \in VersionsOf(protocol) /\ (upload_complete \/ req.body)
          /\ reply' = r
          /\ IF websocket # "none"
             THEN IF validate_websocket_upstream_response(r, req.head, websocket, protocol)
                  THEN Return(IF websocket = "Http1" THEN 101 ELSE 200,
                              sanitize_websocket_response_head(
                                  r.head, renewal(decision), websocket),
                              TRUE)
                  ELSE ForwardError(502)
             ELSE IF r.status = 101 \/ ~connection_tokens_parse(r.head) THEN ForwardError(502)
             ELSE Return(r.status,
                         WithClose(sanitize_response_head(r.head, renewal(decision)),
                                   body_bearing \/ ~upload_complete),
                         FALSE)
    BY Zenon DEF forward_reply
<1>3. CASE ForwardError(502)
    <2>1. PICK code : code # 101 /\ ForwardError(code)
        BY <1>3
    <2> QED BY Zenon, <1>1, <2>1, ForwardErrorStep
<1>4. CASE /\ websocket # "none"
           /\ validate_websocket_upstream_response(r, req.head, websocket, protocol)
    <2>1. Return(IF websocket = "Http1" THEN 101 ELSE 200,
                 sanitize_websocket_response_head(r.head, renewal(decision), websocket), TRUE)
        BY Zenon, <1>2, <1>4
    <2> QED BY Zenon, <1>1, <1>2, <1>4, <2>1, TunnelStep
<1>5. CASE websocket = "none" /\ r.status # 101 /\ connection_tokens_parse(r.head)
    <2> DEFINE close == body_bearing \/ ~upload_complete
    <2>1. Return(r.status, WithClose(sanitize_response_head(r.head, renewal(decision)), close),
                 FALSE)
        BY Zenon, <1>2, <1>5
    <2>2. close \in BOOLEAN /\ (body_bearing => close)
        BY Zenon, BodyBearing
    <2> HIDE DEF close
    <2> QED BY Zenon, <1>1, <1>5, <2>1, <2>2, RepliedStep
<1> QED BY Zenon, <1>2, <1>3, <1>4, <1>5

LEMMA NextAnswerInv ==
    IInv /\ AnswerInv /\ [Next]_vars => AnswerInv'
<1> SUFFICES ASSUME IInv, AnswerInv, [Next]_vars PROVE AnswerInv'
    OBVIOUS
<1>1. CASE Refuse
    <2>1. decision' = "none" /\ req' = req
        BY Zenon, <1>1 DEF Refuse, AnswerInv
    <2> DEFINE c == 400
               e == 405
    <2>2. c # 101 /\ e # 101
        OBVIOUS
    <2>3. generated_response(c, TRUE, <<>>) \/ generated_response(e, TRUE, <<>>)
        BY Zenon, <1>1 DEF Refuse
    <2> HIDE DEF c, e
    <2> QED BY Zenon, <2>1, <2>2, <2>3, BareAnswer DEF generated_response
<1>2. CASE handle_proxy_fallback
    BY Zenon, <1>2, FallbackAnswers
<1>3. CASE \E proxy_mode \in BOOLEAN : handle_local_request(proxy_mode)
    BY Zenon, <1>3, LocalChecks
<1>4. CASE CollectFails
    <2>1. decision' = "none" /\ req' = req
        BY Zenon, <1>4 DEF CollectFails, AnswerInv
    <2> DEFINE c == 400
    <2>2. c # 101
        OBVIOUS
    <2>3. generated_response(c, TRUE, <<>>)
        BY Zenon, <1>4 DEF CollectFails
    <2> HIDE DEF c
    <2> QED BY Zenon, <2>1, <2>2, <2>3, BareAnswer DEF generated_response
<1>5. CASE AdapterFallback
    <2>1. decision' = "none" /\ req' = req
        BY Zenon, <1>5 DEF AdapterFallback, AnswerInv
    <2>2. PICK code : code # 101 /\ local_into_hyper(code, body_bearing, <<>>)
        BY <1>5 DEF AdapterFallback
    <2> QED BY Zenon, <2>1, <2>2, BodyBearing, BareAnswer DEF local_into_hyper
<1>6. CASE LocalAnswer
    BY Zenon, <1>6, LocalAnswers
<1>7. CASE LocalFails
    <2>1. decision' = "none" /\ req' = req
        BY Zenon, <1>7 DEF LocalFails, AnswerInv
    <2>2. PICK code : code # 101 /\ local_into_hyper(code, body_bearing, <<>>)
        BY <1>7 DEF LocalFails
    <2> QED BY Zenon, <2>1, <2>2, BodyBearing, BareAnswer DEF local_into_hyper
<1>8. CASE handle_auth_check
    BY Zenon, <1>8, AuthCheckAnswers
<1>9. CASE execute_proxy_auth
    BY Zenon, <1>9, AuthAnswers
<1>10. CASE proxy_auth_execution_error
    <2>1. decision' = "none" /\ req' = req
        BY Zenon, <1>10 DEF proxy_auth_execution_error, AnswerInv
    <2>2. PICK code : code # 101 /\ generated_response(code, body_bearing, <<>>)
        BY <1>10 DEF proxy_auth_execution_error
    <2> QED BY Zenon, <2>1, <2>2, BodyBearing, BareAnswer DEF generated_response
<1>11. CASE SelectFails
    <2>1. PICK code : code # 101 /\ ForwardError(code)
        BY <1>11 DEF SelectFails
    <2>2. pc \in {"select", "dispatch"} /\ UNCHANGED <<req, decision>>
        BY Zenon, <1>11 DEF SelectFails
    <2> QED BY Zenon, <2>1, <2>2, ForwardErrorStep
<1>12. CASE forward_send
    BY Zenon, <1>12, SendAnswers
<1>13. CASE DispatchFails
    <2>1. PICK code : code # 101 /\ ForwardError(code)
        BY <1>13 DEF DispatchFails
    <2>2. pc \in {"select", "dispatch"} /\ UNCHANGED <<req, decision>>
        BY Zenon, <1>13 DEF DispatchFails
    <2> QED BY Zenon, <2>1, <2>2, ForwardErrorStep
<1>14. CASE forward_reply
    BY Zenon, <1>14, ReplyAnswers
<1>15. CASE UNCHANGED vars
    BY Zenon, <1>15 DEF vars, AnswerInv, TunnelOnlyByHandshake, AnswerHead, websocket
<1> QED BY Zenon, <1>1, <1>2, <1>3, <1>4, <1>5, <1>6, <1>7, <1>8, <1>9, <1>10, <1>11, <1>12,
           <1>13, <1>14, <1>15 DEF Next

LEMMA AnswersInvariant ==
    Spec => [](IInv /\ AnswerInv)
<1>1. Init => IInv /\ AnswerInv
    BY Zenon, InitIInv, InitAnswerInv
<1>2. IInv /\ AnswerInv /\ [Next]_vars => IInv' /\ AnswerInv'
    BY Zenon, NextIInv, NextAnswerInv
<1> QED BY <1>1, <1>2, PTL DEF Spec

\* For every request and every response of an upstream: a tunnel is opened for
\* an allowed handshake that the upstream has completed with the accept value
\* of the key it was sent, over each of the four bridges, and the client is
\* answered in its own version with its own accept value and with selections it
\* offered; nothing else is answered 101 (forward).
THEOREM TunnelsAreHandshakes ==
    Spec => []TunnelOnlyByHandshake
<1>1. AnswerInv => TunnelOnlyByHandshake
    BY Zenon DEF AnswerInv
<1> QED BY AnswersInvariant, <1>1, PTL

\* For every request and every response of an upstream, whatever cookies it
\* sets and headers it nominates: the answer has exactly the session cookies
\* the decision asked for, no hop-by-hop header of the upstream's, and closes
\* an HTTP/1 connection whose request body may be unread (auth_decision,
\* sanitize_response_head, finish_downstream_response).
THEOREM EveryAnswerHead ==
    Spec => []AnswerHead
<1>1. AnswerInv => AnswerHead
    BY Zenon DEF AnswerInv
<1> QED BY AnswersInvariant, <1>1, PTL
=============================================================================
