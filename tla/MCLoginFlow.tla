----------------------------- MODULE MCLoginFlow -----------------------------
(***************************************************************************)
(* A small instance of the three modules around a login for TLC.  A        *)
(* behaviour is one of LoginFlow (part "login"), of SessionCookie (part    *)
(* "cookie") or of Jwks (part "jwks"); the variables of the other two keep *)
(* their initial values.                                                   *)
(***************************************************************************)
EXTENDS LoginFlow, SessionCookie, Jwks, TLC

VARIABLE part

\* Tokens of both keys, some of which expire soon; then every form of audience, and a token
\* that is no access token.
Token(kid, exp, form, names) ==
    [alg |-> "EdDSA", kid |-> kid, signed |-> TRUE, iss |-> "issuer", typ |-> "access",
     exp |-> exp, aud |-> [form |-> form, names |-> names]]
MCTokens ==
    {Token(k, exp, "string", <<"gateway">>) : k \in Keys, exp \in {2, 9}}
    \cup {Token("key 1", 9, "array", <<"other", "gateway">>),
          Token("key 1", 9, "array", <<"gateway", "">>), Token("key 1", 9, "none", <<>>),
          [Token("key 1", 9, "string", <<"gateway">>) EXCEPT !.typ = "refresh"]}

MCInit == part \in {"login", "cookie", "jwks"} /\ Init /\ CookieInit /\ JwksInit

MCNext ==
    /\ \/ part = "login" /\ Next /\ UNCHANGED <<cookieVars, jwksVars>>
       \/ part = "cookie" /\ CookieNext /\ UNCHANGED <<vars, jwksVars>>
       \/ part = "jwks" /\ JwksNext /\ UNCHANGED <<vars, cookieVars>>
    /\ UNCHANGED part

MCSpec == MCInit /\ [][MCNext]_<<part, vars, cookieVars, jwksVars>>

\* Requests and the ids of login states are interchangeable; so are the tabs and the
\* sessions of SessionCookie, which the configuration gives the same values.
LoginSymmetry == Permutations(Requests) \cup Permutations(LoginStates)
=============================================================================
