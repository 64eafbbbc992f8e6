-------------------------------- MODULE Jwks --------------------------------
(***************************************************************************)
(* The keys of auth-mini, which it may rotate at any moment, and the       *)
(* gateway's copy: AuthMiniClient::jwks caches one key set for all threads *)
(* and fetches it outside the lock, so that answers may overtake each      *)
(* other; verify_access_token judges a token by it (src/src/auth_mini.rs,  *)
(* src/src/jwt.rs).  A refresh takes the key set first and uses it after   *)
(* its call.                                                               *)
(***************************************************************************)
EXTENDS Naturals, Sequences, FiniteSets, Functions

CONSTANTS
    Calls,        \* threads that verify tokens
    Keys,         \* kids, of which FirstKey is published at first
    FirstKey,
    Tokens,       \* access tokens that may be presented
    Issuer, Audience,
    CACHE_TTL,    \* 300 seconds
    TIMEOUT,      \* of the client, 10 seconds
    NoJwks,
    LastInstant   \* bound: last value of the clock

\* Keys has every kid a token may name, also the ones that are never published.
ASSUME JwksAssumption ==
    /\ FirstKey \in Keys
    /\ \A t \in Tokens : t.kid \in Keys /\ t.exp \in Nat
    /\ CACHE_TTL \in Nat \ {0} /\ TIMEOUT \in Nat

VARIABLES
    instant,      \* the clock
    key,          \* each key at auth-mini: new, published or retired
    changed,      \* history: when that was last changed
    jwks_cache,   \* AuthMiniClient.jwks_cache
    step,         \* where each call is
    purpose,      \* initial login or refresh
    jwks,         \* the key set it has, or auth-mini's answer on its way
    started       \* when its current call of auth-mini began

jwksVars == <<instant, key, changed, jwks_cache, step, purpose, jwks, started>>

published == {k \in Keys : key[k] = "published"}

JwksInit ==
    /\ instant = 0
    /\ key = [k \in Keys |-> IF k = FirstKey THEN "published" ELSE "new"]
    /\ changed = [k \in Keys |-> 0]
    /\ jwks_cache = NoJwks
    /\ step = [c \in Calls |-> "idle"] /\ purpose = [c \in Calls |-> "initial"]
    /\ jwks = [c \in Calls |-> {}] /\ started = [c \in Calls |-> 0]

Continue(c, next) ==
    /\ step' = [step EXCEPT ![c] = next]
    /\ started' = [started EXCEPT ![c] = IF next \in {"fetch", "refresh"} THEN instant
                                         ELSE IF next = "served" THEN @ ELSE 0]

Holds(c, ks) == jwks' = [jwks EXCEPT ![c] = ks]

-----------------------------------------------------------------------------
(* AuthMiniClient::jwks.                                                   *)

fresh_Mutant(cache) == TRUE

fresh(cache) == instant - cache.created < CACHE_TTL

Asked(c) == IF purpose'[c] = "initial" THEN "verify" ELSE "ask"

\* The first look, under the lock: a fresh key set, or a request to auth-mini.
LookUp(c) ==
    /\ step[c] = "idle"
    /\ \E p \in {"initial", "refresh"} : purpose' = [purpose EXCEPT ![c] = p]
    /\ \/ /\ jwks_cache # NoJwks /\ fresh(jwks_cache)
          /\ Continue(c, Asked(c)) /\ Holds(c, jwks_cache.keys)
       \/ /\ jwks_cache # NoJwks => ~fresh(jwks_cache)
          /\ Continue(c, "fetch") /\ UNCHANGED jwks
    /\ UNCHANGED <<instant, key, changed, jwks_cache>>

\* auth-mini answers with the keys it has now; the answer is on its way.
Served(c) ==
    /\ step[c] = "fetch"
    /\ Continue(c, "served") /\ Holds(c, published)
    /\ UNCHANGED <<instant, key, changed, jwks_cache, purpose>>

\* The answer is stored with the time it is stored at, whatever is there by then.
Stored(c) ==
    /\ step[c] = "served"
    /\ jwks_cache' = [created |-> instant, keys |-> jwks[c]]
    /\ purpose' = purpose /\ Continue(c, Asked(c))
    /\ UNCHANGED <<instant, key, changed, jwks>>

\* AuthMini::refresh, between prepare_refresh_verifier and verify_refreshed_access.
refresh(c) ==
    /\ step[c] = "ask"
    /\ Continue(c, "refresh")
    /\ UNCHANGED <<instant, key, changed, jwks_cache, purpose, jwks>>

refreshed(c) ==
    /\ step[c] = "refresh"
    /\ Continue(c, "verify")
    /\ UNCHANGED <<instant, key, changed, jwks_cache, purpose, jwks>>

\* A call of auth-mini fails: its transport, its time, its status or its body.
CallFails(c) ==
    /\ step[c] \in {"fetch", "served", "refresh"}
    /\ Continue(c, "idle") /\ Holds(c, {})
    /\ purpose' = [purpose EXCEPT ![c] = "initial"]
    /\ UNCHANGED <<instant, key, changed, jwks_cache>>

-----------------------------------------------------------------------------
(* verify_access_token.                                                    *)

\* One string, or an array in which nothing is empty.
audience_claim_contains(aud, expected) ==
    CASE aud.form = "string" -> aud.names = <<expected>>
      [] aud.form = "array"  -> expected \in Range(aud.names) /\ "" \notin Range(aud.names)
      [] OTHER -> FALSE

\* Key and signature first, then the claims, the audience last.
verify_access_token(token, ks, now_unix) ==
    IF \/ token.alg # "EdDSA" \/ token.kid \notin ks \/ ~token.signed
       \/ token.iss # Issuer \/ token.typ # "access" \/ token.exp <= now_unix
    THEN "Invalid"
    ELSE IF ~audience_claim_contains(token.aud, Audience) THEN "AudienceRejected" ELSE "Ok"

\* verify_initial_access and verify_refreshed_access, of whatever token there is.
VerifyToken(c) ==
    /\ step[c] = "verify"
    /\ Continue(c, "idle") /\ Holds(c, {})
    /\ purpose' = [purpose EXCEPT ![c] = "initial"]
    /\ UNCHANGED <<instant, key, changed, jwks_cache>>

-----------------------------------------------------------------------------
\* auth-mini publishes a key or retires it, for good.
Rotate(k) ==
    /\ key[k] # "retired"
    /\ key' = [key EXCEPT ![k] = IF @ = "new" THEN "published" ELSE "retired"]
    /\ changed' = [changed EXCEPT ![k] = instant]
    /\ UNCHANGED <<instant, jwks_cache, step, purpose, jwks, started>>

\* Time passes only between calls of auth-mini and during them, up to their timeout.
JwksTick ==
    /\ instant < LastInstant
    /\ \A c \in Calls : \/ step[c] = "idle"
                        \/ step[c] \in {"fetch", "served", "refresh"} /\ instant < started[c] + TIMEOUT
    /\ instant' = instant + 1
    /\ UNCHANGED <<key, changed, jwks_cache, step, purpose, jwks, started>>

JwksNext ==
    \/ \E c \in Calls : \/ LookUp(c) \/ Served(c) \/ Stored(c) \/ refresh(c) \/ refreshed(c)
                        \/ CallFails(c) \/ VerifyToken(c)
    \/ \E k \in Keys : Rotate(k)
    \/ JwksTick

JwksSpec == JwksInit /\ [][JwksNext]_jwksVars
-----------------------------------------------------------------------------
(* Properties.                                                             *)

\* The longest a rotation may go unnoticed: the age of the cache, the fetch that filled it
\* and, for a refresh, the call in between.
Lag(p) == CACHE_TTL - 1 + TIMEOUT + (IF p = "refresh" THEN TIMEOUT ELSE 0)

Sound(t, now_unix) ==
    t.alg = "EdDSA" /\ t.signed /\ t.iss = Issuer /\ t.typ = "access" /\ now_unix < t.exp

\* However fetches overtake each other and whenever auth-mini rotates its keys: a token is
\* taken only if it is sound and its key is published, or was until at most Lag ago; a
\* sound token of a published key is refused as invalid only if the key is newer than that;
\* and the audience is the reason only for a token that is right in everything else.
VerdictsFollowRotation ==
    \A c \in Calls, t \in Tokens : step[c] = "verify" =>
       LET result   == verify_access_token(t, jwks[c], instant)
           recently == instant <= changed[t.kid] + Lag(purpose[c])
       IN  /\ result # "Invalid" =>
                /\ Sound(t, instant)
                /\ key[t.kid] = "published" \/ (key[t.kid] = "retired" /\ recently)
                /\ result = "Ok" <=> audience_claim_contains(t.aud, Audience)
           /\ result = "Invalid" /\ Sound(t, instant) /\ key[t.kid] = "published" => recently
=============================================================================
