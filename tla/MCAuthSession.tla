--------------------------- MODULE MCAuthSession ---------------------------
(***************************************************************************)
(* Small instances of AuthSession for TLC.                                 *)
(***************************************************************************)
EXTENDS AuthSession, TLC

CONSTANTS r1, r2, p1, p2, alice, bob, home_aud, other_aud

OneProcess  == (r1 :> p1) @@ (r2 :> p1)
Alone       == r1 :> p1
OneEach     == (r1 :> p1) @@ (r2 :> p2)
TwoRequests == Permutations({r1, r2})
TwoGateways == {(r1 :> r2) @@ (r2 :> r1) @@ (p1 :> p2) @@ (p2 :> p1)}
OneConfig   == {[aud |-> home_aud, allow |-> TRUE]}
TwoConfigs  == {[aud |-> home_aud, allow |-> TRUE], [aud |-> other_aud, allow |-> FALSE]}
=============================================================================
