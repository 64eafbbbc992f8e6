----------------------------- MODULE MCUpstream -----------------------------
(***************************************************************************)
(* A small instance of the two modules of the HTTP/1 exchanges with the    *)
(* upstream for TLC.  A behaviour is one of Upstream (part "pool"), beside *)
(* an exchange that is over, or one of Exchange (part "exchange"), beside  *)
(* an idle pool.                                                           *)
(***************************************************************************)
EXTENDS Upstream, Exchange

VARIABLE part

Over ==
    /\ is_complete = TRUE /\ is_cancelled = FALSE /\ waker = FALSE /\ woken = FALSE
    /\ poll = "gone" /\ terminal = TRUE /\ handler = "over" /\ cancelling = "done"
    /\ tunnel = "over" /\ up = "none" /\ down = "none" /\ lease = TRUE
    /\ req_done = TRUE /\ resp_done = TRUE /\ permit = FALSE

MCInit ==
    /\ Init
    /\ \/ part = "pool" /\ Over
       \/ part = "exchange" /\ ExchangeInit

MCNext ==
    /\ \/ part = "pool" /\ Next /\ UNCHANGED exchangeVars
       \/ part = "exchange" /\ ExchangeNext /\ UNCHANGED vars
    /\ UNCHANGED part

MCSpec == MCInit /\ [][MCNext]_<<part, vars, exchangeVars>> /\ Fairness /\ ExchangeFairness
=============================================================================
