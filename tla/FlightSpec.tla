----------------------------- MODULE FlightSpec -----------------------------
(***************************************************************************)
(* What the single-flight registry of src/src/flight.rs promises for one   *)
(* session: among the threads that ask for a flight at most one leads; the *)
(* others join it, if the leader works on the version of the session they  *)
(* have seen, or wait until it is over; and the outcome the leader         *)
(* publishes reaches all of them in one step.                              *)
(***************************************************************************)
CONSTANTS
    Threads,    \* threads that run auth checks
    Versions,   \* versions of the session row a thread may have observed
    Outcomes    \* FlightOutcome

VARIABLES
    asked,      \* the version each thread asks with, while it asks
    role,       \* what each thread is to the flight
    accepted,   \* accepted_versions of the flight
    got         \* the outcome each thread has been given

flightSpecVars == <<asked, role, accepted, got>>

Roles == {"none", "leader", "joined", "closing"}

\* No outcome yet; FlightOutcome has no such value.
nothing == "nothing"

FlightInit ==
    /\ asked = [t \in Threads |-> {}]
    /\ role = [t \in Threads |-> "none"]
    /\ accepted = {}
    /\ got = [t \in Threads |-> nothing]

\* The call of acquire with the version the thread has read from its row.
ask(t, v) ==
    /\ role[t] = "none" /\ asked[t] = {}
    /\ asked' = [asked EXCEPT ![t] = {v}]
    /\ UNCHANGED <<role, accepted, got>>

acquire(t) ==
    LET led == \E u \in Threads : role[u] = "leader"
    IN  /\ asked[t] # {}
        /\ asked' = [asked EXCEPT ![t] = {}]
        /\ role' = [role EXCEPT ![t] = IF ~led THEN "leader"
                                       ELSE IF asked[t] \subseteq accepted THEN "joined"
                                       ELSE "closing"]
        /\ accepted' = IF led THEN accepted ELSE asked[t]
        /\ got' = [got EXCEPT ![t] = nothing]

add_alias(t, v) ==
    /\ role[t] = "leader"
    /\ accepted' = accepted \cup {v}
    /\ UNCHANGED <<asked, role, got>>

\* The leader and the joined threads have the outcome, the others only know that
\* the flight is over.
complete_Mutant(t, o) ==
    /\ role[t] = "leader"
    /\ role' = [u \in Threads |-> IF role[u] = "closing" THEN "closing" ELSE "none"]
    /\ accepted' = {}
    /\ got' = [u \in Threads |-> IF role[u] \in {"leader", "joined"} THEN o ELSE got[u]]
    /\ UNCHANGED asked

complete(t, o) ==
    /\ role[t] = "leader"
    /\ role' = [u \in Threads |-> "none"]
    /\ accepted' = {}
    /\ got' = [u \in Threads |-> IF role[u] \in {"leader", "joined"} THEN o ELSE got[u]]
    /\ UNCHANGED asked

\* The caller has acted on the outcome.
forget(t) ==
    /\ role[t] = "none"
    /\ got' = [got EXCEPT ![t] = nothing]
    /\ UNCHANGED <<asked, role, accepted>>

FlightNext ==
    \E t \in Threads :
        \/ acquire(t) \/ forget(t)
        \/ \E v \in Versions : ask(t, v) \/ add_alias(t, v)
        \/ \E o \in Outcomes : complete(t, o)

FlightsSpec == FlightInit /\ [][FlightNext]_flightSpecVars

-----------------------------------------------------------------------------
FlightSpecTypeOK ==
    /\ asked \in [Threads -> SUBSET Versions]
    /\ role \in [Threads -> Roles]
    /\ accepted \subseteq Versions
    /\ got \in [Threads -> Outcomes \cup {nothing}]

\* At most one thread leads, and nobody waits for a flight that nobody leads.
OneLeader ==
    /\ \A t, u \in Threads : role[t] = "leader" /\ role[u] = "leader" => t = u
    /\ (\E t \in Threads : role[t] # "none") => \E t \in Threads : role[t] = "leader"
=============================================================================
