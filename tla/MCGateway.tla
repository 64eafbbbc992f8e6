----------------------------- MODULE MCGateway -----------------------------
(***************************************************************************)
(* A small instance of two modules for TLC.  A behaviour is one of         *)
(* ProxyRequest (part "request"; its instance is in MCProxyRequest) or one *)
(* of H2Proof (part "proof"); the variables of the other keep their        *)
(* initial values.                                                         *)
(***************************************************************************)
EXTENDS MCProxyRequest

CONSTANT NULL

VARIABLES
    part,
    frames, wrote, tosend, towrite, inbound, outbound, status, control, dropped, gate, settings,
    broken                                                                 \* H2Proof

\* The constants of H2Proof.
HEADER == 2
PAIR == 2
PREFACE == 2
H2_INITIAL_SETTINGS_MAX == 4
WINDOW_MAX == 1
FRAME_SIZES == {1}

Set(id, value) == [id |-> id, value |-> value]
Frame(type, ack, stream, pairs, extra) ==
    [type |-> type, ack |-> ack, stream |-> stream, pairs |-> pairs, extra |-> extra]

On      == Set("ENABLE_CONNECT", 1)
Off     == Set("ENABLE_CONNECT", 0)
Neither == Set("ENABLE_CONNECT", 2)
Streams == Set("MAX_CONCURRENT_STREAMS", 1)
Settings(pairs) == Frame("SETTINGS", FALSE, 0, pairs, 0)

\* First frames: none to two settings, of which the last value counts; and every way to be
\* no valid first SETTINGS.
Valid == {Settings(ps) : ps \in {<<>>, <<On>>, <<On, Off>>, <<Off, On>>, <<Streams, On>>}}
Invalid ==
    {Settings(<<On, p>>) : p \in {Set("ENABLE_PUSH", 0), Set("INITIAL_WINDOW_SIZE", 2),
                                  Set("MAX_FRAME_SIZE", 2), Neither}}
    \cup {Frame("SETTINGS", TRUE, 0, <<>>, 0), Frame("SETTINGS", FALSE, 1, <<>>, 0),
          Frame("SETTINGS", FALSE, 0, <<>>, 1), Frame("SETTINGS", FALSE, 0, <<>>, 6),
          Frame("HEADERS", FALSE, 1, <<>>, 2)}

\* Later frames: SETTINGS, of which the last legal offer counts, an acknowledgement, others.
Laters ==
    {Settings(<<On, Off>>), Settings(<<Off, On>>), Settings(<<Off, Neither>>),
     Frame("SETTINGS", TRUE, 0, <<>>, 0), Frame("HEADERS", FALSE, 1, <<>>, 3),
     Frame("SETTINGS", FALSE, 0, <<Off>>, 1)}

Inbounds == {<<f, g>> : f \in Valid, g \in Laters} \cup {<<f, Settings(<<On>>)>> : f \in Invalid}

\* Hyper sends its own SETTINGS, may send more, and acknowledges the upstream's.
Ack == Frame("SETTINGS", TRUE, 0, <<>>, 0)
Outbounds ==
    {<<Frame("SETTINGS", FALSE, 0, <<>>, 0), Frame("WINDOW_UPDATE", FALSE, 0, <<>>, 1), Ack>>}

P == INSTANCE H2Proof

proofVars == <<frames, wrote, tosend, towrite, inbound, outbound, status, control, dropped, gate,
               settings, broken>>

SomeRequest == CHOOSE r \in Targets : r.path = "/app"
SomeInbound == CHOOSE f \in Inbounds : TRUE

MCInit ==
    \/ part = "request" /\ frames = SomeInbound /\ P!Init /\ Init
    \/ part = "proof" /\ req = SomeRequest /\ Init /\ P!Init

MCNext ==
    /\ \/ part = "request" /\ Next /\ UNCHANGED proofVars
       \/ part = "proof" /\ P!Next /\ UNCHANGED vars
    /\ UNCHANGED part

MCSpec == MCInit /\ [][MCNext]_<<part, vars, proofVars>>
-----------------------------------------------------------------------------
\* H2Proof: however the bytes are cut, what is proved of a connection is what its upstream
\* has sent.
ProvedAsSent == P!ProvedAsSent
=============================================================================
