------------------------------- MODULE H2Proof -------------------------------
(***************************************************************************)
(* How src/src/proxy.rs learns what an HTTP/2 upstream offers, before it   *)
(* sends the first request and ever after: H2ProofIo stands between Hyper  *)
(* and the socket, and shows every byte that passes to two incremental     *)
(* parsers, ServerFrameScanner for what the upstream sends and             *)
(* ClientAckParser for what Hyper sends.  PrivateH2Gate::prove waits for   *)
(* the verdict.  The socket cuts the stream where it likes, so a header or *)
(* a setting may arrive in several reads.                                  *)
(*                                                                         *)
(* A byte is the frame header or the setting it belongs to with its place  *)
(* there, so that bytes put together wrongly decode to nothing.  The sizes *)
(* are constants: a header has 9 bytes, a setting 6, the preface 24.       *)
(***************************************************************************)
EXTENDS Naturals, Sequences, FiniteSets, SequencesExt

CONSTANTS
    HEADER, PAIR, PREFACE,       \* bytes of a frame header, a setting, the client's preface
    H2_INITIAL_SETTINGS_MAX,     \* the longest first SETTINGS
    WINDOW_MAX, FRAME_SIZES,     \* legal windows are up to the one, frame sizes in the other
    Inbounds,                    \* sequences of frames the upstream may send
    Outbounds,                   \* sequences of frames Hyper may send
    NULL

VARIABLES
    frames, wrote,     \* what the upstream and Hyper send on this connection
    tosend, towrite,   \* the bytes of it that have not passed yet
    inbound,           \* H2ProofParser.inbound: ServerFrameScanner
    outbound,          \* H2ProofParser.outbound: ClientAckParser
    status,            \* H2ProofState.status
    control,           \* GenerationControl
    dropped,           \* H2ProofState.transport_dropped
    gate,              \* PrivateH2Gate::prove
    settings,          \* its result
    broken             \* history: a read or a write has failed, or the upstream has closed

vars == <<frames, wrote, tosend, towrite, inbound, outbound, status, control, dropped, gate,
          settings, broken>>

-----------------------------------------------------------------------------
(* Frames and their bytes.                                                 *)

HeaderOf(f) == [type |-> f.type, ack |-> f.ack, stream |-> f.stream,
                length |-> PAIR * Len(f.pairs) + f.extra]

Bytes(part, of, n) == [k \in 1 .. n |-> [part |-> part, of |-> of, at |-> k]]

Encode(f) ==
    Bytes("header", HeaderOf(f), HEADER)
        \o FlattenSeq([i \in DOMAIN f.pairs |-> Bytes("pair", f.pairs[i], PAIR)])
        \o Bytes("data", NULL, f.extra)

Encoded(fs) == FlattenSeq([i \in DOMAIN fs |-> Encode(fs[i])])

\* from_be_bytes of the bytes collected, when they are those of one header or one setting.
Decode(part, bytes, garbled) ==
    IF \A k \in DOMAIN bytes :
          bytes[k].part = part /\ bytes[k].at = k /\ bytes[k].of = bytes[1].of
    THEN bytes[1].of
    ELSE garbled

NoHeader == [type |-> "other", ack |-> FALSE, stream |-> 0, length |-> 0]
NoPair   == [id |-> "other", value |-> 0]

Least(S) == CHOOSE x \in S : \A y \in S : x <= y

IsSettings(h) == h.type = "SETTINGS" /\ ~h.ack /\ h.stream = 0 /\ h.length % PAIR = 0

InitialH2Settings == [extended_connect |-> FALSE, max_concurrent_streams |-> NULL]

-----------------------------------------------------------------------------
(* ServerFrameScanner.                                                     *)

Scanner == [header |-> <<>>, payload_remaining |-> 0, payload |-> "Skip", pair |-> <<>>,
            frame_extended_connect |-> NULL, building_initial |-> InitialH2Settings,
            settings |-> NULL, error |-> FALSE, initial |-> NULL, revoke |-> FALSE]

begin_frame(s) ==
    LET h == Decode("header", s.header, NoHeader)
        t == [s EXCEPT !.header = <<>>, !.payload_remaining = h.length, !.pair = <<>>,
                       !.frame_extended_connect = NULL]
    IN  IF s.settings = NULL
        THEN IF IsSettings(h) /\ h.length <= H2_INITIAL_SETTINGS_MAX
             THEN [t EXCEPT !.building_initial = InitialH2Settings, !.payload = "InitialSettings"]
             ELSE [t EXCEPT !.error = TRUE]
        ELSE [t EXCEPT !.payload = IF IsSettings(h) THEN "LaterSettings" ELSE "Skip"]

\* What a setting of the first SETTINGS may not say.
illegal(p) ==
    \/ p.id = "ENABLE_PUSH"
    \/ p.id = "INITIAL_WINDOW_SIZE" /\ p.value > WINDOW_MAX
    \/ p.id = "MAX_FRAME_SIZE" /\ p.value \notin FRAME_SIZES
    \/ p.id = "ENABLE_CONNECT" /\ p.value > 1

consume_pair(s) ==
    LET p == Decode("pair", s.pair, NoPair)
    IN  CASE s.payload = "InitialSettings" /\ illegal(p) -> [s EXCEPT !.error = TRUE]
          [] s.payload = "InitialSettings" /\ p.id = "MAX_CONCURRENT_STREAMS" ->
                [s EXCEPT !.building_initial.max_concurrent_streams = p.value]
          [] s.payload = "InitialSettings" /\ p.id = "ENABLE_CONNECT" /\ p.value <= 1 ->
                [s EXCEPT !.building_initial.extended_connect = (p.value = 1)]
          [] s.payload = "LaterSettings" /\ p.id = "ENABLE_CONNECT" /\ p.value <= 1 ->
                [s EXCEPT !.frame_extended_connect = (p.value = 1)]
          [] OTHER -> s

finish_frame(s) ==
    [s EXCEPT !.settings = IF s.payload = "InitialSettings" THEN s.building_initial ELSE @,
              !.initial  = IF s.payload = "InitialSettings" THEN s.building_initial ELSE @,
              !.revoke   = @ \/ (s.payload = "LaterSettings" /\ s.frame_extended_connect = FALSE),
              !.payload = "Skip", !.pair = <<>>, !.frame_extended_connect = NULL]

\* Up to one setting, or as much of it as is there.  A pair the last read has begun goes on.
collect_pair_Mutant(s, bytes, copied) == [s EXCEPT !.pair = SubSeq(bytes, 1, copied)]

collect_pair(s, bytes, copied) == [s EXCEPT !.pair = @ \o SubSeq(bytes, 1, copied)]

take_payload(s, bytes) ==
    IF s.payload = "Skip"
    THEN LET skipped == Least({s.payload_remaining, Len(bytes)})
         IN  [scanner |-> [s EXCEPT !.payload_remaining = @ - skipped],
              rest    |-> SubSeq(bytes, skipped + 1, Len(bytes))]
    ELSE LET copied == Least({PAIR - Len(s.pair), s.payload_remaining, Len(bytes)})
             t == [collect_pair(s, bytes, copied) EXCEPT !.payload_remaining = @ - copied]
             u == IF Len(t.pair) = PAIR THEN consume_pair(t) ELSE t
         IN  [scanner |-> IF Len(t.pair) = PAIR /\ ~u.error THEN [u EXCEPT !.pair = <<>>] ELSE u,
              rest    |-> SubSeq(bytes, copied + 1, Len(bytes))]

RECURSIVE scan(_, _)
scan(s, bytes) ==
    LET copied == Least({HEADER - Len(s.header), Len(bytes)})
        heading == s.payload_remaining = 0
        t == IF heading THEN [s EXCEPT !.header = @ \o SubSeq(bytes, 1, copied)] ELSE s
        begun == IF heading THEN begin_frame(t) ELSE s
        rest == IF heading THEN SubSeq(bytes, copied + 1, Len(bytes)) ELSE bytes
        taken == take_payload(begun, rest)
    IN  CASE bytes = <<>> -> s
          [] bytes # <<>> /\ heading /\ Len(t.header) < HEADER -> t
          [] OTHER ->
                IF begun.error THEN begun
                ELSE IF begun.payload_remaining = 0 THEN scan(finish_frame(begun), rest)
                ELSE IF taken.scanner.error THEN taken.scanner
                ELSE IF taken.scanner.payload_remaining = 0
                     THEN scan(finish_frame(taken.scanner), taken.rest)
                     ELSE scan(taken.scanner, taken.rest)

\* The observation starts afresh with every read.
feed(s, bytes) == scan([s EXCEPT !.error = FALSE, !.initial = NULL, !.revoke = FALSE], bytes)

-----------------------------------------------------------------------------
(* ClientAckParser.                                                        *)

AckParser == [preface_len |-> 0, header |-> <<>>, payload_remaining |-> 0, ack_seen |-> FALSE,
              error |-> FALSE]

RECURSIVE feed_ack(_, _)
feed_ack(a, bytes) ==
    LET n == Len(bytes)
        After(k) == SubSeq(bytes, k + 1, n)
    IN  IF a.ack_seen \/ n = 0 THEN a
        ELSE IF a.preface_len < PREFACE
        THEN LET copied == Least({PREFACE - a.preface_len, n})
             IN  IF \A k \in 1 .. copied : /\ bytes[k].part = "preface"
                                           /\ bytes[k].at = a.preface_len + k
                 THEN feed_ack([a EXCEPT !.preface_len = @ + copied], After(copied))
                 ELSE [a EXCEPT !.error = TRUE]
        ELSE IF a.payload_remaining # 0
        THEN LET skipped == Least({a.payload_remaining, n})
             IN  feed_ack([a EXCEPT !.payload_remaining = @ - skipped], After(skipped))
        ELSE LET copied == Least({HEADER - Len(a.header), n})
                 b == [a EXCEPT !.header = @ \o SubSeq(bytes, 1, copied)]
                 h == Decode("header", b.header, NoHeader)
             IN  IF Len(b.header) < HEADER THEN feed_ack(b, After(copied))
                 ELSE IF h.type = "SETTINGS" /\ h.ack
                 THEN IF h.length # 0 \/ h.stream # 0 THEN [b EXCEPT !.error = TRUE]
                      ELSE [b EXCEPT !.ack_seen = TRUE]
                 ELSE feed_ack([b EXCEPT !.payload_remaining = h.length, !.header = <<>>],
                               After(copied))

-----------------------------------------------------------------------------
(* H2ProofState and GenerationControl.                                     *)

Pending  == [kind |-> "Pending", settings |-> NULL]
Failed   == [kind |-> "Failed", settings |-> NULL]
Ready(s) == [kind |-> "Ready", settings |-> s]

proof_status(in, out) == IF out.ack_seen /\ in.settings # NULL THEN Ready(in.settings) ELSE Pending

\* The first verdict stands.
publish_status(new) == IF status = Pending THEN new ELSE status

install_initial(c, enabled) ==
    [c EXCEPT !.state = IF enabled THEN "LiveEnabled" ELSE "LiveDisabled", !.selectable = TRUE]

revoke_if_enabled(c) ==
    IF c.state = "LiveEnabled"
    THEN [state |-> "Revoked", selectable |-> FALSE, retirement |-> TRUE]
    ELSE c

observe_inbound(bytes) ==
    LET in        == feed(inbound, bytes)
        installs  == ~in.error /\ in.initial # NULL
        refused   == installs /\ control.state # "Proving"
        installed == IF installs THEN install_initial(control, in.initial.extended_connect)
                     ELSE control
    IN  /\ inbound' = in
        /\ IF refused
           THEN status' = Failed /\ UNCHANGED control
           ELSE /\ control' = IF ~in.error /\ in.revoke THEN revoke_if_enabled(installed)
                              ELSE installed
                /\ status' = publish_status(IF in.error THEN Failed ELSE proof_status(in, outbound))

\* update: the outbound bytes are looked at only while there is no verdict.
observe_outbound(p, bytes) ==
    IF p.status # Pending THEN p
    ELSE LET out == feed_ack(p.outbound, bytes)
         IN  [outbound |-> out, status |-> IF out.error THEN Failed ELSE proof_status(inbound, out)]

\* A vectored write is shown slice by slice.
observe_outbound_vectored(slices) ==
    FoldLeft(observe_outbound, [outbound |-> outbound, status |-> status], slices)

io_must_fail == control.state \in {"Revoked", "Retiring", "Closed"}
initial_state_matches(extended_connect) ==
    control.state = IF extended_connect THEN "LiveEnabled" ELSE "LiveDisabled"

-----------------------------------------------------------------------------
Init ==
    /\ frames \in Inbounds /\ wrote \in Outbounds
    /\ tosend = Encoded(frames)
    /\ towrite = Bytes("preface", NULL, PREFACE) \o Encoded(wrote)
    /\ inbound = Scanner /\ outbound = AckParser
    /\ status = Pending
    /\ control = [state |-> "Proving", selectable |-> FALSE, retirement |-> FALSE]
    /\ dropped = FALSE /\ gate = "proving" /\ settings = NULL /\ broken = FALSE

\* H2ProofIo::poll_read with n bytes.
poll_read(n) ==
    /\ ~dropped /\ ~broken /\ ~io_must_fail
    /\ tosend' = SubSeq(tosend, n + 1, Len(tosend))
    /\ observe_inbound(SubSeq(tosend, 1, n))
    /\ UNCHANGED <<frames, wrote, towrite, outbound, dropped, gate, settings, broken>>

\* A read of nothing, or an error of the socket on either side.
io_failed ==
    /\ ~dropped /\ ~broken /\ ~io_must_fail
    /\ status' = Failed /\ broken' = TRUE
    /\ UNCHANGED <<frames, wrote, tosend, towrite, inbound, outbound, control, dropped, gate,
                   settings>>

\* H2ProofIo::poll_write and poll_write_vectored: the socket takes n bytes, which lie in one
\* slice or in two.
poll_write_vectored(n, first) ==
    /\ ~dropped /\ ~broken /\ ~io_must_fail
    /\ towrite' = SubSeq(towrite, n + 1, Len(towrite))
    /\ LET p == observe_outbound_vectored(<<SubSeq(towrite, 1, first), SubSeq(towrite, first + 1, n)>>)
       IN  outbound' = p.outbound /\ status' = p.status
    /\ UNCHANGED <<frames, wrote, tosend, inbound, control, dropped, gate, settings, broken>>

\* H2ProofIo::drop and mark_transport_dropped: Hyper is done with the socket, because it
\* failed, the upstream closed, its I/O was refused, or the gate was dropped.
mark_transport_dropped ==
    /\ ~dropped
    /\ broken \/ io_must_fail \/ gate = "failed"
    /\ dropped' = TRUE
    /\ status' = publish_status(Failed)
    /\ UNCHANGED <<frames, wrote, tosend, towrite, inbound, outbound, control, gate, settings, broken>>

\* PrivateH2Gate::prove looks at the status: a verdict, or it waits for the connection to
\* end, the status to change or the deadline.
prove ==
    /\ gate = "proving"
    /\ gate' \in CASE status.kind = "Ready" -> {"ready"}
                   [] status.kind = "Failed" -> {"failed"}
                   [] OTHER -> {"failed"}        \* the deadline, or the connection has ended
    /\ settings' = status.settings
    /\ UNCHANGED <<frames, wrote, tosend, towrite, inbound, outbound, status, control, dropped, broken>>

\* The same arm after it has polled the connection once more: the connection has not ended,
\* the state is still the one the settings gave, and Hyper has seen them too.
prove_confirm ==
    /\ gate = "ready"
    /\ \E connection_completed \in BOOLEAN, hyper_extended_connect \in BOOLEAN :
          gate' = IF \/ connection_completed \/ dropped
                     \/ ~initial_state_matches(settings.extended_connect)
                     \/ settings.extended_connect /\ ~hyper_extended_connect
                  THEN "failed" ELSE "proved"
    /\ UNCHANGED <<frames, wrote, tosend, towrite, inbound, outbound, status, control, dropped,
                   settings, broken>>

\* The generation is retired by an exchange or by its driver.
mark_retiring ==
    /\ gate = "proved" /\ control.state # "Closed"
    /\ control' = [control EXCEPT !.state = "Retiring", !.selectable = FALSE]
    /\ UNCHANGED <<frames, wrote, tosend, towrite, inbound, outbound, status, dropped, gate,
                   settings, broken>>

mark_closed ==
    /\ gate = "proved" /\ dropped
    /\ control' = [control EXCEPT !.state = "Closed", !.selectable = FALSE]
    /\ UNCHANGED <<frames, wrote, tosend, towrite, inbound, outbound, status, dropped, gate,
                   settings, broken>>

Next ==
    \/ \E n \in 1 .. Len(tosend) : poll_read(n)
    \/ \E n \in 1 .. Len(towrite) : \E first \in 1 .. n : poll_write_vectored(n, first)
    \/ io_failed \/ mark_transport_dropped
    \/ prove \/ prove_confirm \/ mark_retiring \/ mark_closed

Spec == Init /\ [][Next]_vars
-----------------------------------------------------------------------------
(* Properties: the same stream, read frame by frame.                       *)

Size(f) == HEADER + HeaderOf(f).length

\* The frames that have passed completely when n bytes are left.
Complete(fs, n) ==
    {i \in DOMAIN fs : n <= FoldLeft(LAMBDA sum, f : sum + Size(f), 0, SubSeq(fs, i + 1, Len(fs)))}

\* The last setting with an identifier that counts, or NULL.
LastOf(f, P(_)) ==
    LET is == {i \in DOMAIN f.pairs : P(f.pairs[i])}
    IN  IF is = {} THEN NULL ELSE f.pairs[CHOOSE i \in is : \A j \in is : j <= i].value

Offers(f)  == LastOf(f, LAMBDA p : p.id = "ENABLE_CONNECT" /\ p.value <= 1)
Streams(f) == LastOf(f, LAMBDA p : p.id = "MAX_CONCURRENT_STREAMS")

ValidInitial(f) ==
    /\ IsSettings(HeaderOf(f)) /\ HeaderOf(f).length <= H2_INITIAL_SETTINGS_MAX
    /\ \A i \in DOMAIN f.pairs : ~illegal(f.pairs[i])

Promised(f) == [extended_connect |-> Offers(f) = 1, max_concurrent_streams |-> Streams(f)]

Withdrawn ==
    \E i \in Complete(frames, Len(tosend)) : i > 1 /\ IsSettings(HeaderOf(frames[i])) /\ Offers(frames[i]) = 0

Acked ==
    \E i \in Complete(wrote, Len(towrite)) : wrote[i].type = "SETTINGS" /\ wrote[i].ack

\* However the socket cuts the two streams, the verdict is the one a reader of whole frames
\* gives: the settings are those of the upstream's first frame, the last value of each
\* setting counting, and are taken only once that frame is complete, legal and acknowledged;
\* an upstream that keeps to the protocol is never refused; and a generation that has been
\* proved is enabled for extended CONNECT exactly while the upstream offers it.
ProvedAsSent ==
    /\ status.kind = "Ready" =>
          /\ 1 \in Complete(frames, Len(tosend)) /\ ValidInitial(frames[1]) /\ Acked
          /\ status.settings = Promised(frames[1])
    /\ 1 \in Complete(frames, Len(tosend)) /\ ValidInitial(frames[1]) /\ Acked =>
          status.kind = "Ready" \/ broken \/ dropped
    /\ status.kind = "Failed" => broken \/ dropped \/ ~ValidInitial(frames[1])
    /\ gate = "proved" =>
          /\ settings = Promised(frames[1])
          /\ control.state = "LiveEnabled" => settings.extended_connect /\ ~Withdrawn
          /\ control.state = "LiveDisabled" => ~settings.extended_connect
          /\ control.state = "Revoked" => Withdrawn
=============================================================================
