------------------------------ MODULE PduCodec ------------------------------
(***************************************************************************)
(* The bytes of PDUs (pdu.rs) and the payloads that travel in them.        *)
(*                                                                         *)
(* A byte is a number in 0..255 and a CAN frame is the sequence of its     *)
(* bytes.  An Option<u8> is a sequence of at most one byte: the addressing *)
(* byte `prefix` and the padding byte `padding`.  A Single Frame's `len`   *)
(* is the length of its data, as every caller has it.                      *)
(***************************************************************************)
EXTENDS TxSession, RxHandlers, Addressing

InvalidFrame == Malformed

(* Status nibbles, in the order of their codes. *)
StatusCode == [s \in FlowStatus |->
                  CASE s = "ClearToSend" -> 0 [] s = "Wait" -> 1 [] s = "Overflow" -> 2]

(* Largest Single Frame of a CAN frame of frame_len bytes. *)
max_sf(frame_len, offset) ==
    IF frame_len > 8 THEN Saturating(frame_len, 2 + offset) ELSE Saturating(7, offset)

Fill(b, n) == [i \in 1..n |-> b]
From(s, i) == SubSeq(s, i, Len(s))

(* What the encoder refuses. *)
Encodable(pdu, offset, frame_len) ==
    LET n == IF pdu.kind = "FC" THEN 2 ELSE Len(pdu.data)
    IN  /\ frame_len \in 8..64
        /\ CASE pdu.kind = "SF" ->
                    n > 7 - offset => frame_len > 8 /\ offset + 2 + n <= frame_len
             [] pdu.kind = "FF" ->
                    pdu.len > max_sf(frame_len, offset) /\ pdu.len <= 4095 /\ n > 0
             [] OTHER -> offset + 1 + n <= frame_len

(* The PCI bytes and the data that follow the addressing byte.  A Single   *)
(* Frame too long for the nibble (CAN FD) has its length in a byte.        *)
Body(pdu, offset, frame_len) ==
    CASE pdu.kind = "SF" ->
             (IF Len(pdu.data) <= 7 - offset THEN <<Len(pdu.data)>>
              ELSE <<0, Len(pdu.data)>>) \o pdu.data
      [] pdu.kind = "FF" ->
             <<16 + (pdu.len \div 256), pdu.len % 256>>
               \o SubSeq(pdu.data, 1, Lesser(Len(pdu.data), frame_len - 2 - offset))
      [] pdu.kind = "CF" -> <<32 + (pdu.sn % 16)>> \o pdu.data
      [] pdu.kind = "FC" -> <<48 + StatusCode[pdu.status], pdu.block_size, pdu.st_min>>

encode_with_prefix_sized(pdu, padding, prefix, frame_len) ==
    LET used == prefix \o Body(pdu, Len(prefix), frame_len)
    IN  IF padding = <<>> THEN used
        ELSE used \o Fill(padding[1], frame_len - Len(used))

-----------------------------------------------------------------------------
(* decode_with_offset: s is what follows the addressing byte, size the     *)
(* length of the whole CAN frame.                                          *)

(* Faulty variant: the length is always in the nibble. *)
DecodeSingle_classic(s, size) ==
    IF Len(s) < 1 + (s[1] % 16) THEN InvalidFrame
    ELSE SingleFrame(SubSeq(s, 2, 1 + (s[1] % 16)))

DecodeSingle(s, size) ==
    LET extended == s[1] % 16 = 0 /\ size > 8
        start == IF extended THEN 3 ELSE 2
        n == IF extended THEN s[2] ELSE s[1] % 16
    IN  IF (~extended /\ n > 7) \/ Len(s) < start - 1 + n THEN InvalidFrame
        ELSE SingleFrame(SubSeq(s, start, start - 1 + n))

(* Faulty variant: any length is taken. *)
DecodeFirst_any(s, size, offset) ==
    IF Len(s) < 2 THEN InvalidFrame
    ELSE FirstFrame((s[1] % 16) * 256 + s[2], From(s, 3))

DecodeFirst(s, size, offset) ==
    LET len == (s[1] % 16) * 256 + s[2]
    IN  IF Len(s) < 2 \/ len <= max_sf(size, offset) THEN InvalidFrame
        ELSE FirstFrame(len, From(s, 3))

DecodeFlowControl(s) ==
    IF Len(s) < 3 \/ s[1] % 16 \notin {0, 1, 2} THEN InvalidFrame
    ELSE FlowControl(CHOOSE st \in FlowStatus : StatusCode[st] = s[1] % 16, s[2], s[3])

decode_with_offset(data, offset) ==
    LET s == From(data, offset + 1)
    IN  IF s = <<>> THEN InvalidFrame
        ELSE CASE s[1] \div 16 = 0 -> DecodeSingle(s, Len(data))
               [] s[1] \div 16 = 1 -> DecodeFirst(s, Len(data), offset)
               [] s[1] \div 16 = 2 -> ConsecutiveFrame(s[1] % 16, From(s, 2))
               [] s[1] \div 16 = 3 -> DecodeFlowControl(s)
               [] OTHER -> InvalidFrame

-----------------------------------------------------------------------------
(* One transfer over the wire: the frames start_send and continue_send     *)
(* encode, decoded and handed to the receive machine of a peer that grants *)
(* everything.  And two more uses of the codec: any Flow Control, and any  *)
(* bytes at all.                                                           *)

CONSTANTS
    FrameLens,      \* frame_len
    AddrBytes,      \* tx_addr of one side, rx_addr of the other
    Paddings,       \* padding
    PayloadLens,    \* lengths of payloads to send
    StMins,         \* STmin bytes of Flow Control
    RawFrames,      \* CAN frames nobody encoded
    Stations        \* what users name: parameters of module Addressing

(* What the types of the code allow: u8 for a byte, a CAN frame of 8 to 64 *)
(* bytes (validate), sequence numbers of four bits.                        *)
OptionalByte == {<<>>} \cup {<<x>> : x \in 0..255}

CanId == [extended : BOOLEAN, raw : Nat]

ASSUME CodecAssumption ==
    /\ SnMod = 16
    /\ FrameLens \subseteq 8..64
    /\ AddrBytes \subseteq OptionalByte /\ Paddings \subseteq OptionalByte
    /\ PayloadLens \subseteq Nat /\ StMins \subseteq Nat
    /\ RawFrames \subseteq Seq(Nat)

ASSUME StationAssumption ==
    Stations \subseteq
        [mode : FixedModes \cup {"normal", "extended", "mixed_11"}, tx : CanId, rx : CanId,
         source : 0..255, target : 0..255, extension : 0..255, type : {"Physical", "Functional"}]

VARIABLES
    link,       \* frame_len, prefix, padding
    payload,
    tx, rx,     \* session and receive machine
    sent,       \* the PDU last encoded
    heard,      \* what the peer decoded
    out,        \* what its machine returned
    met         \* two stations, and what the second decoded of the first

vars == <<link, payload, tx, rx, sent, heard, out, met>>

(* The configuration in terms of module IsoTpPdu. *)
Config ==
    [frame_len |-> link.frame_len - Len(link.prefix), fd |-> link.frame_len > 8,
     padding |-> FALSE, max_payload_len |-> 4095, capacity |-> 4095,
     block_size |-> 0, st_min |-> 0, n_bs |-> Tick]

Nothing == [kind |-> "None"]

Payload(n) == [i \in 1..n |-> (37 * i + n) % 256]

Links == [frame_len : FrameLens, prefix : AddrBytes, padding : Paddings]

Init ==
    /\ link \in Links
    /\ payload = <<>>
    /\ tx = TxIdle
    /\ rx = RxNew
    /\ sent = Nothing /\ heard = Nothing
    /\ out = "None"
    /\ met = Nothing

Wire(pdu) == encode_with_prefix_sized(pdu, link.padding, link.prefix, link.frame_len)

(* pdu is encoded, decoded and processed. *)
Crosses(pdu) ==
    /\ Encodable(pdu, Len(link.prefix), link.frame_len)
    /\ sent' = pdu
    /\ heard' = decode_with_offset(Wire(pdu), Len(link.prefix))
    /\ \E r \in {on_pdu(Config, rx, heard')} : rx' = r.rx /\ out' = r.out
    /\ UNCHANGED <<link, met>>

Fresh == sent = Nothing /\ heard = Nothing /\ met = Nothing

SendShort ==
    /\ Fresh
    /\ \E n \in PayloadLens :
          /\ n <= max_single_frame_payload(Config)
          /\ payload' = Payload(n)
          /\ Crosses(SingleFrame(payload'))
    /\ UNCHANGED tx

SendFirst ==
    /\ Fresh
    /\ \E n \in PayloadLens :
          /\ n > max_single_frame_payload(Config)
          /\ payload' = Payload(n)
          /\ Crosses(FirstFrameOf(Config, payload'))
          /\ tx' = Sending(NewSession(Config, payload'), 0)

SendNext ==
    /\ tx.state = "Sending"
    /\ Crosses(NextFrame(Config, tx.session, payload))
    /\ tx' = AfterFrame(Config, tx.session, payload)
    /\ UNCHANGED payload

Answer ==
    /\ Fresh
    /\ \E s \in FlowStatus, raw \in StMins : Crosses(FlowControl(s, 8, raw))
    /\ UNCHANGED <<payload, tx>>

HearAnything ==
    /\ Fresh
    /\ \E bytes \in RawFrames :
          heard' = decode_with_offset(bytes, Len(link.prefix))
    /\ UNCHANGED <<link, payload, tx, rx, sent, out, met>>

(* Two stations, p with an address the builder accepts or refuses: q       *)
(* listens to a short message of p.  How long the frames are and what      *)
(* padding they have does not matter to who hears it: one link is enough.  *)
Greeting == SingleFrame(<<62, 0>>)

Meet ==
    /\ Fresh
    /\ link = CHOOSE l \in Links : TRUE
    /\ \E p, q \in Stations :
          LET a == AddressOf(p)
              b == AddressOf(q)
              bytes == encode_with_prefix_sized(Greeting, link.padding, a.tx_addr, link.frame_len)
          IN  met' = [kind |-> "Met", p |-> p, q |-> q, built |-> ValidAddress(a),
                      heard |-> IF ValidAddress(a) /\ ValidAddress(b)
                                     /\ Hears(b, a.tx_id, bytes)
                                THEN decode_with_offset(bytes, Len(b.rx_addr))
                                ELSE Nothing]
    /\ UNCHANGED <<link, payload, tx, rx, sent, heard, out>>

Next == SendShort \/ SendFirst \/ SendNext \/ Answer \/ HearAnything \/ Meet

Spec == Init /\ [][Next]_vars

-----------------------------------------------------------------------------
(* What the peer decodes is the PDU that was encoded, for every frame      *)
(* length, addressing byte and padding: no length field runs into its      *)
(* neighbour, no kind of frame is taken for another.  Only a Consecutive   *)
(* Frame comes with the padding the decoder cannot see.                    *)
WireIsFaithful ==
    sent # Nothing =>
        IF sent.kind = "CF" /\ link.padding # <<>>
        THEN heard = ConsecutiveFrame(sent.sn,
                 sent.data \o Fill(link.padding[1],
                     max_consecutive_frame_payload(Config) - Len(sent.data)))
        ELSE heard = sent

(* The lengths of the segments (max_first_frame_payload and its siblings   *)
(* in config.rs) fit the frames of the codec: the last segment, and no     *)
(* earlier one, completes the payload byte for byte.                       *)
TransferIsExact ==
    sent # Nothing /\ sent.kind \in {"SF", "FF", "CF"} =>
        IF tx.state = "Idle" THEN out = "Completed" /\ rx.content = payload
        ELSE out \in {"SendFlowControl", "None"}

(* A First Frame that decodes, whoever made it, announces more bytes than  *)
(* it carries: handle_first cannot complete a transfer at once.            *)
FirstFrameAnnouncesMore ==
    heard # Nothing /\ heard.kind = "FF" => heard.len > Len(heard.data)

(* Every separation time a peer can name survives the way to a duration    *)
(* and back; the bytes 128..240 and 250..255 are reserved.                 *)
StMinSurvives ==
    heard # Nothing /\ heard.kind = "FC" =>
        LET none == -1
            micros == st_min_to_duration(heard.st_min, none)
        IN  micros # none => duration_to_st_min(micros) = heard.st_min

(* Every constructor yields an address the builder accepts, unless the     *)
(* station is its own partner.  A station hears its partner, the station   *)
(* whose identifiers or node addresses mirror its own, and of the stations *)
(* of a like mode it hears nobody else: not itself, not the partner's      *)
(* functional twin, not a third station with the same extension byte.      *)
(* Stations of the explicit modes may share what they listen to and differ *)
(* in what they send, so there the other direction is asked for too.       *)
OnlyPartnersMeet ==
    met.kind = "Met" =>
        LET p == met.p
            q == met.q
            alike == p.mode = q.mode \/ {p.mode, q.mode} \subseteq FixedModes
            answered == AddressOf(q).tx_id = AddressOf(p).rx_id
                          /\ AddressOf(q).tx_addr = AddressOf(p).rx_addr
        IN  /\ met.built <=> ~Partners(p, p)
            /\ met.built /\ Partners(p, q) => met.heard = Greeting /\ answered
            /\ alike /\ met.heard # Nothing =>
                   p # q /\ (Partners(p, q) \/ (p.mode \notin FixedModes /\ ~answered))
=============================================================================
