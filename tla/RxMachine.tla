------------------------------ MODULE RxMachine ------------------------------
(***************************************************************************)
(* The receive state machine on its own, fed any PDU in any order: the     *)
(* caller may lose, repeat or reorder frames, and may reset the machine.   *)
(*                                                                         *)
(* `heard` is a history variable kept from the PDUs and the outcomes only, *)
(* never from the machine: what was announced, every data byte of the      *)
(* frames accepted since, and how many Consecutive Frames carried them.    *)
(***************************************************************************)
EXTENDS RxHandlers

CONSTANTS
    Config,     \* the configuration of the endpoint
    Byte,       \* data bytes a frame may carry
    MaxData,    \* bound: data bytes in one frame
    MaxLen,     \* bound: length a First Frame may announce
    MaxCfs      \* bound: Consecutive Frames accepted in one transfer

ASSUME ConfigAssumption ==
    /\ ValidConfig(Config)
    /\ Config.capacity \in Nat
    /\ Config.block_size \in Nat
    /\ Config.st_min \in Nat

ASSUME BoundsAssumption == MaxData \in Nat /\ MaxLen \in Nat /\ MaxCfs \in Nat

VARIABLES
    rx,         \* the machine
    out,        \* what the last call of on_pdu returned
    heard

vars == <<rx, out, heard>>

Data == UNION {[1..n -> Byte] : n \in 0..MaxData}

(* A First Frame that decodes announces more than it carries (pdu.rs). *)
Pdu ==
    {SingleFrame(d) : d \in Data}
      \cup {FirstFrame(n, d) : n \in 1..MaxLen, d \in Data}
      \cup {ConsecutiveFrame(sn, d) : sn \in 0..(SnMod - 1), d \in Data}
      \cup {FlowControl(s, 0, 0) : s \in FlowStatus}

Silence == [len |-> 0, stream |-> <<>>, cfs |-> 0, since_fc |-> 0]

Init ==
    /\ rx = RxNew
    /\ out = "None"
    /\ heard = Silence

(* A frame of a new transfer was accepted: it announces len bytes. *)
HearStart(pdu, len) == heard' = [Silence EXCEPT !.len = len, !.stream = pdu.data]

HearMore(pdu, granted) ==
    heard' = [heard EXCEPT !.stream = @ \o pdu.data, !.cfs = @ + 1,
                           !.since_fc = IF granted THEN 0 ELSE @ + 1]

OnPdu(pdu) ==
    LET r == on_pdu(Config, rx, pdu)
    IN  /\ pdu.kind = "FF" => pdu.len > Len(pdu.data)
        /\ pdu.kind = "CF" => heard.cfs < MaxCfs
        /\ rx' = r.rx
        /\ out' = r.out
        /\ \/ r.out \in Errors /\ UNCHANGED heard
           \/ r.out \notin Errors /\ pdu.kind = "SF" /\ HearStart(pdu, Len(pdu.data))
           \/ r.out \notin Errors /\ pdu.kind = "FF" /\ HearStart(pdu, pdu.len)
           \/ r.out \notin Errors /\ pdu.kind = "CF"
                /\ HearMore(pdu, r.out = "SendFlowControl")

Reset ==
    /\ rx' = RxReset(rx)
    /\ heard' = Silence
    /\ out' = "None"

Next == Reset \/ \E pdu \in Pdu : OnPdu(pdu)

Spec == Init /\ [][Next]_vars

-----------------------------------------------------------------------------
Machine == [state : {"Idle", "Receiving"}, content : Seq(Byte), expected_len : Nat,
            next_sn : 0..(SnMod - 1), block_size : Nat, block_remaining : Nat]

TypeOK ==
    /\ rx \in Machine
    /\ out \in Outcomes
    /\ heard \in [len : Nat, stream : Seq(Byte), cfs : Nat, since_fc : Nat]

(* While a transfer is open the buffer holds every byte heard since its    *)
(* First Frame, in order and without a gap, and fewer than were announced  *)
(* (which is never more than there is room for): the offsets `written` and *)
(* `expected_len` of rx.rs never drift from what arrived, whatever else    *)
(* arrived in between.                                                     *)
BufferIsWhatWasHeard ==
    rx.state = "Receiving" =>
        /\ rx.content = heard.stream
        /\ rx.expected_len = heard.len
        /\ Len(heard.stream) < heard.len
        /\ heard.len <= Room(Config)

(* A completed payload is the announced number of bytes, the first of      *)
(* those heard: padding behind the last byte is never handed out, and no   *)
(* byte is missing (deliver "only when a full payload has been             *)
(* reassembled").                                                          *)
CompletedIsTheAnnouncedPayload ==
    out = "Completed" =>
        /\ Len(rx.content) = heard.len
        /\ rx.content = SubSeq(heard.stream, 1, heard.len)

(* The sequence number expected next counts the frames accepted so far,    *)
(* across the wrap of the nibble.                                          *)
SequenceCountsFrames ==
    rx.state = "Receiving" => rx.next_sn = (1 + heard.cfs) % SnMod

(* A peer that sends block_size frames per Flow Control is answered after  *)
(* exactly that many: the count left in the block and the frames accepted  *)
(* since the last Flow Control always add up to the block.                 *)
BlockIsAnswered ==
    rx.state = "Receiving" /\ rx.block_size > 0 =>
        /\ rx.block_size = Config.block_size
        /\ rx.block_remaining + heard.since_fc = rx.block_size
        /\ heard.since_fc < rx.block_size

(* The overflow checks inside handle_consecutive are unreachable: a        *)
(* transfer that was accepted always fits, so an open transfer is never    *)
(* answered with Overflow.                                                 *)
AcceptedTransferFits == [][rx.state = "Receiving" => out' # "Overflow"]_vars
=============================================================================
