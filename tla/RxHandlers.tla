----------------------------- MODULE RxHandlers -----------------------------
(***************************************************************************)
(* The handlers of the receive state machine (RxMachine in rx.rs) as       *)
(* operators: each maps the machine and one PDU to the machine afterwards  *)
(* and the outcome returned to the caller.  The node and the demultiplexer *)
(* both call them; module RxMachine drives them on their own.              *)
(*                                                                         *)
(* rx.content stands for buffer[..written], so Len(rx.content) = written.  *)
(***************************************************************************)
EXTENDS IsoTpPdu

RxNew == [state |-> "Idle", content |-> <<>>, expected_len |-> 0, next_sn |-> 0,
          block_size |-> 0, block_remaining |-> 0]

(* RxMachine::reset leaves the negotiated block size alone. *)
RxReset(rx) == [RxNew EXCEPT !.block_size = rx.block_size]

Errors == {"UnexpectedPdu", "BadSequence", "Overflow"}
Outcomes == {"None", "SendFlowControl", "Completed"} \cup Errors

Returns(rx, out) == [rx |-> rx, out |-> out]

(* Largest payload the machine takes.  Faulty variant: no limit of its own. *)
Room_unlimited(c) == 4095
Room(c) == Lesser(c.max_payload_len, c.capacity)

handle_single(c, rx, pdu) ==
    IF rx.state # "Idle" THEN Returns(rx, "UnexpectedPdu")
    ELSE IF Len(pdu.data) > Room(c) THEN Returns(rx, "Overflow")
    ELSE Returns([rx EXCEPT !.content = pdu.data], "Completed")

handle_first(c, rx, pdu) ==
    IF rx.state # "Idle" THEN Returns(rx, "UnexpectedPdu")
    ELSE IF pdu.len > Room(c) THEN Returns(rx, "Overflow")
    ELSE Returns([state |-> "Receiving",
                  content |-> SubSeq(pdu.data, 1, Lesser(Len(pdu.data), pdu.len)),
                  expected_len |-> pdu.len,
                  next_sn |-> 1,
                  block_size |-> c.block_size,
                  block_remaining |-> c.block_size],
                 "SendFlowControl")

(* The bytes of a Consecutive Frame that still belong to the payload. *)
Chunk_untrimmed(rx, data) == data    \* faulty variant: padding included
Chunk(rx, data) ==
    SubSeq(data, 1, Lesser(Len(data), rx.expected_len - Len(rx.content)))

Extended(rx, data) ==
    [rx EXCEPT !.content = @ \o Chunk(rx, data), !.next_sn = NextSn(@)]

(* The count for the next block.  Faulty variant: it stays where it is. *)
Reloaded_not(rx) == rx
Reloaded(rx) == [rx EXCEPT !.block_remaining = rx.block_size]

(* After an accepted frame: complete, ask for the next block, or go on. *)
AfterChunk(rx) ==
    LET left == Saturating(rx.block_remaining, 1)
    IN  IF Len(rx.content) >= rx.expected_len
        THEN Returns([rx EXCEPT !.state = "Idle"], "Completed")
        ELSE IF rx.block_size = 0 THEN Returns(rx, "None")
        ELSE IF left = 0
        THEN Returns(Reloaded(rx), "SendFlowControl")
        ELSE Returns([rx EXCEPT !.block_remaining = left], "None")

(* Faulty variant: bytes are copied before the sequence number is compared. *)
handle_consecutive_copies_first(c, rx, pdu) ==
    IF rx.state # "Receiving" THEN Returns(rx, "UnexpectedPdu")
    ELSE IF pdu.sn # rx.next_sn THEN Returns(Extended(rx, pdu.data), "BadSequence")
    ELSE AfterChunk(Extended(rx, pdu.data))

handle_consecutive(c, rx, pdu) ==
    IF rx.state # "Receiving" THEN Returns(rx, "UnexpectedPdu")
    ELSE IF pdu.sn # rx.next_sn THEN Returns(rx, "BadSequence")
    ELSE IF \/ Len(rx.content) >= rx.expected_len
            \/ Len(rx.content \o Chunk(rx, pdu.data)) > c.capacity
    THEN Returns(rx, "Overflow")
    ELSE AfterChunk(Extended(rx, pdu.data))

on_pdu(c, rx, pdu) ==
    CASE pdu.kind = "SF" -> handle_single(c, rx, pdu)
      [] pdu.kind = "FF" -> handle_first(c, rx, pdu)
      [] pdu.kind = "CF" -> handle_consecutive(c, rx, pdu)
      [] OTHER -> Returns(rx, "UnexpectedPdu")

(* The flow control frame the caller sends on "SendFlowControl". *)
Grant(c, rx) ==
    FlowControl("ClearToSend", rx.block_size, duration_to_st_min(c.st_min))

OverflowFc(c) == FlowControl("Overflow", 0, duration_to_st_min(c.st_min))
=============================================================================
