------------------------------ MODULE IsoTpPdu ------------------------------
(***************************************************************************)
(* The vocabulary shared by every component: protocol data units, the      *)
(* configuration of an endpoint, and the encoding of separation times.     *)
(*                                                                         *)
(* A payload is a sequence of abstract bytes.  A PDU is a record; the      *)
(* byte-level codec behind it is module PduCodec.  A configuration is a    *)
(* record whose fields carry the names of IsoTpConfig:                     *)
(*   frame_len   CAN payload bytes left after the addressing byte          *)
(*   fd          the CAN frame is longer than 8 bytes (CAN FD)             *)
(*   padding     frames are padded to frame_len                            *)
(*   max_payload_len, capacity (of the receive buffer), block_size,        *)
(*   st_min and n_bs (microseconds), wft_max.                              *)
(***************************************************************************)
EXTENDS Integers, Sequences

CONSTANTS
    Pad,        \* the byte value padding writes
    SnMod       \* sequence numbers are counted modulo SnMod (16 in the code)

ASSUME SnModAssumption == SnMod \in Nat /\ SnMod >= 2

FlowStatus == {"ClearToSend", "Wait", "Overflow"}

SingleFrame(data)        == [kind |-> "SF", data |-> data]
FirstFrame(len, data)    == [kind |-> "FF", len |-> len, data |-> data]
ConsecutiveFrame(sn, data) == [kind |-> "CF", sn |-> sn, data |-> data]
FlowControl(status, bs, st) ==
    [kind |-> "FC", status |-> status, block_size |-> bs, st_min |-> st]

(* What else a receive queue can hold: a frame of the right identifier     *)
(* that does not decode, and a frame of another identifier or address.     *)
Malformed == [kind |-> "Malformed"]
Foreign   == [kind |-> "Foreign"]

Lesser(a, b) == IF a <= b THEN a ELSE b
Saturating(a, b) == IF a <= b THEN 0 ELSE a - b

(* The least whole number of units of size u that covers d. *)
CeilDiv(d, u) == (d + u - 1) \div u

-----------------------------------------------------------------------------
(* IsoTpConfig *)

max_single_frame_payload(c) ==
    Saturating(c.frame_len, IF c.fd THEN 2 ELSE 1)

(* Faulty variant: one byte of PCI instead of two. *)
max_first_frame_payload_pci1(c) == Saturating(c.frame_len, 1)

max_first_frame_payload(c) == Saturating(c.frame_len, 2)

max_consecutive_frame_payload(c) == Saturating(c.frame_len, 1)

(* The limits validate() and build() enforce on what the model uses. *)
ValidConfig(c) ==
    /\ c.max_payload_len \in Nat
    /\ 0 < c.max_payload_len /\ c.max_payload_len <= 4095
    /\ c.capacity >= c.max_payload_len

(* The data bytes of a Consecutive Frame as the peer decodes them: the     *)
(* decoder cannot tell padding from payload.                               *)
Padded(c, data) ==
    IF c.padding
    THEN data \o [i \in 1..(max_consecutive_frame_payload(c) - Len(data)) |-> Pad]
    ELSE data

(* Faulty variants: no wrap, and a wrap to 1. *)
NextSn_nowrap(sn) == sn + 1
NextSn_skips0(sn) == IF sn + 1 = SnMod THEN 1 ELSE sn + 1

NextSn(sn) == (sn + 1) % SnMod

-----------------------------------------------------------------------------
(* Separation times travel as one byte. *)

(* Reserved bytes have no duration: the caller's own value is used then. *)
st_min_to_duration(raw, own) ==
    CASE raw \in 0..127   -> raw * 1000
      [] raw \in 241..249 -> (raw - 240) * 100
      [] OTHER            -> own

(* Faulty variant: 900 microseconds take the millisecond branch. *)
duration_to_st_min_800(micros) ==
    CASE micros = 0 -> 0
      [] micros \in 100..800 /\ micros % 100 = 0 -> 240 + micros \div 100
      [] OTHER -> Lesser(micros \div 1000, 127)

duration_to_st_min(micros) ==
    CASE micros = 0 -> 0
      [] micros \in 100..900 /\ micros % 100 = 0 -> 240 + micros \div 100
      [] OTHER -> Lesser(micros \div 1000, 127)
=============================================================================
