----------------------------- MODULE Addressing -----------------------------
(***************************************************************************)
(* Addressing modes (address.rs): from what a user names, a pair of CAN    *)
(* identifiers or a pair of node addresses, to the identifiers and the     *)
(* addressing bytes of a configuration, and from there to who hears whom.  *)
(*                                                                         *)
(* A CAN identifier is a number that is or is not extended; an optional    *)
(* byte is a sequence of at most one.  What a user names is a record: the  *)
(* constructor `mode`, the identifiers tx and rx, the node addresses       *)
(* source and target, an extension byte and the type of target address;    *)
(* each constructor looks at its own parameters only.                      *)
(***************************************************************************)
EXTENDS Integers, Sequences

FixedModes == {"normal_fixed_29", "mixed_29", "peer"}

(* ExtendedId::new takes every 29-bit number; no base plus two bytes is    *)
(* larger.                                                                 *)
ext_id(raw) == [extended |-> TRUE, raw |-> raw]

fixed_base(target_type, physical, functional) ==
    IF target_type = "Physical" THEN physical ELSE functional

(* 0x18DA0000 and 0x18DB0000, or 0x18CE0000 and 0x18CD0000 with an         *)
(* extension byte.  The sessions of a demultiplexer are physical.          *)
Base(p) ==
    CASE p.mode = "normal_fixed_29" -> fixed_base(p.type, 416940032, 417005568)
      [] p.mode = "mixed_29"        -> fixed_base(p.type, 416153600, 416088064)
      [] p.mode = "peer"            -> 416940032

Join(base, high, low) == ext_id(base + 256 * high + low)

TxId(p) == IF p.mode \in FixedModes THEN Join(Base(p), p.target, p.source) ELSE p.tx

(* Faulty variant: the identifier that is sent is the one listened to. *)
RxId_unswapped(p) == IF p.mode \in FixedModes THEN Join(Base(p), p.target, p.source) ELSE p.rx

RxId(p) == IF p.mode \in FixedModes THEN Join(Base(p), p.source, p.target) ELSE p.rx

TxAddr(p) ==
    CASE p.mode \in {"mixed_11", "mixed_29"} -> <<p.extension>>
      [] p.mode = "extended"                 -> <<p.target>>
      [] OTHER                               -> <<>>

RxAddr(p) ==
    CASE p.mode \in {"mixed_11", "mixed_29"} -> <<p.extension>>
      [] p.mode = "extended"                 -> <<p.source>>
      [] OTHER                               -> <<>>

(* The identifiers and addressing bytes of the resulting IsoTpConfig. *)
AddressOf(p) ==
    [tx_id |-> TxId(p), rx_id |-> RxId(p), tx_addr |-> TxAddr(p), rx_addr |-> RxAddr(p)]

(* The part of validate() that is about addresses: a node that would hear  *)
(* its own frames is refused.                                              *)
ValidAddress(a) ==
    a.tx_id = a.rx_id => a.tx_addr # <<>> /\ a.rx_addr # <<>> /\ a.tx_addr # a.rx_addr

(* What the receive paths let through. *)
Hears(a, id, data) ==
    /\ id = a.rx_id
    /\ a.rx_addr # <<>> => SubSeq(data, 1, 1) = a.rx_addr

-----------------------------------------------------------------------------
(* The other end of a link: what is sent here is received there. *)
Mirror(p) == [p EXCEPT !.tx = p.rx, !.rx = p.tx,
                       !.source = p.target, !.target = p.source]

(* What a mode makes of its parameters, the others forgotten. *)
Relevant(p) ==
    LET fixed == p.mode \in FixedModes
    IN  [mode      |-> IF p.mode = "peer" THEN "normal_fixed_29" ELSE p.mode,
         ids       |-> IF fixed THEN <<>> ELSE <<p.tx, p.rx>>,
         nodes     |-> IF fixed \/ p.mode = "extended" THEN <<p.source, p.target>> ELSE <<>>,
         extension |-> IF p.mode \in {"mixed_11", "mixed_29"} THEN p.extension ELSE 0,
         type      |-> CASE p.mode = "peer" -> "Physical"
                         [] p.mode \in FixedModes \ {"peer"} -> p.type
                         [] OTHER -> "none"]

(* Each of p and q is the other's peer. *)
Partners(p, q) == Relevant(p) = Relevant(Mirror(q))
=============================================================================
