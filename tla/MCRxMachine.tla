---------------------------- MODULE MCRxMachine ----------------------------
(* RxMachine with a buffer of five bytes, blocks of two frames and sequence *)
(* numbers modulo three, so that the nibble wraps within one transfer.      *)
EXTENDS RxMachine

CONSTANTS b1, b2

MCByte == {b1, b2}
MCConfig == [max_payload_len |-> 5, capacity |-> 6, block_size |-> 2, st_min |-> 1000]
=============================================================================
