---------------------------- MODULE MCIsoTpNode ----------------------------
(* Two endpoints whose CAN frames hold three bytes: one byte of payload in  *)
(* a First Frame, two in a Consecutive or Single Frame.                     *)
EXTENDS IsoTpNode

CONSTANTS
    a, b,
    BlockA, BlockB, StMinA, StMinB,     \* configuration of a and b
    RoomB,                              \* the longest payload b takes
    Padding,
    m1, m2, m3, Len1, Len2, Len3, From2, \* m1 and m3 are sent by a, m2 by From2
    Messages

MCNode == {a, b}
MCPeer == [n \in MCNode |-> IF n = a THEN b ELSE a]
MCSource == [m \in Messages |-> IF m = m2 THEN From2 ELSE a]
MCLength == [m \in Messages |-> CASE m = m1 -> Len1 [] m = m2 -> Len2 [] m = m3 -> Len3]

MCCfg ==
    [n \in MCNode |->
        [frame_len |-> 3, fd |-> FALSE, padding |-> Padding,
         max_payload_len |-> IF n = a THEN 12 ELSE RoomB, capacity |-> 12, n_bs |-> 1000, wft_max |-> 1,
         block_size |-> IF n = a THEN BlockA ELSE BlockB,
         st_min |-> IF n = a THEN StMinA ELSE StMinB]]

NoNoise == {}

(* A receiver that puts the sender off, and junk. *)
SomeNoise == {FlowControl("Wait", 0, 0), Malformed}

(* Frames of other identifiers that get past the filter of the driver. *)
OtherTraffic == {Foreign}

=============================================================================
