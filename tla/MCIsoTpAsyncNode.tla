-------------------------- MODULE MCIsoTpAsyncNode --------------------------
(* Two async endpoints whose CAN frames hold three bytes: one byte of       *)
(* payload in a First Frame, two in a Consecutive or Single Frame.          *)
EXTENDS IsoTpAsyncNode

CONSTANTS
    a, b,
    BlockB, StMinB,         \* block size and separation time b asks for
    m1, m2, m3,             \* a sends m1, b sends m2 and m3; m3 is longer than
    Len1, Len2              \* its configuration allows

MCNode == {a, b}
MCPeer == [n \in MCNode |-> IF n = a THEN b ELSE a]
MCSource == [m \in Msg |-> IF m = m1 THEN a ELSE b]
MCLength == [m \in Msg |-> CASE m = m1 -> Len1 [] m = m2 -> Len2 [] m = m3 -> 8]

MCCfg ==
    [n \in MCNode |->
        [frame_len |-> 3, fd |-> FALSE, padding |-> TRUE,
         max_payload_len |-> 7, capacity |-> 7,
         n_bs |-> 1000, wft_max |-> 1,
         block_size |-> IF n = a THEN 0 ELSE BlockB,
         st_min |-> IF n = a THEN 0 ELSE StMinB]]

NoNoise == {}

(* A receiver that puts the sender off, a message nobody has room for,      *)
(* junk, and another station.                                               *)
SomeNoise == {FlowControl("Wait", 0, 0), FirstFrame(8, <<Pad>>), Malformed, Foreign}

-----------------------------------------------------------------------------
(* The link implements the channel of whole messages. *)
Channel ==
    INSTANCE MessageChannel WITH
        Message <- {Payload(m) : m \in Msg},
        sent <- [n \in Node |-> [i \in 1..Len(submitted[n]) |-> Payload(submitted[n][i])]],
        got <- [n \in Node |-> delivered[Peer[n]]]

(* Until a send ends with its answer still to come, applications see whole *)
(* messages, in order and at most once, whatever is lost, timed out or     *)
(* dropped: send and recv implement MessageChannel.                        *)
ImplementsChannel == Channel!Init /\ [][stale' \/ Channel!Next]_Channel!vars
=============================================================================
