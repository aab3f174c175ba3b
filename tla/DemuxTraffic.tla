---------------------------- MODULE DemuxTraffic ----------------------------
(* What the stations around a demultiplexer say; CAN frames hold three      *)
(* bytes, and the bytes of a station are tagged with the station.           *)
EXTENDS DemuxPeers

CONSTANTS r1, r2, r3, here, group

MCCfg ==
    [frame_len |-> 3, fd |-> FALSE, padding |-> FALSE, max_payload_len |-> 5,
     capacity |-> 5, block_size |-> 1, st_min |-> 1000, n_bs |-> 1000, wft_max |-> 0]

(* One Wait is accepted. *)
PatientCfg == [MCCfg EXCEPT !.wft_max = 1]

Bytes(r, n) == [i \in 1..n |-> <<r, i>>]

(* The payloads its frames make up, in one, two and three segments, and    *)
(* the transfers it may leave open.                                        *)
Two(r) == Bytes(r, 1) \o Bytes(r, 2)

MCContent == [r \in Remote |-> {Bytes(r, 1), Two(r), Two(r) \o Bytes(r, 2)}]

At(n, sn, content) == [content |-> content, expected_len |-> n, next_sn |-> sn]

MCOpen ==
    [r \in Remote |-> {At(3, 1, Bytes(r, 1)), At(5, 1, Bytes(r, 1)), At(5, 2, Two(r))}]

(* The frames of a station: short, segmented (of three and of five bytes), *)
(* too long, of no known kind, flow control.                               *)
Payloads(r) == {SingleFrame(Bytes(r, 1)), FirstFrame(3, Bytes(r, 1)),
                ConsecutiveFrame(1, Bytes(r, 2))}

Longer(r) == {FirstFrame(5, Bytes(r, 1)), ConsecutiveFrame(2, Bytes(r, 2))}

Odd(r) == {FirstFrame(6, Bytes(r, 1)), Foreign}

Answers(r) == {FlowControl("ClearToSend", 1, 0), FlowControl("ClearToSend", 2, 1),
               FlowControl("Wait", 0, 0), FlowControl("Overflow", 0, 0), Malformed}

Traffic(r) == Payloads(r) \cup {FlowControl("ClearToSend", 1, 0)}

Physical(rs, pdus(_)) == UNION {{UdsFrame("Physical", here, r, p) : p \in pdus(r)} : r \in rs}
Functional(rs, pdus(_)) == UNION {{UdsFrame("Functional", group, r, p) : p \in pdus(r)} : r \in rs}

(* Three stations compete for two slots. *)
Competing == Physical({r1, r2, r3}, Payloads)

(* Two stations that answer, and everything else one of them can say, on   *)
(* both kinds of identifier.                                                *)
Anything ==
    Physical({r1}, Answers) \cup Physical({r2}, LAMBDA r : {FlowControl("ClearToSend", 1, 0), FlowControl("Wait", 0, 0)})
      \cup Physical({r1}, LAMBDA r : Payloads(r) \cup Longer(r) \cup Odd(r))
      \cup Functional({r1}, Traffic)
      \cup {UdsFrame("Physical", r2, r1, SingleFrame(Bytes(r1, 1))),
            UdsFrame("Physical", here, here, SingleFrame(Bytes(here, 1)))}

(* Two stations that send payloads, one of which also answers; a third one   *)
(* that finds no slot; a frame of the endpoint's own address.               *)
Crossing ==
    Physical({r1, r2}, Payloads) \cup Physical({r1}, Answers)
      \cup {UdsFrame("Physical", here, r3, SingleFrame(Bytes(r3, 1))),
            UdsFrame("Functional", group, r1, FirstFrame(3, Bytes(r1, 1))),
            UdsFrame("Physical", r2, r1, SingleFrame(Bytes(r1, 1)))}
=============================================================================
