----------------------------- MODULE MCPduCodec -----------------------------
(* Classic frames, the shortest CAN FD frames and longer ones, with and     *)
(* without addressing byte and padding; payloads around every boundary.     *)
EXTENDS PduCodec

(* Any First Frame header, and a few others, in frames of any length. *)
MCRawFrames ==
    {<<b1, b2>> \o Fill(0, n) : b1 \in {0, 1, 7, 8, 32, 50, 51, 64} \cup (16..18),
                                b2 \in 0..12, n \in {0, 1, 5, 6, 7, 8, 9}}

MCAddrBytes == {<<>>, <<241>>}
MCPaddings == {<<>>, <<0>>, <<5>>}
AllBytes == 0..255

(* Every mode, with three node addresses (two of them the same pair of     *)
(* bytes the other way round in an identifier), two extension bytes and    *)
(* the same number as a standard and as an extended identifier.            *)
Ids   == {[extended |-> e, raw |-> n] : e \in BOOLEAN, n \in {1, 2}}
Nodes == {17, 18, 241}
Types == {"Physical", "Functional"}

Station(mode, sends, hears, source, target, extension, type) ==
    [mode |-> mode, tx |-> sends, rx |-> hears, source |-> source, target |-> target,
     extension |-> extension, type |-> type]

AnId == CHOOSE id \in Ids : TRUE

MCStations ==
         {Station("normal", t, r, 0, 0, 0, "Physical") : t, r \in Ids}
    \cup {Station("extended", t, r, s, g, 0, "Physical") : t, r \in Ids, s, g \in {17, 18}}
    \cup {Station("mixed_11", t, r, 0, 0, x, "Physical") : t, r \in Ids, x \in {17, 18}}
    \cup {Station("normal_fixed_29", AnId, AnId, s, g, 0, y) : s, g \in Nodes, y \in Types}
    \cup {Station("mixed_29", AnId, AnId, s, g, x, y) : s, g \in Nodes, x \in {17, 18}, y \in Types}
    \cup {Station("peer", AnId, AnId, s, g, 0, "Physical") : s, g \in Nodes}
=============================================================================
