----------------------------- MODULE DemuxPeers -----------------------------
(***************************************************************************)
(* What the two demultiplexers (demux.rs, and async_demux.rs with the same *)
(* code once more) have in common: identifiers, slots for the stations,    *)
(* and the ring of slots whose payload waits.                              *)
(***************************************************************************)
EXTENDS RxHandlers, TxSession, FiniteSets, SequencesExt

CONSTANTS
    Cfg,            \* base_cfg
    LocalAddr,      \* local_addr
    FunctionalAddr, \* functional_addr
    Remote,         \* source addresses of frames; LocalAddr may be one
    MaxPeers,       \* MAX_PEERS
    BusFrame,       \* frames the bus may carry, with the fields of UdsFrame
    Lengths,        \* lengths of the payloads the application sends
    MaxFrames,      \* bound: frames ingested
    Content,        \* the payloads the frames of a station make up
    Open            \* the transfers they may leave open

ASSUME CfgAssumption == ValidConfig(Cfg) /\ Cfg.capacity \in Nat /\ Cfg.frame_len \in Nat
ASSUME DemuxAssumption ==
    /\ MaxPeers \in Nat \ {0}
    /\ Lengths \subseteq Nat
    /\ MaxFrames \in Nat
    /\ \A f \in BusFrame :
          /\ f.source \in Remote
          /\ f.pdu.kind = "SF" => Len(f.pdu.data) \in Nat
          /\ f.pdu.kind = "FF" => f.pdu.len \in Nat

(* An identifier as can-uds decodes it, and what follows. *)
UdsFrame(kind, target, source, pdu) ==
    [kind |-> kind, target |-> target, source |-> source, pdu |-> pdu]

To(remote, pdu) == UdsFrame("Physical", remote, LocalAddr, pdu)

NoFc    == [kind |-> "None"]

Accepted(f) ==
    \/ f.kind = "Physical" /\ f.target = LocalAddr
    \/ f.kind = "Functional" /\ f.target = FunctionalAddr

(* What Content and Open mean, station by station: they are closed under   *)
(* taking the frames of that station one after the other (rx.rs).  No      *)
(* action reads them; they say which payloads may come out.                *)
Transfer(rx) ==
    [content |-> rx.content, expected_len |-> rx.expected_len, next_sn |-> rx.next_sn]

Opened(pdu) ==
    [content |-> SubSeq(pdu.data, 1, Lesser(Len(pdu.data), pdu.len)),
     expected_len |-> pdu.len, next_sn |-> 1]

MakesUp(r, t) ==
    IF Len(t.content) >= t.expected_len THEN t.content \in Content[r] ELSE t \in Open[r]

ASSUME ContentAssumption ==
    \A f \in BusFrame :
        /\ f.pdu.kind = "SF" /\ Len(f.pdu.data) <= Room(Cfg) => f.pdu.data \in Content[f.source]
        /\ f.pdu.kind = "FF" /\ f.pdu.len <= Room(Cfg) => Opened(f.pdu) \in Open[f.source]
        /\ f.pdu.kind = "CF" =>
              \A t \in Open[f.source] :
                  t.next_sn = f.pdu.sn => MakesUp(f.source, Extended(t, f.pdu.data))

-----------------------------------------------------------------------------
(* ReadyQueue: a ring of MaxPeers slot numbers. *)

EmptyQueue == [buf |-> [i \in 0..(MaxPeers - 1) |-> 0], head |-> 0, tail |-> 0, len |-> 0]

QueueFull(q) == q.len = MaxPeers

(* Faulty variants: the tail does not wrap; the length is not counted. *)
Pushed_nowrap(q, v) == [q EXCEPT !.buf[q.tail] = v, !.tail = @ + 1, !.len = @ + 1]
Pushed_uncounted(q, v) == [q EXCEPT !.buf[q.tail] = v, !.tail = (@ + 1) % MaxPeers]

Pushed(q, v) ==
    [q EXCEPT !.buf[q.tail] = v, !.tail = (@ + 1) % MaxPeers, !.len = @ + 1]

Oldest(q) == q.buf[q.head]

(* Faulty variant: the length stays. *)
Popped_uncounted(q) == [q EXCEPT !.head = (@ + 1) % MaxPeers]

Popped(q) == [q EXCEPT !.head = (@ + 1) % MaxPeers, !.len = @ - 1]

Queued(q) == [i \in 1..q.len |-> q.buf[(q.head + i - 1) % MaxPeers]]

(* <<station, payload>> of each slot in the ring, oldest first. *)
Waiting(ps, q) ==
    [k \in 1..q.len |-> LET p == ps[Queued(q)[k]] IN <<p.remote, p.rx.content>>]

-----------------------------------------------------------------------------
(* The slots.  Those filled are a sequence; a slot is found by its station. *)

find_peer_index(ps, remote) == SelectInSeq(ps, LAMBDA p : p.remote = remote)

alloc_error(ps, remote) ==
    IF find_peer_index(ps, remote) # 0 THEN "None"
    ELSE IF remote = LocalAddr THEN "InvalidConfig"
    ELSE IF Len(ps) = MaxPeers THEN "RxOverflow"
    ELSE "None"

=============================================================================
