----------------------------- MODULE IsoTpDemux -----------------------------
(***************************************************************************)
(* One endpoint that talks to many (IsoTpDemux in demux.rs): a receive     *)
(* machine and a transmit state per remote station, created on first use,  *)
(* and a ring buffer of the stations whose payload is complete.            *)
(*                                                                         *)
(* The bus may hand the endpoint any frame at any time.  ingest_one takes  *)
(* one of them.  poll_recv repeats ingest_one until nothing is left or a   *)
(* payload is complete; an iteration that goes on has no local state, so   *)
(* its effect is that of a call that found a single frame, and a call of   *)
(* the model makes one iteration.                                          *)
(*                                                                         *)
(* peers[i] is the i-th slot that was filled.  Slots are filled from the   *)
(* first and never released, and each takes one reassembly buffer from     *)
(* `free`, so MaxPeers - Len(peers) buffers are left.                      *)
(***************************************************************************)
EXTENDS DemuxPeers

VARIABLES
    peers,      \* Peer of each filled slot
    ready,      \* ReadyQueue: slots whose payload waits to be delivered
    ret,        \* what the last call returned
    sent,       \* the frames the last call put on the bus
    frames,     \* frames ingested so far
    handed      \* history: <<remote, payload>> handed to the application

vars == <<peers, ready, ret, sent, frames, handed>>

(* History fields: `unused`, the ClearToSends heard that no session used;  *)
(* `said`, the payload bytes sent to the station from the last First Frame *)
(* on.                                                                     *)
NewPeer(remote) ==
    [remote |-> remote, rx |-> RxNew, rx_ready |-> FALSE, tx |-> TxIdle,
     pending_fc |-> NoFc, unused |-> 0, said |-> <<>>]

Init ==
    /\ peers = <<>>
    /\ ready = EmptyQueue
    /\ ret = "None"
    /\ sent = <<>>
    /\ frames = 0
    /\ handed = <<>>

-----------------------------------------------------------------------------
(* peer_index_or_alloc *)

with_peer_always(ps, remote) == Append(ps, NewPeer(remote))    \* faulty variant
with_peer(ps, remote) ==
    IF find_peer_index(ps, remote) # 0 THEN ps ELSE Append(ps, NewPeer(remote))

-----------------------------------------------------------------------------
(* ingest_one, as a function of the frame and of whether the bus accepts   *)
(* the Flow Control sent in reply.                                         *)

Ingested(ps, q, result, reply) ==
    [peers |-> ps, ready |-> q, ret |-> result, sent |-> reply]

Reply(remote, fc, ok) ==
    IF ok THEN <<To(remote, fc)>> ELSE <<>>

(* The payload is complete: it waits in the machine for poll_recv. *)
Complete(ps, i) ==
    LET marked == [ps EXCEPT ![i].rx_ready = TRUE]
    IN  IF QueueFull(ready) THEN Ingested(marked, ready, "RxOverflow", <<>>)
        ELSE Ingested(marked, Pushed(ready, i), "Completed", <<>>)

Receive(ps, i, pdu, ok) ==
    LET r == on_pdu(Cfg, ps[i].rx, pdu)
        moved == [ps EXCEPT ![i].rx = r.rx]
    IN  CASE r.out = "Completed" -> Complete(moved, i)
          [] r.out = "SendFlowControl" ->
                 Ingested(moved, ready, IF ok THEN "InFlight" ELSE "LinkError",
                          Reply(ps[i].remote, Grant(Cfg, r.rx), ok))
          [] r.out = "Overflow" ->
                 Ingested(moved, ready, "RxOverflow", Reply(ps[i].remote, OverflowFc(Cfg), ok))
          [] r.out = "BadSequence" -> Ingested(moved, ready, "BadSequence", <<>>)
          [] r.out \in {"None", "UnexpectedPdu"} -> Ingested(moved, ready, "InFlight", <<>>)

(* Flow Control is kept for the transmit side, the last one only, and      *)
(* whether or not a session waits for it.                                  *)
Remembered(p, f) ==
    [p EXCEPT !.pending_fc = f.pdu,
              !.unused = IF f.pdu.status = "ClearToSend" THEN @ + 1 ELSE @]

(* A station with a payload waiting is heard for Flow Control only, and a  *)
(* functional identifier for Single Frames.  Faulty variant: the payload   *)
(* that waits does not matter.                                             *)
HearsData_always(p, f) == f.pdu.kind = "SF" \/ f.kind = "Physical"
HearsData(p, f) == ~p.rx_ready /\ (f.pdu.kind = "SF" \/ f.kind = "Physical")

IngestPdu(ps, i, f, ok) ==
    CASE f.pdu.kind = "Foreign" -> Ingested(ps, ready, "InFlight", <<>>)
      [] f.pdu.kind = "Malformed" -> Ingested(ps, ready, "InvalidFrame", <<>>)
      [] f.pdu.kind = "FC" /\ (ps[i].rx_ready \/ f.kind = "Physical") ->
             Ingested([ps EXCEPT ![i] = Remembered(@, f)], ready, "InFlight", <<>>)
      [] f.pdu.kind \in {"SF", "FF", "CF"} /\ HearsData(ps[i], f) -> Receive(ps, i, f.pdu, ok)
      [] OTHER -> Ingested(ps, ready, "InFlight", <<>>)

ingest_one(f, ok) ==
    IF ~Accepted(f) THEN Ingested(peers, ready, "InFlight", <<>>)
    ELSE IF alloc_error(peers, f.source) # "None"
    THEN Ingested(peers, ready, alloc_error(peers, f.source), <<>>)
    ELSE LET ps == with_peer(peers, f.source)
         IN  IngestPdu(ps, find_peer_index(ps, f.source), f, ok)

Quiet == Ingested(peers, ready, "WouldBlock", <<>>)

Progress == {"WouldBlock", "InFlight", "WaitingForFlowControl", "Completed"}

(* What one call of ingest_one may do: the driver has nothing, or a frame. *)
Ingestions ==
    IF frames = MaxFrames THEN {Quiet}
    ELSE {Quiet} \cup {ingest_one(f, ok) : f \in BusFrame, ok \in BOOLEAN}

Counted(in) == frames' = IF in.ret = "WouldBlock" THEN frames ELSE frames + 1

-----------------------------------------------------------------------------
(* poll_recv *)

(* take_completed lends the buffer to the application's callback. *)
Delivers(ps, q) ==
    LET i == Oldest(q)
    IN  /\ peers' = [ps EXCEPT ![i].rx_ready = FALSE]
        /\ ready' = Popped(q)
        /\ handed' = Append(handed, <<ps[i].remote, ps[i].rx.content>>)
        /\ ret' = "Completed"
        /\ sent' = <<>>

RecvWaiting ==
    /\ ready.len > 0
    /\ Delivers(peers, ready)
    /\ UNCHANGED frames

RecvCompleted ==
    /\ ready.len = 0
    /\ \E in \in Ingestions :
          /\ in.ret = "Completed"
          /\ Delivers(in.peers, in.ready)
          /\ Counted(in)

(* An iteration that goes on, the end of the queue, or an error. *)
RecvNothing ==
    /\ ready.len = 0
    /\ \E in \in Ingestions :
          /\ in.ret # "Completed"
          /\ peers' = in.peers
          /\ ready' = in.ready
          /\ ret' = in.ret
          /\ sent' = in.sent
          /\ Counted(in)
    /\ UNCHANGED handed

PollRecv == RecvWaiting \/ RecvCompleted \/ RecvNothing

-----------------------------------------------------------------------------
(* poll_send_to: whatever ingest_one did, then one step for the station    *)
(* `remote`.  The payload for a station is known by its length.            *)

Payload(remote, n) == [i \in 1..n |-> <<remote, i>>]

(* The call returns before it touches a transmit state. *)
Refuses(in, error) ==
    /\ peers' = in.peers
    /\ ready' = in.ready
    /\ ret' = error
    /\ sent' = in.sent
    /\ Counted(in)
    /\ UNCHANGED handed

(* `?` returns the error of the ingested frame, whoever sent it. *)
SendDisturbed(in) == in.ret \notin Progress /\ Refuses(in, in.ret)

SendRefused(in, remote, n) ==
    \/ n > Cfg.max_payload_len /\ Refuses(in, "Overflow")
    \/ /\ n <= Cfg.max_payload_len
       /\ alloc_error(in.peers, remote) # "None"
       /\ Refuses(in, alloc_error(in.peers, remote))

(* Faulty variant: the endpoint has one transmit state for all stations. *)
Station_shared(in, remote) ==
    LET ps == with_peer(in.peers, remote)
    IN  [ps[find_peer_index(ps, remote)] EXCEPT !.tx = ps[1].tx]

(* The station after ingestion, created if the call is the first for it. *)
Station(in, remote) ==
    LET ps == with_peer(in.peers, remote) IN ps[find_peer_index(ps, remote)]

(* The station becomes p, the call returns result, pdus go out. *)
Steps(in, p, result, pdus) ==
    LET ps == with_peer(in.peers, p.remote)
    IN  /\ peers' = [ps EXCEPT ![find_peer_index(ps, p.remote)] = p]
        /\ ready' = in.ready
        /\ ret' = result
        /\ sent' = in.sent \o [i \in 1..Len(pdus) |-> To(p.remote, pdus[i])]
        /\ Counted(in)
        /\ UNCHANGED handed

Firsts(bytes, n) == SubSeq(bytes, 1, Lesser(Len(bytes), n))

(* What the station was sent once pdu is out; padding is not payload. *)
Spoken(p, pdu) ==
    CASE pdu.kind = "SF" -> p.said
      [] pdu.kind = "FF" -> pdu.data
      [] pdu.kind = "CF" -> Firsts(p.said \o pdu.data, p.tx.session.payload_len)

(* A frame the bus refuses ends the session; `then` is the station after   *)
(* one that it takes.                                                      *)
Sends(in, p, pdu, then, result) ==
    \/ Steps(in, [then EXCEPT !.said = Spoken(p, pdu)], result, <<pdu>>)
    \/ Steps(in, [p EXCEPT !.tx = TxIdle], "LinkError", <<>>)

SendSingle(in, p, n) ==
    /\ p.tx.state = "Idle"
    /\ n <= max_single_frame_payload(Cfg)
    /\ Sends(in, p, SingleFrame(Payload(p.remote, n)), p, "Completed")

SendFirst(in, p, n) ==
    LET payload == Payload(p.remote, n)
    IN  /\ p.tx.state = "Idle"
        /\ n > max_single_frame_payload(Cfg)
        /\ Sends(in, p, FirstFrameOf(Cfg, payload),
                 [p EXCEPT !.tx = WaitingForFc(NewSession(Cfg, payload), Timer(Cfg.n_bs))],
                 "WaitingForFlowControl")

SendMismatch(in, p, n) ==
    /\ p.tx.state # "Idle"
    /\ p.tx.session.payload_len # n
    /\ Steps(in, [p EXCEPT !.tx = TxIdle], "NotIdle", <<>>)

Resumes(p, n, state) == p.tx.state = state /\ p.tx.session.payload_len = n

FcTimeout(in, p, n) ==
    /\ Resumes(p, n, "WaitingForFc")
    /\ p.tx.session.wait_count > Cfg.wft_max \/ p.tx.timer = 0
    /\ Steps(in, [p EXCEPT !.tx = TxIdle], "NBs", <<>>)

Awaits(p, n) ==
    /\ Resumes(p, n, "WaitingForFc")
    /\ p.tx.session.wait_count <= Cfg.wft_max
    /\ p.tx.timer > 0

NoFcYet(in, p, n) ==
    /\ Awaits(p, n) /\ p.pending_fc = NoFc
    /\ Steps(in, p, "WaitingForFlowControl", <<>>)

GotFc(p, n, status) ==
    Awaits(p, n) /\ p.pending_fc # NoFc /\ p.pending_fc.status = status

(* pending_fc.take().  Faulty variant: it stays there. *)
Taken_not(p) == p
Taken(p) == [p EXCEPT !.pending_fc = NoFc]

Continues(in, p, s, n) ==
    LET payload == Payload(p.remote, n)
        next == AfterFrame(Cfg, s, payload)
    IN  Sends(in, p, NextFrame(Cfg, s, payload), [p EXCEPT !.tx = next],
              CASE next.state = "Idle" -> "Completed"
                [] next.state = "WaitingForFc" -> "WaitingForFlowControl"
                [] next.state = "Sending" -> "InFlight")

GotClearToSend(in, p, n) ==
    /\ GotFc(p, n, "ClearToSend")
    /\ Continues(in, [Taken(p) EXCEPT !.unused = @ - 1],
                 Cleared(Cfg, p.tx.session, p.pending_fc), n)

(* One Wait too many is an error, yet the session stays. *)
GotWait(in, p, n) ==
    LET s == Waited(p.tx.session)
    IN  /\ GotFc(p, n, "Wait")
        /\ Steps(in, [Taken(p) EXCEPT !.tx = WaitingForFc(s, Timer(Cfg.n_bs))],
                 IF s.wait_count > Cfg.wft_max THEN "NBs" ELSE "WaitingForFlowControl", <<>>)

GotOverflow(in, p, n) ==
    /\ GotFc(p, n, "Overflow")
    /\ Steps(in, [Taken(p) EXCEPT !.tx = TxIdle], "Overflow", <<>>)

Paces(in, p, n) ==
    /\ Resumes(p, n, "Sending") /\ p.tx.timer > 0
    /\ Steps(in, p, "WouldBlock", <<>>)

SendConsecutive(in, p, n) ==
    /\ Resumes(p, n, "Sending") /\ p.tx.timer = 0
    /\ Continues(in, p, p.tx.session, n)

SendStep(in, p, n) ==
    \/ SendSingle(in, p, n) \/ SendFirst(in, p, n) \/ SendMismatch(in, p, n)
    \/ FcTimeout(in, p, n) \/ NoFcYet(in, p, n)
    \/ GotClearToSend(in, p, n) \/ GotWait(in, p, n) \/ GotOverflow(in, p, n)
    \/ Paces(in, p, n) \/ SendConsecutive(in, p, n)

PollSendTo ==
    \E in \in Ingestions :
        \/ SendDisturbed(in)
        \/ /\ in.ret \in Progress
           /\ \E remote \in Remote, n \in Lengths :
                 \/ SendRefused(in, remote, n)
                 \/ /\ n <= Cfg.max_payload_len
                    /\ alloc_error(in.peers, remote) = "None"
                    /\ SendStep(in, Station(in, remote), n)

(* send_functional_to *)
SendFunctional(n) ==
    /\ \/ /\ n > max_single_frame_payload(Cfg)
          /\ ret' = "Overflow" /\ sent' = <<>>
       \/ /\ n <= max_single_frame_payload(Cfg)
          /\ ret' = "Completed"
          /\ sent' = <<UdsFrame("Functional", FunctionalAddr, LocalAddr,
                                SingleFrame(Payload(LocalAddr, n)))>>
       \/ /\ n <= max_single_frame_payload(Cfg)
          /\ ret' = "LinkError" /\ sent' = <<>>
    /\ UNCHANGED <<peers, ready, frames, handed>>

Advance ==
    /\ \E i \in 1..Len(peers) : peers[i].tx.state # "Idle" /\ peers[i].tx.timer > 0
    /\ peers' = [i \in 1..Len(peers) |-> [peers[i] EXCEPT !.tx = Later(@)]]
    /\ ret' = "None"
    /\ sent' = <<>>
    /\ UNCHANGED <<ready, frames, handed>>

Next ==
    \/ PollRecv
    \/ PollSendTo
    \/ \E n \in Lengths : SendFunctional(n)
    \/ Advance

Spec == Init /\ [][Next]_vars

(* The application keeps calling poll_recv, which returns a waiting         *)
(* payload before it looks at the bus.                                      *)
FairSpec == Spec /\ WF_vars(RecvWaiting)

-----------------------------------------------------------------------------
TypeOK ==
    /\ Len(peers) <= MaxPeers
    /\ \A i \in 1..Len(peers) :
          /\ peers[i].remote \in Remote \ {LocalAddr}
          /\ peers[i].rx_ready \in BOOLEAN
          /\ peers[i].rx.state \in {"Idle", "Receiving"}
          /\ peers[i].tx.state \in {"Idle", "WaitingForFc", "Sending"}
    /\ ready \in [buf : [0..(MaxPeers - 1) -> 0..MaxPeers], head : 0..(MaxPeers - 1),
                  tail : 0..(MaxPeers - 1), len : 0..MaxPeers]
    /\ frames \in 0..MaxFrames

(* The ring of slots and the rx_ready flags tell the same story: a slot is *)
(* queued exactly when its payload waits, and once.  Hence push never      *)
(* fails (it would leave rx_ready set and the station deaf for ever) and   *)
(* `expect("ready peer exists")` in poll_recv never panics.                *)
ReadyMatchesFlags ==
    /\ ToSet(Queued(ready)) = {i \in 1..Len(peers) : peers[i].rx_ready}
    /\ ready.len = Cardinality({i \in 1..Len(peers) : peers[i].rx_ready})
    /\ ready.tail = (ready.head + ready.len) % MaxPeers

(* No two sessions for one station: find_peer_index and alloc_peer keep    *)
(* the stations of the slots apart.                                        *)
OneSlotPerStation ==
    \A i, j \in 1..Len(peers) : peers[i].remote = peers[j].remote => i = j

(* A ClearToSend resumes one block and not two, however ingest_one and     *)
(* poll_send_to calls for several stations interleave.                     *)
GrantUsedOnce == \A i \in 1..Len(peers) : peers[i].unused >= 0

(* The Consecutive Frames to a station continue what was sent to it byte   *)
(* by byte, with no byte skipped or repeated, while sessions with other    *)
(* stations run, fail and are abandoned in between.                        *)
SegmentsInOrder ==
    \A i \in 1..Len(peers) :
        LET p == peers[i]
        IN  /\ p.said = Payload(p.remote, Len(p.said))
            /\ p.tx.state # "Idle" => Len(p.said) = p.tx.session.offset

Mailbox == INSTANCE MessageMailbox WITH Capacity <- MaxPeers, waiting <- Waiting(peers, ready)

(* The ring buffer, the rx_ready flags and the machines that hold the      *)
(* payloads together are a first-in first-out mailbox of whole payloads:   *)
(* none is dropped, overwritten, duplicated or overtaken, and none mixes   *)
(* the bytes of two stations, though their frames interleave.              *)
ImplementsMailbox == Mailbox!Spec

(* An application that keeps calling poll_recv gets every waiting payload, *)
(* whichever stations compete.                                             *)
WaitingIsDelivered ==
    \A r \in Remote :
        (\E i \in 1..Len(peers) : peers[i].remote = r /\ peers[i].rx_ready)
          ~> (\A i \in 1..Len(peers) : peers[i].remote = r => ~peers[i].rx_ready)
=============================================================================
