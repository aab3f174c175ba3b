---------------------------- MODULE DemuxProofs ----------------------------
(***************************************************************************)
(* The polling demultiplexer, for any number of stations and frames of any *)
(* shape: the ring and the flags agree, the stations of the slots differ,  *)
(* a ClearToSend serves one block, the frames to a station continue what   *)
(* it was sent, and payloads pass through a first-in first-out mailbox.    *)
(***************************************************************************)
EXTENDS IsoTpDemux, SlotProofs, SessionProofs

Fields == {"remote", "rx", "rx_ready", "tx", "pending_fc", "unused", "said"}

(* The station was sent the beginning of a payload, up to where its        *)
(* session is if it has one.                                               *)
Said(p) ==
    /\ Len(p.said) \in Nat
    /\ p.said = Payload(p.remote, Len(p.said))
    /\ SentTo(p.tx, Len(p.said))

Speaks(ps) == \A i \in 1..Len(ps) : Said(ps[i])

IInv ==
    /\ Consistent(peers, ready, Fields)
    /\ Speaks(peers)
    /\ frames \in 0..MaxFrames

(* A slot is replaced.                                                     *)
LEMMA SpeaksReplaced ==
    ASSUME NEW ps, IsList(ps), Speaks(ps), NEW i \in 1..Len(ps), NEW p, Said(p),
           NEW ts, ts = [ps EXCEPT ![i] = p]
    PROVE  Speaks(ts)
<1>1. Replaced(ts, ps, i, p)
  BY ListReplaced
<1> QED BY <1>1 DEF Speaks, Replaced

(* peer_index_or_alloc leaves the slots consistent and the station found.  *)
LEMMA Allocated ==
    ASSUME NEW ps, NEW q, Consistent(ps, q, Fields), Speaks(ps), NEW remote \in Remote,
           alloc_error(ps, remote) = "None"
    PROVE  LET ts == with_peer(ps, remote)
               i == find_peer_index(ts, remote)
           IN  /\ Alike(ts, ps, q, Fields) /\ Speaks(ts)
               /\ i \in 1..Len(ts) /\ ts[i].remote = remote
<1> DEFINE p == NewPeer(remote)
           ts == Append(ps, p)
<1>1. Len(ps) \in Nat /\ IsList(ps)
  BY ListLength DEF Consistent
<1>2. CASE find_peer_index(ps, remote) # 0
  BY <1>1, <1>2, Found DEF with_peer, Alike
<1>3. CASE find_peer_index(ps, remote) = 0
  <2>1. \A j \in 1..Len(ps) : ps[j].remote # remote
    BY <1>1, <1>3, Found
  <2>2. Len(ps) # MaxPeers /\ remote # LocalAddr
    BY <1>3 DEF alloc_error
  <2>3. IsSlot(p, Fields) /\ ~p.rx_ready /\ p.remote = remote
    BY <2>2 DEF NewPeer, IsSlot, Tracks, Fields, RxNew, RxFields, NoFc
  <2>4. Said(p)
    <3>1. p.said = <<>> /\ p.tx = TxIdle
      BY DEF NewPeer
    <3>2. Len(<<>>) = 0 /\ Payload(p.remote, 0) = <<>>
      BY DEF Payload
    <3> QED BY <3>1, <3>2 DEF Said, SentTo, TxIdle
  <2> HIDE DEF p
  <2>5. Alike(ts, ps, q, Fields)
    BY <2>1, <2>2, <2>3, SlotFilled
  <2>6. /\ Len(ts) = Len(ps) + 1 /\ ts[Len(ps) + 1] = p
        /\ \A j \in 1..Len(ps) : ts[j] = ps[j]
    BY <1>1, ListAppended
  <2>7. Len(ps) + 1 \in 1..Len(ts) /\ ts[Len(ps) + 1].remote = remote
    BY <1>1, <2>3, <2>6
  <2>8. find_peer_index(ts, remote) = Len(ps) + 1
    BY <2>5, <2>7, SameStation DEF Alike
  <2>9. Speaks(ts)
    <3> HIDE DEF ts
    <3>1. 1..Len(ts) = (1..Len(ps)) \cup {Len(ps) + 1}
      BY <1>1, <2>6
    <3> QED BY <2>4, <2>6, <3>1 DEF Speaks
  <2> QED BY <1>3, <2>5, <2>7, <2>8, <2>9 DEF with_peer, p
<1> QED BY <1>2, <1>3

-----------------------------------------------------------------------------
(* ingest_one leaves consistent slots behind. *)

(* A payload reported as complete is one the ring lists.                   *)
Fit(in) ==
    /\ Consistent(in.peers, in.ready, Fields) /\ Speaks(in.peers)
    /\ in.ret # "Completed" => Waiting(in.peers, in.ready) = Waiting(peers, ready)
    /\ in.ret = "Completed" => /\ in.ready.len > 0
                               /\ Arrives(Waiting(peers, ready), Waiting(in.peers, in.ready))

(* Slots between the start of ingest_one and its end. *)
Underway(ps) == Alike(ps, peers, ready, Fields) /\ Speaks(ps)

(* An ingestion that completes nothing.                                    *)
LEMMA IngestedFit ==
    ASSUME NEW ps, Underway(ps), NEW result, NEW reply, result # "Completed"
    PROVE  Fit(Ingested(ps, ready, result, reply))
BY DEF Ingested, Fit, Underway, Alike

(* A completed payload finds room in the ring.                             *)
LEMMA CompleteFit ==
    ASSUME NEW ps, Underway(ps), NEW i \in 1..Len(ps), i \notin Flagged(ps),
           ps[i].rx.content \in Content[ps[i].remote]
    PROVE  Fit(Complete(ps, i))
<1> DEFINE marked == [ps EXCEPT ![i].rx_ready = TRUE]
           q == Pushed(ready, i)
<1>1. Consistent(ps, ready, Fields) /\ Waiting(ps, ready) = Waiting(peers, ready) /\ Speaks(ps)
  BY DEF Underway, Alike
<1>2. /\ Consistent(marked, q, Fields) /\ ~QueueFull(ready)
      /\ Adds(Waiting(ps, ready), ps[i].remote, ps[i].rx.content, Waiting(marked, q))
  BY <1>1, SlotCompleted
<1>3. q.len > 0
  <2>1. ready \in Ring
    BY <1>1 DEF Consistent, Holds
  <2>2. q.len = ready.len + 1
    BY <2>1, RingType, RingRecord
  <2> QED BY <2>1, <2>2, RingType
<1>4. Speaks(marked)
  <2> DEFINE p == [ps[i] EXCEPT !.rx_ready = TRUE]
  <2>1. DOMAIN ps[i] = Fields /\ Said(ps[i]) /\ IsList(ps)
    BY <1>1 DEF Consistent, IsSlot, Speaks
  <2>2. p.remote = ps[i].remote /\ p.said = ps[i].said /\ p.tx = ps[i].tx
    BY <2>1 DEF Fields
  <2>3. Said(p)
    BY <2>1, <2>2 DEF Said
  <2>4. marked = [ps EXCEPT ![i] = p]
    OBVIOUS
  <2> HIDE DEF p
  <2> QED BY <1>1, <2>1, <2>3, <2>4, SpeaksReplaced
<1>5. Arrives(Waiting(peers, ready), Waiting(marked, q))
  <2>1. ps[i].remote \in Remote
    BY <1>1 DEF Consistent, IsSlot
  <2> QED BY <1>1, <1>2, <2>1 DEF Arrives
<1>6. Complete(ps, i) = Ingested(marked, q, "Completed", <<>>)
  BY <1>2 DEF Complete
<1> HIDE DEF marked, q
<1> QED BY <1>2, <1>3, <1>4, <1>5, <1>6 DEF Fit, Ingested

(* A data PDU goes through the receive machine of its slot.                *)
LEMMA ReceiveFit ==
    ASSUME NEW f \in BusFrame, NEW ps, Underway(ps), NEW i \in 1..Len(ps),
           ps[i].remote = f.source, i \notin Flagged(ps), NEW ok
    PROVE  Fit(Receive(ps, i, f.pdu, ok))
<1> DEFINE r == on_pdu(Cfg, ps[i].rx, f.pdu)
           moved == [ps EXCEPT ![i].rx = r.rx]
           in == Receive(ps, i, f.pdu, ok)
<1>1. Consistent(ps, ready, Fields) /\ Waiting(ps, ready) = Waiting(peers, ready) /\ Speaks(ps)
  BY DEF Underway, Alike
<1>2. IsSlot(ps[i], Fields)
  BY <1>1 DEF Consistent
<1>3. Sound(r, f.source)
  BY <1>2, OnPduSound DEF IsSlot
<1>4. Tracks(r.rx, ps[i].remote)
  BY <1>3 DEF Sound
<1> HIDE DEF r
<1>5. /\ Alike(moved, ps, ready, Fields)
      /\ i \in 1..Len(moved) /\ i \notin Flagged(moved)
      /\ moved[i].remote = ps[i].remote /\ moved[i].rx = r.rx
  <2>1. Alike(moved, ps, ready, Fields)
    BY <1>1, <1>4, SlotMoved
  <2>2. i \in 1..Len(moved) /\ i \notin Flagged(moved)
    BY <1>1, <1>4, SlotMoved
  <2>3. moved[i].remote = ps[i].remote /\ moved[i].rx = r.rx
    BY <1>1, <1>4, SlotMoved
  <2> QED BY <2>1, <2>2, <2>3
<1>6. Speaks(moved)
  <2> DEFINE p == [ps[i] EXCEPT !.rx = r.rx]
  <2>1. DOMAIN ps[i] = Fields /\ Said(ps[i]) /\ IsList(ps)
    BY <1>1, <1>2 DEF Consistent, IsSlot, Speaks
  <2>2. p.remote = ps[i].remote /\ p.said = ps[i].said /\ p.tx = ps[i].tx
    BY <2>1 DEF Fields
  <2>3. Said(p)
    BY <2>1, <2>2 DEF Said
  <2>4. moved = [ps EXCEPT ![i] = p]
    OBVIOUS
  <2> HIDE DEF p
  <2> QED BY <1>1, <2>1, <2>3, <2>4, SpeaksReplaced
<1> HIDE DEF moved
<1>7. Underway(moved)
  BY <1>1, <1>5, <1>6 DEF Underway, Alike
<1>8. ASSUME NEW result, result # "Completed", NEW reply,
             in = Ingested(moved, ready, result, reply)
      PROVE  Fit(in)
  <2>1. Fit(Ingested(moved, ready, result, reply))
    BY <1>7, <1>8, IngestedFit
  <2> QED BY <1>8, <2>1
<1>9. CASE r.out = "Completed"
  <2>1. in = Complete(moved, i)
    BY <1>9 DEF Receive, r, moved
  <2>2. moved[i].rx.content \in Content[moved[i].remote]
    BY <1>3, <1>5, <1>9 DEF Sound
  <2>3. Fit(Complete(moved, i))
    BY <1>5, <1>7, <2>2, CompleteFit
  <2> QED BY <2>1, <2>3
<1>10. CASE r.out = "SendFlowControl"
  <2> DEFINE result == IF ok THEN "InFlight" ELSE "LinkError"
             reply == Reply(ps[i].remote, Grant(Cfg, r.rx), ok)
  <2>1. in = Ingested(moved, ready, result, reply)
    BY <1>10 DEF Receive, r, moved
  <2>2. result # "Completed"
    OBVIOUS
  <2> HIDE DEF in, result, reply
  <2>3. Fit(in)
    BY <1>8, <2>1, <2>2
  <2> QED BY <2>3 DEF in
<1>11. CASE r.out = "Overflow"
  <2>1. in = Ingested(moved, ready, "RxOverflow", Reply(ps[i].remote, OverflowFc(Cfg), ok))
    BY <1>11 DEF Receive, r, moved
  <2> QED BY <1>8, <2>1
<1>12. CASE r.out = "BadSequence"
  <2>1. in = Ingested(moved, ready, "BadSequence", <<>>)
    BY <1>12 DEF Receive, r, moved
  <2> QED BY <1>8, <2>1
<1>13. CASE r.out \in {"None", "UnexpectedPdu"}
  <2>1. in = Ingested(moved, ready, "InFlight", <<>>)
    BY <1>13 DEF Receive, r, moved
  <2> QED BY <1>8, <2>1
<1> QED BY <1>3, <1>9, <1>10, <1>11, <1>12, <1>13 DEF Sound, Outcomes, Errors

(* Flow Control is remembered.                                             *)
LEMMA RememberedFit ==
    ASSUME NEW ps, Underway(ps), NEW i \in 1..Len(ps), NEW f
    PROVE  Underway([ps EXCEPT ![i] = Remembered(@, f)])
<1> DEFINE p == Remembered(ps[i], f)
           ts == [ps EXCEPT ![i] = p]
<1>1. Consistent(ps, ready, Fields) /\ Waiting(ps, ready) = Waiting(peers, ready) /\ Speaks(ps)
  BY DEF Underway, Alike
<1>2. IsSlot(ps[i], Fields) /\ IsList(ps) /\ Said(ps[i])
  BY <1>1 DEF Consistent, Speaks
<1>3. /\ p.remote = ps[i].remote /\ p.rx_ready = ps[i].rx_ready /\ p.rx = ps[i].rx
      /\ p.said = ps[i].said /\ p.tx = ps[i].tx
  BY <1>2 DEF Remembered, IsSlot, Fields
<1>4. IsSlot(p, Fields)
  BY <1>2 DEF Remembered, IsSlot, Fields
<1>5. Said(p)
  BY <1>2, <1>3 DEF Said
<1> HIDE DEF p
<1>6. Alike(ts, ps, ready, Fields)
  BY <1>1, <1>3, <1>4, SlotReplaced
<1>7. Speaks(ts)
  BY <1>1, <1>2, <1>5, SpeaksReplaced
<1> QED BY <1>1, <1>6, <1>7 DEF Underway, Alike, p

(* ingest_one with any frame, with a driver that sends or fails.           *)
LEMMA FrameFit ==
    ASSUME IInv, NEW f \in BusFrame, NEW ok
    PROVE  Fit(ingest_one(f, ok))
<1> DEFINE in == ingest_one(f, ok)
           error == alloc_error(peers, f.source)
           ps == with_peer(peers, f.source)
           i == find_peer_index(ps, f.source)
<1> SUFFICES Fit(in)
  OBVIOUS
<1>1. Underway(peers)
  BY DEF Underway, Alike, IInv
<1>2. ASSUME NEW ts, Underway(ts), NEW result, result # "Completed",
             in = Ingested(ts, ready, result, <<>>)
      PROVE  Fit(in)
  <2>1. Fit(Ingested(ts, ready, result, <<>>))
    BY <1>2, IngestedFit
  <2> QED BY <1>2, <2>1
<1>3. CASE ~Accepted(f)
  <2>1. in = Ingested(peers, ready, "InFlight", <<>>)
    BY <1>3 DEF ingest_one
  <2> QED BY <1>1, <1>2, <2>1
<1>4. CASE Accepted(f) /\ error # "None"
  <2>1. in = Ingested(peers, ready, error, <<>>)
    BY <1>4 DEF ingest_one
  <2>2. error # "Completed"
    BY DEF alloc_error
  <2> QED BY <1>1, <1>2, <2>1, <2>2
<1>5. CASE Accepted(f) /\ error = "None"
  <2>1. in = IngestPdu(ps, i, f, ok)
    BY <1>5 DEF ingest_one
  <2>2. Underway(ps) /\ i \in 1..Len(ps) /\ ps[i].remote = f.source
    BY <1>5, Allocated, DemuxAssumption DEF IInv, Underway
  <2> HIDE DEF in, ps, i
  <2>3. CASE \/ in = Ingested(ps, ready, "InvalidFrame", <<>>)
             \/ in = Ingested(ps, ready, "InFlight", <<>>)
    BY <1>2, <2>2, <2>3
  <2>4. CASE in = Ingested([ps EXCEPT ![i] = Remembered(@, f)], ready, "InFlight", <<>>)
    <3>1. Underway([ps EXCEPT ![i] = Remembered(@, f)])
      BY <2>2, RememberedFit
    <3> QED BY <1>2, <2>4, <3>1
  <2>5. CASE in = Receive(ps, i, f.pdu, ok) /\ ~ps[i].rx_ready
    BY <2>2, <2>5, ReceiveFit DEF Flagged
  <2> QED BY <2>1, <2>3, <2>4, <2>5 DEF IngestPdu, HearsData
<1> QED BY <1>3, <1>4, <1>5

(* The same when no frame waits.                                           *)
LEMMA IngestionsFit ==
    ASSUME IInv, NEW in \in Ingestions
    PROVE  Fit(in)
<1>1. Fit(Quiet)
  BY IngestedFit DEF Quiet, IInv, Underway, Alike
<1>2. in = Quiet \/ \E f \in BusFrame, ok \in BOOLEAN : in = ingest_one(f, ok)
  BY DEF Ingestions
<1> QED BY <1>1, <1>2, FrameFit

(* The bound on the frames.                                                *)
LEMMA CountedFrames ==
    ASSUME IInv, NEW in \in Ingestions, Counted(in)
    PROVE  frames' \in 0..MaxFrames
<1>1. MaxFrames \in Nat /\ frames \in 0..MaxFrames
  BY DemuxAssumption DEF IInv
<1>2. frames = MaxFrames => in.ret = "WouldBlock"
  BY DEF Ingestions, Quiet, Ingested
<1> QED BY <1>1, <1>2 DEF Counted

-----------------------------------------------------------------------------
(* poll_recv *)

(* deliver_ready: what waited longest is handed out.                       *)
LEMMA DeliversOldest ==
    ASSUME NEW ps, NEW q, Consistent(ps, q, Fields), Speaks(ps), q.len > 0, Delivers(ps, q)
    PROVE  /\ Consistent(peers', ready', Fields) /\ Speaks(peers')
           /\ Waiting(ps, q) # <<>>
           /\ handed' = Append(handed, Head(Waiting(ps, q)))
           /\ Waiting(peers', ready') = Tail(Waiting(ps, q))
<1> DEFINE i == Oldest(q)
           p == [ps[i] EXCEPT !.rx_ready = FALSE]
           ts == [ps EXCEPT ![i].rx_ready = FALSE]
<1>1. /\ i \in 1..Len(ps) /\ Consistent(ts, Popped(q), Fields)
      /\ Waiting(ps, q) # <<>> /\ Head(Waiting(ps, q)) = Told(ps, i)
      /\ Waiting(ts, Popped(q)) = Tail(Waiting(ps, q))
  BY SlotDelivered
<1>2. peers' = ts /\ ready' = Popped(q) /\ handed' = Append(handed, Told(ps, i))
  BY DEF Delivers, Told
<1>3. DOMAIN ps[i] = Fields /\ Said(ps[i]) /\ IsList(ps)
  BY <1>1 DEF Consistent, IsSlot, Speaks
<1>4. p.remote = ps[i].remote /\ p.said = ps[i].said /\ p.tx = ps[i].tx
  BY <1>3 DEF Fields
<1>5. Said(p)
  BY <1>3, <1>4 DEF Said
<1>6. ts = [ps EXCEPT ![i] = p]
  OBVIOUS
<1> HIDE DEF p, ts, i
<1>7. Speaks(ts)
  BY <1>1, <1>3, <1>5, <1>6, SpeaksReplaced
<1> QED BY <1>1, <1>2, <1>7

(* The ways through poll_recv.                                             *)
LEMMA PollRecvIInv ==
    ASSUME IInv, PollRecv
    PROVE  IInv'
<1>1. CASE RecvWaiting
  <2>1. ready.len > 0 /\ Delivers(peers, ready) /\ frames' = frames
    BY <1>1 DEF RecvWaiting
  <2>2. Consistent(peers', ready', Fields) /\ Speaks(peers')
    BY <2>1, DeliversOldest DEF IInv
  <2> QED BY <2>1, <2>2 DEF IInv
<1>2. CASE RecvCompleted
  <2>1. PICK in \in Ingestions : in.ret = "Completed" /\ Delivers(in.peers, in.ready) /\ Counted(in)
    BY <1>2 DEF RecvCompleted
  <2>2. Consistent(in.peers, in.ready, Fields) /\ Speaks(in.peers) /\ in.ready.len > 0
    BY <2>1, IngestionsFit DEF Fit
  <2>3. Consistent(peers', ready', Fields) /\ Speaks(peers')
    BY <2>1, <2>2, DeliversOldest
  <2> QED BY <2>1, <2>3, CountedFrames DEF IInv
<1>3. CASE RecvNothing
  <2>1. PICK in \in Ingestions : peers' = in.peers /\ ready' = in.ready /\ Counted(in)
    BY <1>3 DEF RecvNothing
  <2>2. Consistent(in.peers, in.ready, Fields) /\ Speaks(in.peers)
    BY <2>1, IngestionsFit DEF Fit
  <2>3. frames' \in 0..MaxFrames
    BY <2>1, CountedFrames
  <2> QED BY <2>1, <2>2, <2>3 DEF IInv
<1> QED BY <1>1, <1>2, <1>3 DEF PollRecv

-----------------------------------------------------------------------------
(* poll_send_to: what it changes of a station. *)

(* p is the station p0, its transmit side apart. *)
Keeps(p, p0) ==
    /\ IsSlot(p, Fields)
    /\ p.remote = p0.remote /\ p.rx_ready = p0.rx_ready /\ p.rx = p0.rx

Replaces(p, p0) == Keeps(p, p0) /\ Said(p)

(* The session.                                                            *)
LEMMA TxChanged ==
    ASSUME NEW p, NEW p0, Keeps(p, p0), NEW tx, NEW q, q = [p EXCEPT !.tx = tx]
    PROVE  /\ Keeps(q, p0) /\ q.remote = p.remote /\ q.tx = tx /\ q.said = p.said
           /\ q.pending_fc = p.pending_fc
<1>1. DOMAIN p = Fields
  BY DEF Keeps, IsSlot
<1>2. /\ DOMAIN q = Fields /\ q.remote = p.remote /\ q.rx_ready = p.rx_ready /\ q.rx = p.rx
      /\ q.tx = tx /\ q.said = p.said /\ q.unused = p.unused /\ q.pending_fc = p.pending_fc
  BY <1>1 DEF Fields
<1> QED BY <1>2 DEF Keeps, IsSlot

(* What the station was sent.                                              *)
LEMMA SaidChanged ==
    ASSUME NEW p, NEW p0, Keeps(p, p0), NEW said, NEW q, q = [p EXCEPT !.said = said]
    PROVE  Keeps(q, p0) /\ q.remote = p.remote /\ q.tx = p.tx /\ q.said = said
<1>1. DOMAIN p = Fields
  BY DEF Keeps, IsSlot
<1>2. /\ DOMAIN q = Fields /\ q.remote = p.remote /\ q.rx_ready = p.rx_ready /\ q.rx = p.rx
      /\ q.tx = p.tx /\ q.said = said /\ q.unused = p.unused /\ q.pending_fc = p.pending_fc
  BY <1>1 DEF Fields
<1> QED BY <1>2 DEF Keeps, IsSlot

(* The Flow Control it remembers.                                          *)
LEMMA GrantTaken ==
    ASSUME NEW p, NEW p0, Replaces(p, p0), NEW q,
           \/ q = Taken(p)
           \/ /\ p.pending_fc # NoFc /\ p.pending_fc.status = "ClearToSend"
              /\ q = [Taken(p) EXCEPT !.unused = @ - 1]
    PROVE  Replaces(q, p0) /\ q.remote = p.remote /\ q.tx = p.tx /\ q.said = p.said
<1> DEFINE t == Taken(p)
<1>1. DOMAIN p = Fields /\ p.unused \in Nat
  BY DEF Replaces, Keeps, IsSlot
<1>2. /\ DOMAIN t = Fields /\ t.remote = p.remote /\ t.rx_ready = p.rx_ready /\ t.rx = p.rx
      /\ t.tx = p.tx /\ t.said = p.said /\ t.unused = p.unused /\ t.pending_fc = NoFc
  BY <1>1 DEF Fields, Taken
<1> HIDE DEF t
<1>3. /\ DOMAIN q = Fields /\ q.remote = p.remote /\ q.rx_ready = p.rx_ready /\ q.rx = p.rx
      /\ q.tx = p.tx /\ q.said = p.said /\ q.unused \in Nat /\ q.pending_fc = NoFc
  <2>1. CASE q = t
    BY <1>1, <1>2, <2>1
  <2>2. CASE /\ p.pending_fc # NoFc /\ p.pending_fc.status = "ClearToSend"
             /\ q = [t EXCEPT !.unused = @ - 1]
    <3>1. p.unused - 1 \in Nat
      BY <2>2 DEF Replaces, Keeps, IsSlot
    <3> QED BY <1>2, <2>2, <3>1 DEF Fields
  <2> QED BY <2>1, <2>2 DEF t
<1>4. Keeps(q, p0)
  BY <1>3 DEF Replaces, Keeps, IsSlot
<1>5. Said(q)
  BY <1>3 DEF Replaces, Said
<1> QED BY <1>3, <1>4, <1>5 DEF Replaces

(* Giving up leaves no session.                                            *)
LEMMA GivenUp ==
    ASSUME NEW p, NEW p0, Replaces(p, p0)
    PROVE  Replaces([p EXCEPT !.tx = TxIdle], p0)
<1> DEFINE q == [p EXCEPT !.tx = TxIdle]
<1>1. Keeps(p, p0)
  BY DEF Replaces
<1>2. q = [p EXCEPT !.tx = TxIdle]
  OBVIOUS
<1> HIDE DEF q
<1>3. Keeps(q, p0) /\ q.remote = p.remote /\ q.tx = TxIdle /\ q.said = p.said
  BY <1>1, <1>2, TxChanged
<1>4. Said(q)
  BY <1>3 DEF Replaces, Said, SentTo, TxIdle
<1> QED BY <1>3, <1>4 DEF Replaces, q

-----------------------------------------------------------------------------
(* poll_send_to: what the call changes. *)

(* The payloads that wait are those the ingested frame left.               *)
Sent(in) ==
    /\ Alike(peers', in.peers, in.ready, Fields) /\ Speaks(peers')
    /\ ready' = in.ready /\ handed' = handed
    /\ Counted(in)

(* Slots and ring as an ingestion leaves them. *)
Sane(in) == Consistent(in.peers, in.ready, Fields) /\ Speaks(in.peers)

(* The station of a send is a slot of the table.                           *)
LEMMA StationFit ==
    ASSUME NEW in, Sane(in), NEW remote \in Remote, alloc_error(in.peers, remote) = "None"
    PROVE  Replaces(Station(in, remote), Station(in, remote)) /\ Station(in, remote).remote = remote
<1> DEFINE ps == with_peer(in.peers, remote)
           i == find_peer_index(ps, remote)
<1>1. Alike(ps, in.peers, in.ready, Fields) /\ Speaks(ps) /\ i \in 1..Len(ps) /\ ps[i].remote = remote
  BY Allocated DEF Sane
<1>2. Station(in, remote) = ps[i]
  BY DEF Station
<1> HIDE DEF ps, i
<1>3. IsSlot(ps[i], Fields) /\ Said(ps[i])
  BY <1>1 DEF Alike, Consistent, Speaks
<1> QED BY <1>1, <1>2, <1>3 DEF Replaces, Keeps

(* A station takes the place it came from.                                 *)
LEMMA StepsSent ==
    ASSUME NEW in, Sane(in), NEW remote \in Remote, alloc_error(in.peers, remote) = "None",
           NEW p, Replaces(p, Station(in, remote)),
           NEW result, NEW pdus, Steps(in, p, result, pdus)
    PROVE  Sent(in)
<1> DEFINE ps == with_peer(in.peers, remote)
           i == find_peer_index(ps, remote)
<1>1. Alike(ps, in.peers, in.ready, Fields) /\ Speaks(ps) /\ i \in 1..Len(ps) /\ ps[i].remote = remote
  BY Allocated DEF Sane
<1>2. Station(in, remote) = ps[i]
  BY DEF Station
<1>3. /\ IsSlot(p, Fields) /\ Said(p) /\ p.remote = remote
      /\ p.rx_ready = ps[i].rx_ready /\ p.rx = ps[i].rx
  BY <1>1, <1>2 DEF Replaces, Keeps
<1>4. /\ peers' = [ps EXCEPT ![i] = p] /\ ready' = in.ready
      /\ handed' = handed /\ Counted(in)
  BY <1>3 DEF Steps
<1> HIDE DEF ps, i
<1>5. Consistent(ps, in.ready, Fields) /\ IsList(ps) /\ Waiting(ps, in.ready) = Waiting(in.peers, in.ready)
  BY <1>1 DEF Alike, Consistent
<1>6. Alike(peers', ps, in.ready, Fields)
  BY <1>1, <1>3, <1>4, <1>5, SlotReplaced
<1>7. Speaks(peers')
  BY <1>1, <1>3, <1>4, <1>5, SpeaksReplaced
<1> QED BY <1>4, <1>5, <1>6, <1>7 DEF Sent, Alike

(* A frame of the session is taken by the driver or refused.               *)
LEMMA SendsSent ==
    ASSUME NEW in, Sane(in), NEW remote \in Remote, alloc_error(in.peers, remote) = "None",
           NEW p, Replaces(p, Station(in, remote)), NEW pdu, NEW then,
           Replaces([then EXCEPT !.said = Spoken(p, pdu)], Station(in, remote)),
           NEW result, Sends(in, p, pdu, then, result)
    PROVE  Sent(in)
<1>1. CASE Steps(in, [then EXCEPT !.said = Spoken(p, pdu)], result, <<pdu>>)
  BY <1>1, StepsSent
<1>2. CASE Steps(in, [p EXCEPT !.tx = TxIdle], "LinkError", <<>>)
  BY <1>2, GivenUp, StepsSent
<1> QED BY <1>1, <1>2 DEF Sends

-----------------------------------------------------------------------------
(* The bytes a station is sent. *)

(* Payloads of different lengths begin alike.                              *)
LEMMA PayloadBegins ==
    ASSUME NEW r, NEW n \in Nat, NEW k \in 0..n
    PROVE  LET S == ({r} \X Nat) \cup {Pad}
           IN  /\ Payload(r, n) \in Seq(S) /\ Len(Payload(r, n)) = n
               /\ SubSeq(Payload(r, n), 1, k) = Payload(r, k)
<1> DEFINE S == ({r} \X Nat) \cup {Pad}
<1>1. ASSUME NEW m \in Nat
      PROVE  /\ Payload(r, m) \in Seq(S) /\ Len(Payload(r, m)) = m
             /\ \A i \in 1..m : Payload(r, m)[i] = <<r, i>>
  <2>1. Payload(r, m) \in [1..m -> S]
    BY DEF Payload
  <2>2. DOMAIN Payload(r, m) = 1..m
    BY DEF Payload
  <2>3. \A i \in 1..m : Payload(r, m)[i] = <<r, i>>
    BY DEF Payload
  <2> HIDE DEF S
  <2> QED BY <2>1, <2>2, <2>3
<1> HIDE DEF S
<1>2. /\ SubSeq(Payload(r, n), 1, k) \in Seq(S) /\ Len(SubSeq(Payload(r, n), 1, k)) = k
      /\ \A i \in 1..k : SubSeq(Payload(r, n), 1, k)[i] = Payload(r, n)[i]
  <2>1. Payload(r, n) \in Seq(S) /\ k \in 0..Len(Payload(r, n))
    BY <1>1
  <2> QED BY <2>1, PrefixOf
<1>3. k \in Nat /\ \A i \in 1..k : i \in 1..n
  OBVIOUS
<1>4. \A i \in 1..k : SubSeq(Payload(r, n), 1, k)[i] = Payload(r, k)[i]
  BY <1>1, <1>2, <1>3
<1>5. SubSeq(Payload(r, n), 1, k) = Payload(r, k)
  BY <1>1, <1>2, <1>3, <1>4, SeqEqual
<1> QED BY <1>1, <1>5 DEF S

(* A frame leaves the station at k bytes of its payload.                   *)
LEMMA SpokenUpTo ==
    ASSUME NEW p, NEW p0, Keeps(p, p0), NEW k \in Nat, SentTo(p.tx, k),
           NEW said, said = Payload(p.remote, k)
    PROVE  Replaces([p EXCEPT !.said = said], p0)
<1> DEFINE q == [p EXCEPT !.said = said]
<1>1. Keeps(q, p0) /\ q.remote = p.remote /\ q.tx = p.tx /\ q.said = said
  BY SaidChanged
<1> HIDE DEF q
<1>2. Len(said) = k
  <2>1. k \in 0..k
    OBVIOUS
  <2> QED BY <2>1, PayloadBegins
<1>3. Said(q)
  BY <1>1, <1>2 DEF Said
<1> QED BY <1>1, <1>3 DEF Replaces, q

(* start_send, with a payload that needs several frames.                   *)
LEMMA FirstSpoken ==
    ASSUME NEW in, Sane(in), NEW remote \in Remote, alloc_error(in.peers, remote) = "None",
           NEW n \in Nat, SendFirst(in, Station(in, remote), n)
    PROVE  Sent(in)
<1> DEFINE p == Station(in, remote)
           payload == Payload(p.remote, n)
           k == max_first_frame_payload(Cfg)
           pdu == FirstFrameOf(Cfg, payload)
           tx == WaitingForFc(NewSession(Cfg, payload), Timer(Cfg.n_bs))
           then == [p EXCEPT !.tx = tx]
<1>1. /\ n > max_single_frame_payload(Cfg)
      /\ Sends(in, p, pdu, then, "WaitingForFlowControl")
  BY DEF SendFirst
<1>2. Replaces(p, p)
  BY StationFit
<1> HIDE DEF p
<1>3. Cfg.frame_len \in Nat
  BY CfgAssumption
<1>4. k \in Nat /\ k < n /\ SentTo(tx, k)
  <2>1. payload \in Seq(({p.remote} \X Nat) \cup {Pad}) /\ Len(payload) = n
    <3>1. 0 \in 0..n
      OBVIOUS
    <3> QED BY <3>1, PayloadBegins
  <2> HIDE DEF payload
  <2>2. k < n /\ SentTo(tx, k)
    BY <1>1, <1>3, <2>1, FirstSent
  <2>3. k \in Nat
    BY <1>3, FrameRoom
  <2> QED BY <2>2, <2>3
<1>5. Spoken(p, pdu) = Payload(p.remote, k)
  <2>1. pdu.kind = "FF" /\ pdu.data = SubSeq(payload, 1, k)
    BY DEF FirstFrameOf, FirstFrame
  <2>2. k \in 0..n
    BY <1>4
  <2>3. SubSeq(payload, 1, k) = Payload(p.remote, k)
    BY <2>2, PayloadBegins
  <2> HIDE DEF pdu
  <2> QED BY <2>1, <2>3 DEF Spoken
<1> HIDE DEF pdu, tx, k
<1>6. Keeps(then, p) /\ then.remote = p.remote /\ then.tx = tx
  BY <1>2, TxChanged DEF Replaces
<1> HIDE DEF then
<1>7. Replaces([then EXCEPT !.said = Spoken(p, pdu)], p)
  BY <1>4, <1>5, <1>6, SpokenUpTo
<1> QED BY <1>1, <1>2, <1>7, SendsSent DEF p

(* continue_send: the session s sends its next Consecutive Frame.          *)
LEMMA NextSpoken ==
    ASSUME NEW in, Sane(in), NEW remote \in Remote, alloc_error(in.peers, remote) = "None",
           NEW p, Replaces(p, Station(in, remote)), NEW n \in Nat, NEW s,
           Len(p.said) < n, SessionAt(s, Len(p.said), n),
           p.tx.session.payload_len = n, Continues(in, p, s, n)
    PROVE  Sent(in)
<1> DEFINE payload == Payload(p.remote, n)
           k == Len(p.said)
           e == Reach(Cfg, k, n)
           data == Padded(Cfg, NextChunk(Cfg, s, payload))
           pdu == NextFrame(Cfg, s, payload)
           tx == AfterFrame(Cfg, s, payload)
           then == [p EXCEPT !.tx = tx]
           S == ({p.remote} \X Nat) \cup {Pad}
<1>1. \E result : Sends(in, p, pdu, then, result)
  BY DEF Continues
<1>2. Cfg.frame_len \in Nat
  BY CfgAssumption
<1>3. k \in Nat /\ k \in 0..n /\ p.said = Payload(p.remote, k)
  BY DEF Replaces, Said
<1>4. payload \in Seq(S) /\ Len(payload) = n /\ Pad \in S
      /\ SubSeq(payload, 1, k) = p.said
  BY <1>3, PayloadBegins
<1> HIDE DEF payload, S
<1>5. SentTo(tx, e) /\ e \in k..n
  <2>1. k < Len(payload) /\ SessionAt(s, k, Len(payload))
    BY <1>4
  <2>2. SentTo(AfterFrame(Cfg, s, payload), Reach(Cfg, k, Len(payload)))
    BY <1>2, <1>3, <1>4, <2>1, FrameSent
  <2>3. Reach(Cfg, k, Len(payload)) \in k..Len(payload)
    BY <1>2, <1>3, <1>4, <2>1, ChunkReach
  <2> QED BY <1>4, <2>2, <2>3
<1>6. Firsts(p.said \o data, n) = SubSeq(payload, 1, e)
  <2>1. k < Len(payload) /\ SessionAt(s, k, Len(payload))
    BY <1>4
  <2> DEFINE said == p.said
  <2>0. said = SubSeq(payload, 1, k)
    BY <1>4
  <2> HIDE DEF k, said
  <2>2. Cfg.frame_len \in Nat /\ Pad \in S /\ payload \in Seq(S) /\ k \in Nat
        /\ k < Len(payload) /\ SessionAt(s, k, Len(payload)) /\ said = SubSeq(payload, 1, k)
    BY <1>2, <1>3, <1>4, <2>0, <2>1
  <2>3. SubSeq(said \o data, 1, Lesser(Len(said \o data), Len(payload)))
            = SubSeq(payload, 1, Reach(Cfg, k, Len(payload)))
    BY <2>2, HeardSoFar, ZenonT(60)
  <2> USE DEF said
  <2> QED BY <1>4, <2>3 DEF Firsts
<1>7. SubSeq(payload, 1, e) = Payload(p.remote, e) /\ e \in Nat
  <2>1. e \in 0..n /\ e \in Nat
    BY <1>3, <1>5
  <2> HIDE DEF e
  <2> QED BY <2>1, PayloadBegins DEF payload
<1>8. Spoken(p, pdu) = Payload(p.remote, e)
  <2>1. pdu.kind = "CF" /\ pdu.data = data
    BY DEF NextFrame, ConsecutiveFrame
  <2> HIDE DEF pdu, data, e
  <2> QED BY <1>6, <1>7, <2>1 DEF Spoken
<1> HIDE DEF pdu, data, tx, e, k
<1>9. Keeps(then, Station(in, remote)) /\ then.remote = p.remote /\ then.tx = tx
  BY TxChanged DEF Replaces
<1> HIDE DEF then
<1>10. Replaces([then EXCEPT !.said = Spoken(p, pdu)], Station(in, remote))
  BY <1>5, <1>7, <1>8, <1>9, SpokenUpTo
<1> QED BY <1>1, <1>10, SendsSent

-----------------------------------------------------------------------------
(* A station's session, as poll_send_to finds it.                          *)
LEMMA SessionFound ==
    ASSUME NEW p, NEW p0, Replaces(p, p0), p.tx.state # "Idle", NEW n, p.tx.session.payload_len = n
    PROVE  /\ SessionAt(p.tx.session, Len(p.said), n) /\ Len(p.said) < n
           /\ n \in Nat /\ Len(p.said) \in Nat
BY DEF Replaces, Said, SentTo

(* The ways through poll_send_to once the frame is ingested.               *)
LEMMA SendStepSent ==
    ASSUME NEW in, Sane(in), NEW remote \in Remote, alloc_error(in.peers, remote) = "None",
           NEW n \in Nat, SendStep(in, Station(in, remote), n)
    PROVE  Sent(in)
<1> DEFINE p == Station(in, remote)
           k == Len(p.said)
           s == p.tx.session
<1>1. Replaces(p, p)
  BY StationFit
<1>2. ASSUME NEW q, Replaces(q, p), NEW result, Steps(in, q, result, <<>>)
      PROVE  Sent(in)
  BY <1>2, StepsSent
<1>3. ASSUME NEW state, state # "Idle", Resumes(p, n, state)
      PROVE  /\ p.tx.state # "Idle" /\ p.tx.session.payload_len = n
             /\ SessionAt(s, k, n) /\ k < n
  <2> HIDE DEF p
  <2>1. p.tx.state # "Idle" /\ p.tx.session.payload_len = n
    BY <1>3 DEF Resumes
  <2> QED BY <1>1, <2>1, SessionFound
<1>4. CASE SendSingle(in, p, n)
  <2> DEFINE pdu == SingleFrame(Payload(p.remote, n))
             then == [p EXCEPT !.said = Spoken(p, pdu)]
  <2>1. Sends(in, p, pdu, p, "Completed")
    BY <1>4 DEF SendSingle
  <2> HIDE DEF p
  <2>2. Spoken(p, pdu) = p.said
    BY DEF Spoken, SingleFrame
  <2>3. k \in Nat /\ p.said = Payload(p.remote, k) /\ SentTo(p.tx, k) /\ Keeps(p, p)
    BY <1>1 DEF Replaces, Said
  <2> HIDE DEF k, pdu
  <2>4. Replaces(then, p)
    BY <2>2, <2>3, SpokenUpTo
  <2> QED BY <1>1, <2>1, <2>4, SendsSent DEF p
<1>5. CASE SendFirst(in, p, n)
  BY <1>5, FirstSpoken
<1>6. CASE SendMismatch(in, p, n) \/ FcTimeout(in, p, n)
  <2> HIDE DEF p
  <2>1. Replaces([p EXCEPT !.tx = TxIdle], p)
    BY <1>1, GivenUp
  <2> QED BY <1>2, <1>6, <2>1 DEF SendMismatch, FcTimeout
<1>7. CASE NoFcYet(in, p, n) \/ Paces(in, p, n)
  <2> HIDE DEF p
  <2> QED BY <1>1, <1>2, <1>7 DEF NoFcYet, Paces
<1>8. CASE GotClearToSend(in, p, n)
  <2> DEFINE q == [Taken(p) EXCEPT !.unused = @ - 1]
             c == Cleared(Cfg, s, p.pending_fc)
  <2>1. /\ p.pending_fc # NoFc /\ p.pending_fc.status = "ClearToSend"
        /\ Resumes(p, n, "WaitingForFc") /\ Continues(in, q, c, n)
    BY <1>8 DEF GotClearToSend, GotFc, Awaits
  <2>2. SessionAt(s, k, n) /\ k < n /\ p.tx.session.payload_len = n
    BY <1>3, <2>1
  <2> HIDE DEF p
  <2>3. Replaces(q, p) /\ q.tx = p.tx /\ q.said = p.said
    BY <1>1, <2>1, GrantTaken
  <2> HIDE DEF q, s
  <2>4. SessionAt(c, k, n)
    BY <2>2 DEF Cleared, SessionAt, SessionFields
  <2> HIDE DEF c
  <2> QED BY <2>1, <2>2, <2>3, <2>4, NextSpoken DEF p
<1>9. CASE GotWait(in, p, n)
  <2> DEFINE t == Taken(p)
             w == Waited(s)
             tx == WaitingForFc(w, Timer(Cfg.n_bs))
             q == [t EXCEPT !.tx = tx]
  <2>1. Resumes(p, n, "WaitingForFc") /\ \E result : Steps(in, q, result, <<>>)
    BY <1>9 DEF GotWait, GotFc, Awaits
  <2>2. SessionAt(s, k, n) /\ k < n
    BY <1>3, <2>1
  <2> HIDE DEF p
  <2>3. Replaces(t, p) /\ t.said = p.said
    BY <1>1, GrantTaken
  <2> HIDE DEF s, t
  <2>4. SessionAt(w, k, n)
    BY <2>2 DEF Waited, SessionAt, SessionFields
  <2> HIDE DEF w
  <2>5. SentTo(tx, k)
    BY <2>2, <2>4 DEF SentTo, WaitingForFc, SessionAt
  <2> HIDE DEF tx
  <2>6. Keeps(q, p) /\ q.remote = t.remote /\ q.tx = tx /\ q.said = t.said
    <3>1. Keeps(t, p)
      BY <2>3 DEF Replaces
    <3> QED BY <3>1, TxChanged
  <2> HIDE DEF q
  <2>7. Said(q)
    BY <2>3, <2>5, <2>6 DEF Replaces, Said
  <2>8. Replaces(q, p)
    BY <2>6, <2>7 DEF Replaces
  <2> QED BY <1>2, <2>1, <2>8 DEF p
<1>10. CASE GotOverflow(in, p, n)
  <2>1. Steps(in, [Taken(p) EXCEPT !.tx = TxIdle], "Overflow", <<>>)
    BY <1>10 DEF GotOverflow
  <2> HIDE DEF p
  <2>2. Replaces(Taken(p), p)
    BY <1>1, GrantTaken
  <2>3. Replaces([Taken(p) EXCEPT !.tx = TxIdle], p)
    BY <2>2, GivenUp
  <2> QED BY <1>2, <2>1, <2>3
<1>11. CASE SendConsecutive(in, p, n)
  <2>1. Resumes(p, n, "Sending") /\ Continues(in, p, s, n)
    BY <1>11 DEF SendConsecutive
  <2>2. SessionAt(s, k, n) /\ k < n /\ p.tx.session.payload_len = n
    BY <1>3, <2>1
  <2> HIDE DEF s
  <2> QED BY <1>1, <2>1, <2>2, NextSpoken
<1> QED BY <1>4, <1>5, <1>6, <1>7, <1>8, <1>9, <1>10, <1>11 DEF SendStep

(* poll_send_to, the frame it ingests included.                            *)
LEMMA PollSendToSent ==
    ASSUME IInv, PollSendTo
    PROVE  \E in \in Ingestions : Sent(in)
<1>1. PICK in \in Ingestions :
          \/ SendDisturbed(in)
          \/ \E remote \in Remote, n \in Lengths :
                \/ SendRefused(in, remote, n)
                \/ alloc_error(in.peers, remote) = "None" /\ SendStep(in, Station(in, remote), n)
  BY DEF PollSendTo
<1>2. Sane(in)
  BY <1>1, IngestionsFit DEF Fit, Sane
<1>3. ASSUME NEW error, Refuses(in, error)
      PROVE  Sent(in)
  BY <1>2, <1>3 DEF Refuses, Sent, Sane, Alike
<1>4. CASE SendDisturbed(in)
  BY <1>3, <1>4 DEF SendDisturbed
<1>5. ASSUME NEW remote, NEW n, SendRefused(in, remote, n)
      PROVE  Sent(in)
  BY <1>3, <1>5 DEF SendRefused
<1>6. ASSUME NEW remote \in Remote, NEW n \in Lengths, alloc_error(in.peers, remote) = "None",
             SendStep(in, Station(in, remote), n)
      PROVE  Sent(in)
  <2>1. n \in Nat
    BY DemuxAssumption
  <2> QED BY <1>2, <1>6, <2>1, SendStepSent
<1> QED BY <1>1, <1>4, <1>5, <1>6

(* A tick changes the deadlines only.                                      *)
LEMMA AdvanceAlike ==
    ASSUME IInv, Advance
    PROVE  Alike(peers', peers, ready, Fields) /\ Speaks(peers')
<1> DEFINE n == Len(peers)
           late == [i \in 1..n |-> [peers[i] EXCEPT !.tx = Later(@)]]
<1>1. n \in Nat /\ n <= MaxPeers
  BY ListLength DEF IInv, Consistent
<1>2. peers' = late
  BY DEF Advance
<1>3. IsList(late) /\ Len(late) = n
  <2> DEFINE S == {late[i] : i \in 1..n}
  <2>1. late \in [1..n -> S]
    OBVIOUS
  <2> HIDE DEF late, S
  <2>2. late \in Seq(S) /\ Len(late) = n
    BY <1>1, <2>1
  <2> QED BY <2>2 DEF IsList
<1>4. ASSUME NEW i \in 1..n
      PROVE  Replaces(late[i], peers[i])
  <2> DEFINE p == peers[i]
             q == late[i]
             tx == p.tx
             l == Later(tx)
             k == Len(p.said)
  <2>1. IsSlot(p, Fields) /\ Said(p)
    BY DEF IInv, Consistent, Speaks
  <2>2. q = [p EXCEPT !.tx = l]
    OBVIOUS
  <2> HIDE DEF late, p, q, l
  <2>3. Keeps(p, p)
    BY <2>1 DEF Keeps
  <2>4. Keeps(q, p) /\ q.remote = p.remote /\ q.tx = l /\ q.said = p.said
    BY <2>2, <2>3, TxChanged
  <2>5. SentTo(tx, k)
    BY <2>1 DEF Said
  <2> HIDE DEF k, tx
  <2>6. SentTo(l, k)
    <3>1. CASE tx.state = "Idle"
      BY <2>5, <3>1 DEF Later, l
    <3>2. CASE tx.state # "Idle"
      <4>1. l = [tx EXCEPT !.timer = Saturating(@, 1)]
        BY <3>2 DEF Later, l
      <4>2. DOMAIN tx = {"state", "session", "timer"}
        BY <2>5, <3>2 DEF SentTo
      <4>3. DOMAIN l = {"state", "session", "timer"} /\ l.state = tx.state /\ l.session = tx.session
        BY <4>1, <4>2
      <4> QED BY <2>5, <3>2, <4>3 DEF SentTo
    <3> QED BY <3>1, <3>2
  <2>7. Said(q)
    BY <2>1, <2>4, <2>6 DEF Said, k
  <2> QED BY <2>4, <2>7 DEF Replaces, p, q
<1> HIDE DEF late, n
<1>5. \A i \in 1..n : /\ IsSlot(late[i], Fields) /\ late[i].remote = peers[i].remote
                      /\ late[i].rx_ready = peers[i].rx_ready /\ late[i].rx = peers[i].rx
  BY <1>4 DEF Replaces, Keeps
<1>6. Flagged(late) = Flagged(peers)
  BY <1>3, <1>5 DEF Flagged, n
<1>7. Consistent(late, ready, Fields)
  BY <1>1, <1>3, <1>5, <1>6 DEF IInv, Consistent, n
<1>8. Waiting(late, ready) = Waiting(peers, ready)
  <2>1. Holds(ready, Flagged(peers)) /\ Flagged(peers) \subseteq 1..n
    BY DEF IInv, Consistent, Flagged, n
  <2>2. \A i \in Flagged(peers) : Told(late, i) = Told(peers, i)
    BY <1>5, <2>1 DEF Told
  <2> QED BY <2>1, <2>2, WaitingKept
<1>9. Speaks(late)
  BY <1>3, <1>4 DEF Speaks, Replaces
<1> QED BY <1>2, <1>7, <1>8, <1>9 DEF Alike

-----------------------------------------------------------------------------
(* The invariant holds at the start.                                       *)
LEMMA InitIInv == Init => IInv
<1> SUFFICES ASSUME Init PROVE IInv
  OBVIOUS
<1>1. peers = <<>> /\ Len(<<>>) = 0 /\ 1..0 = {}
  BY DEF Init
<1>2. Speaks(peers)
  BY <1>1 DEF Speaks
<1>3. Consistent(peers, ready, Fields)
  BY EmptyConsistent DEF Init
<1> QED BY <1>2, <1>3, DemuxAssumption DEF Init, IInv

(* Every step preserves the invariant.                                     *)
LEMMA NextIInv == IInv /\ [Next]_vars => IInv'
<1> SUFFICES ASSUME IInv, [Next]_vars PROVE IInv'
  OBVIOUS
<1>1. CASE PollRecv
  BY <1>1, PollRecvIInv
<1>2. CASE PollSendTo
  <2>1. PICK in \in Ingestions : Sent(in)
    BY <1>2, PollSendToSent
  <2>2. frames' \in 0..MaxFrames
    BY <2>1, CountedFrames DEF Sent
  <2> QED BY <2>1, <2>2 DEF Sent, Alike, IInv
<1>3. CASE (\E n \in Lengths : SendFunctional(n)) \/ UNCHANGED vars
  <2>1. peers' = peers /\ ready' = ready /\ frames' = frames
    BY <1>3 DEF SendFunctional, vars
  <2> QED BY <2>1 DEF IInv
<1>4. CASE Advance
  <2>1. ready' = ready /\ frames' = frames
    BY <1>4 DEF Advance
  <2> QED BY <1>4, <2>1, AdvanceAlike DEF Alike, IInv
<1> QED BY <1>1, <1>2, <1>3, <1>4 DEF Next

(* Slots, ring and sessions stay consistent, whatever frames arrive.       *)
THEOREM StaysConsistent == Spec => []IInv
BY InitIInv, NextIInv, PTL DEF Spec

(* Every slot has a station and a state, the ring and the count of frames  *)
(* keep to their bounds.                                                   *)
THEOREM Typed == Spec => []TypeOK
<1>1. IInv => TypeOK
  <2> SUFFICES ASSUME IInv PROVE TypeOK
    OBVIOUS
  <2>1. ready \in Ring
    BY DEF IInv, Consistent, Holds
  <2>2. ready \in [buf : [0..(MaxPeers - 1) -> 0..MaxPeers], head : 0..(MaxPeers - 1),
                   tail : 0..(MaxPeers - 1), len : 0..MaxPeers]
    BY <2>1 DEF Ring
  <2>3. \A i \in 1..Len(peers) :
          /\ peers[i].remote \in Remote \ {LocalAddr}
          /\ peers[i].rx_ready \in BOOLEAN
          /\ peers[i].rx.state \in {"Idle", "Receiving"}
          /\ peers[i].tx.state \in {"Idle", "WaitingForFc", "Sending"}
    BY DEF IInv, Consistent, IsSlot, Tracks, Speaks, Said, SentTo
  <2> QED BY <2>2, <2>3 DEF IInv, Consistent, TypeOK
<1> QED BY <1>1, StaysConsistent, PTL

(* A slot is queued exactly when its payload waits, for any number of      *)
(* stations and any frames: push of ReadyQueue never fails and poll_recv   *)
(* finds a payload behind what it pops.                                    *)
THEOREM RingMatchesFlags == Spec => []ReadyMatchesFlags
<1>1. IInv => ReadyMatchesFlags
  <2> SUFFICES ASSUME Holds(ready, Flagged(peers)) PROVE ReadyMatchesFlags
    BY DEF IInv, Consistent
  <2>1. ready.tail = (ready.head + ready.len) % MaxPeers
    BY DEF Holds
  <2> QED BY <2>1, RingCounts DEF ReadyMatchesFlags, Flagged
<1> QED BY <1>1, StaysConsistent, PTL

(* No station ever has two slots (find_peer_index before alloc_peer).      *)
THEOREM StationsDiffer == Spec => []OneSlotPerStation
<1>1. IInv => OneSlotPerStation
  BY DEF IInv, Consistent, OneSlotPerStation
<1> QED BY <1>1, StaysConsistent, PTL

(* No two blocks use the same ClearToSend (pending_fc.take()), whatever    *)
(* stations compete.                                                       *)
THEOREM GrantsUsedOnce == Spec => []GrantUsedOnce
<1>1. IInv => GrantUsedOnce
  BY DEF IInv, Consistent, IsSlot, GrantUsedOnce
<1> QED BY <1>1, StaysConsistent, PTL

(* What goes out to a station continues what it was sent, byte by byte,    *)
(* for payloads of any length and frames of any size, with or without      *)
(* padding, whatever else is sent and received in between.                 *)
THEOREM SegmentsStayInOrder == Spec => []SegmentsInOrder
<1>1. IInv => SegmentsInOrder
  BY DEF IInv, Speaks, Said, SentTo, SessionAt, SegmentsInOrder
<1> QED BY <1>1, StaysConsistent, PTL

-----------------------------------------------------------------------------
(* The mailbox: every step is one of its steps or changes nothing in it. *)

(* A payload that arrives is one the mailbox may take.                     *)
LEMMA ArrivalCompletes ==
    ASSUME Arrives(Waiting(peers, ready), Waiting(peers', ready')), handed' = handed
    PROVE  Mailbox!Next
<1>1. PICK r \in Remote : \E payload \in Content[r] :
          Adds(Waiting(peers, ready), r, payload, Waiting(peers', ready'))
  BY DEF Arrives
<1>2. Mailbox!Complete(r)
  BY <1>1 DEF Mailbox!Complete, Adds
<1> QED BY <1>1, <1>2 DEF Mailbox!Next

(* A payload that arrives in an empty mailbox may be handed out at once.   *)
LEMMA ArrivalPasses ==
    ASSUME NEW w, Arrives(<<>>, w), handed' = Append(handed, Head(w)),
           Waiting(peers, ready) = <<>>, Waiting(peers', ready') = Tail(w)
    PROVE  Mailbox!Next
<1>1. PICK r \in Remote : \E payload \in Content[r] : Head(w) = <<r, payload>> /\ Tail(w) = <<>>
  BY ArrivesAlone
<1>2. Mailbox!Pass(r)
  BY <1>1 DEF Mailbox!Pass
<1> QED BY <1>1, <1>2 DEF Mailbox!Next

(* What an ingestion leaves in the ring is in it after the call.           *)
LEMMA LeftWaiting ==
    ASSUME NEW in, Fit(in), Waiting(peers', ready') = Waiting(in.peers, in.ready),
           handed' = handed
    PROVE  [Mailbox!Next]_(Mailbox!vars)
<1>1. CASE in.ret # "Completed"
  BY <1>1 DEF Fit, Mailbox!vars
<1>2. CASE in.ret = "Completed"
  BY <1>2, ArrivalCompletes DEF Fit
<1> QED BY <1>1, <1>2

(* poll_recv takes the oldest payload out, or lets a new one through.      *)
LEMMA PollRecvMailbox ==
    ASSUME IInv, PollRecv
    PROVE  [Mailbox!Next]_(Mailbox!vars)
<1>1. CASE RecvWaiting
  <2>1. ready.len > 0 /\ Delivers(peers, ready)
    BY <1>1 DEF RecvWaiting
  <2>2. /\ Waiting(peers, ready) # <<>>
        /\ handed' = Append(handed, Head(Waiting(peers, ready)))
        /\ Waiting(peers', ready') = Tail(Waiting(peers, ready))
    BY <2>1, DeliversOldest DEF IInv
  <2>3. Mailbox!HandOut
    BY <2>2 DEF Mailbox!HandOut
  <2> QED BY <2>3 DEF Mailbox!Next
<1>2. CASE RecvCompleted
  <2>1. PICK in \in Ingestions : in.ret = "Completed" /\ Delivers(in.peers, in.ready)
    BY <1>2 DEF RecvCompleted
  <2> DEFINE w == Waiting(in.peers, in.ready)
  <2>2. /\ Consistent(in.peers, in.ready, Fields) /\ Speaks(in.peers) /\ in.ready.len > 0
        /\ Arrives(Waiting(peers, ready), w)
    BY <2>1, IngestionsFit DEF Fit
  <2>3. w # <<>> /\ handed' = Append(handed, Head(w)) /\ Waiting(peers', ready') = Tail(w)
    BY <2>1, <2>2, DeliversOldest
  <2>4. Waiting(peers, ready) = <<>>
    BY <1>2, NothingWaits DEF RecvCompleted, IInv, Consistent
  <2> QED BY <2>2, <2>3, <2>4, ArrivalPasses
<1>3. CASE RecvNothing
  <2>1. PICK in \in Ingestions : peers' = in.peers /\ ready' = in.ready
    BY <1>3 DEF RecvNothing
  <2>2. handed' = handed
    BY <1>3 DEF RecvNothing
  <2> QED BY <2>1, <2>2, IngestionsFit, LeftWaiting
<1> QED BY <1>1, <1>2, <1>3 DEF PollRecv

(* Every step of the demultiplexer.                                        *)
LEMMA NextMailbox == IInv /\ [Next]_vars => [Mailbox!Next]_(Mailbox!vars)
<1> SUFFICES ASSUME IInv, [Next]_vars PROVE [Mailbox!Next]_(Mailbox!vars)
  OBVIOUS
<1>1. CASE PollRecv
  BY <1>1, PollRecvMailbox
<1>2. CASE PollSendTo
  <2>1. PICK in \in Ingestions : Sent(in)
    BY <1>2, PollSendToSent
  <2>2. Fit(in)
    BY IngestionsFit
  <2> QED BY <2>1, <2>2, LeftWaiting DEF Sent, Alike
<1>3. CASE (\E n \in Lengths : SendFunctional(n)) \/ UNCHANGED vars
  BY <1>3 DEF SendFunctional, vars, Mailbox!vars
<1>4. CASE Advance
  <2>1. ready' = ready /\ handed' = handed
    BY <1>4 DEF Advance
  <2>2. Waiting(peers', ready') = Waiting(peers, ready)
    BY <1>4, <2>1, AdvanceAlike DEF Alike
  <2> QED BY <2>1, <2>2 DEF Mailbox!vars
<1> QED BY <1>1, <1>2, <1>3, <1>4 DEF Next

(* Whatever frames arrive, in any order and number, from any number of     *)
(* stations: each complete payload waits unchanged behind those complete   *)
(* before it and is handed out once, with the station it came from, and    *)
(* every one of them is made up of frames of that station alone.           *)
THEOREM MailboxImplemented == Spec => ImplementsMailbox
<1>1. Init => Mailbox!Init
  <2> SUFFICES ASSUME Init PROVE Mailbox!Init
    OBVIOUS
  <2>1. Consistent(peers, ready, Fields)
    BY EmptyConsistent DEF Init
  <2>2. ready.len = 0
    BY DEF Init, EmptyQueue
  <2>3. Waiting(peers, ready) = <<>>
    BY <2>1, <2>2, NothingWaits DEF Consistent
  <2> QED BY <2>3 DEF Init, Mailbox!Init
<1> QED BY <1>1, NextMailbox, StaysConsistent, PTL DEF Spec, ImplementsMailbox, Mailbox!Spec
=============================================================================
