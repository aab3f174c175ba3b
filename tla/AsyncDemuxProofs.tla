-------------------------- MODULE AsyncDemuxProofs --------------------------
(***************************************************************************)
(* The async demultiplexer, for any number of stations and frames of any   *)
(* shape: the ring and the flags agree, a ClearToSend serves one block, an *)
(* answer goes to the station that waits for it, and payloads pass through *)
(* a first-in first-out mailbox wherever the calls are cut off.            *)
(***************************************************************************)
EXTENDS IsoTpAsyncDemux, SlotProofs

Fields == {"remote", "rx", "rx_ready", "pending_fc", "unused"}

(* recv looks at the ring before it awaits a frame: while it awaits one,   *)
(* or sends the answer to one, no payload waits.                           *)
NothingLeft == call.at \in {"FrameIn", "GrantOut"} => ready.len = 0

(* The invariant on the slots and the ring, with the station that is owed  *)
(* the answer on its way out.  Every call has an `at`.                     *)
IInv ==
    /\ Consistent(peers, ready, Fields)
    /\ "at" \in DOMAIN call /\ NothingLeft
    /\ AnswersAreDue

(* Slots that hold what the slots of the demultiplexer hold. *)
Underway(ps) == Alike(ps, peers, ready, Fields)

(* peer_index_or_alloc leaves the slots consistent and the station found.  *)
LEMMA Allocated ==
    ASSUME Consistent(peers, ready, Fields), NEW remote \in Remote,
           alloc_error(peers, remote) = "None"
    PROVE  LET ts == peer_index_or_alloc(peers, remote)
               i == find_peer_index(ts, remote)
           IN  Underway(ts) /\ i \in 1..Len(ts) /\ ts[i].remote = remote
<1> DEFINE p == NewPeer(remote)
           ts == Append(peers, p)
<1>1. Len(peers) \in Nat /\ IsList(peers)
  BY ListLength DEF Consistent
<1>2. CASE find_peer_index(peers, remote) # 0
  BY <1>1, <1>2, Found DEF peer_index_or_alloc, Underway, Alike
<1>3. CASE find_peer_index(peers, remote) = 0
  <2>1. \A j \in 1..Len(peers) : peers[j].remote # remote
    BY <1>1, <1>3, Found
  <2>2. Len(peers) # MaxPeers /\ remote # LocalAddr
    BY <1>3 DEF alloc_error
  <2>3. IsSlot(p, Fields) /\ ~p.rx_ready /\ p.remote = remote
    BY <2>2 DEF NewPeer, IsSlot, Tracks, Fields, RxNew, RxFields, NoFc
  <2> HIDE DEF p
  <2>4. Alike(ts, peers, ready, Fields)
    BY <2>1, <2>2, <2>3, SlotFilled
  <2>5. Len(ts) = Len(peers) + 1 /\ ts[Len(peers) + 1] = p
    BY <1>1, ListAppended
  <2>6. Len(peers) + 1 \in 1..Len(ts) /\ ts[Len(peers) + 1].remote = remote
    BY <1>1, <2>3, <2>5
  <2>7. find_peer_index(ts, remote) = Len(peers) + 1
    BY <2>4, <2>6, SameStation DEF Alike
  <2> QED BY <1>3, <2>4, <2>6, <2>7 DEF peer_index_or_alloc, Underway, p
<1> QED BY <1>2, <1>3

(* What a frame leaves behind: consistent slots, the same payloads as      *)
(* before or one more, and an answer only for a station whose transfer     *)
(* waits for it.                                                           *)
Fit(in, i) ==
    /\ Consistent(in.peers, in.ready, Fields)
    /\ \/ Waiting(in.peers, in.ready) = Waiting(peers, ready)
       \/ Arrives(Waiting(peers, ready), Waiting(in.peers, in.ready))
    /\ in.ret = "Reply" =>
          in.ready = ready /\ i \in 1..Len(in.peers) /\ Due(in.peers[i].rx)

(* An ingestion that completes nothing and leaves nothing to answer.       *)
LEMMA IngestedFit ==
    ASSUME NEW ps, Underway(ps), NEW i, NEW result, result # "Reply"
    PROVE  Fit(Ingested(ps, ready, result), i)
BY DEF Fit, Ingested, Underway, Alike

(* A completed payload finds room in the ring.                             *)
LEMMA CompletedFit ==
    ASSUME NEW ps, Underway(ps), NEW i \in 1..Len(ps), i \notin Flagged(ps),
           ps[i].rx.content \in Content[ps[i].remote]
    PROVE  LET marked == [ps EXCEPT ![i].rx_ready = TRUE]
           IN  ~QueueFull(ready) /\ Fit(Ingested(marked, Pushed(ready, i), "None"), i)
<1> DEFINE marked == [ps EXCEPT ![i].rx_ready = TRUE]
           q == Pushed(ready, i)
<1>1. Consistent(ps, ready, Fields) /\ Waiting(ps, ready) = Waiting(peers, ready)
  BY DEF Underway, Alike
<1>2. /\ Consistent(marked, q, Fields) /\ ~QueueFull(ready)
      /\ Adds(Waiting(ps, ready), ps[i].remote, ps[i].rx.content, Waiting(marked, q))
  BY <1>1, SlotCompleted
<1>3. ps[i].remote \in Remote
  BY <1>1 DEF Consistent, IsSlot
<1> HIDE DEF marked, q
<1>4. Arrives(Waiting(peers, ready), Waiting(marked, q))
  BY <1>1, <1>2, <1>3 DEF Arrives
<1>5. Fit(Ingested(marked, q, "None"), i)
  BY <1>2, <1>4 DEF Fit, Ingested
<1> QED BY <1>2, <1>5 DEF marked, q

(* A data PDU goes through the receive machine of its slot.                *)
LEMMA ReceivedFit ==
    ASSUME NEW f \in BusFrame, NEW ps, Underway(ps), NEW i \in 1..Len(ps),
           ps[i].remote = f.source, i \notin Flagged(ps)
    PROVE  /\ Fit(Received(ps, i, f.pdu), i)
           /\ Received(ps, i, f.pdu).ret = "Reply" =>
                Received(ps, i, f.pdu).peers[i].remote = f.source
<1> DEFINE r == on_pdu(Cfg, ps[i].rx, f.pdu)
           moved == [ps EXCEPT ![i].rx = r.rx]
           marked == [moved EXCEPT ![i].rx_ready = TRUE]
           in == Received(ps, i, f.pdu)
<1>1. Consistent(ps, ready, Fields) /\ Waiting(ps, ready) = Waiting(peers, ready)
  BY DEF Underway, Alike
<1>2. Sound(r, f.source)
  BY <1>1, OnPduSound DEF Consistent, IsSlot
<1>3. Tracks(r.rx, ps[i].remote)
  BY <1>2 DEF Sound
<1> HIDE DEF r
<1>4. /\ Alike(moved, ps, ready, Fields)
      /\ i \in 1..Len(moved) /\ i \notin Flagged(moved)
      /\ moved[i].remote = ps[i].remote /\ moved[i].rx = r.rx
  <2>1. Alike(moved, ps, ready, Fields)
    BY <1>1, <1>3, SlotMoved
  <2>2. i \in 1..Len(moved) /\ i \notin Flagged(moved)
    BY <1>1, <1>3, SlotMoved
  <2>3. moved[i].remote = ps[i].remote /\ moved[i].rx = r.rx
    BY <1>1, <1>3, SlotMoved
  <2> QED BY <2>1, <2>2, <2>3
<1> HIDE DEF moved
<1>5. Underway(moved)
  BY <1>1, <1>4 DEF Underway, Alike
<1>6. CASE r.out = "Completed"
  <2>1. moved[i].rx.content \in Content[moved[i].remote]
    BY <1>2, <1>4, <1>6 DEF Sound
  <2>2. ~QueueFull(ready) /\ Fit(Ingested(marked, Pushed(ready, i), "None"), i)
    BY <1>4, <1>5, <2>1, CompletedFit
  <2>3. in = Ingested(marked, Pushed(ready, i), "None")
    BY <1>6, <2>2 DEF Received, r, moved
  <2>4. Ingested(marked, Pushed(ready, i), "None").ret = "None"
    BY DEF Ingested
  <2> HIDE DEF marked
  <2> QED BY <2>2, <2>3, <2>4
<1> HIDE DEF marked
<1>7. CASE r.out = "SendFlowControl"
  <2>1. in = Answered(moved, Grant(Cfg, r.rx))
    BY <1>7 DEF Received, r, moved
  <2>2. in.peers = moved /\ in.ready = ready
    BY <2>1 DEF Answered
  <2>3. Due(moved[i].rx)
    BY <1>2, <1>4, <1>7 DEF Sound
  <2> HIDE DEF in
  <2>4. Fit(in, i) /\ in.peers[i].remote = f.source
    BY <1>4, <1>5, <2>2, <2>3 DEF Fit, Underway, Alike
  <2> QED BY <2>4 DEF in
<1>8. ASSUME NEW result \in {"RxOverflow", "BadSequence", "None"},
             in = Ingested(moved, ready, result)
      PROVE  Fit(in, i) /\ in.ret # "Reply"
  <2>1. result # "Reply"
    OBVIOUS
  <2>2. Fit(Ingested(moved, ready, result), i)
    BY <1>5, <2>1, IngestedFit
  <2>3. Ingested(moved, ready, result).ret = result
    BY DEF Ingested
  <2> QED BY <1>8, <2>1, <2>2, <2>3
<1>9. CASE r.out = "Overflow"
  <2>1. in = Ingested(moved, ready, "RxOverflow")
    BY <1>9 DEF Received, r, moved
  <2> QED BY <1>8, <2>1
<1>10. CASE r.out = "BadSequence"
  <2>1. in = Ingested(moved, ready, "BadSequence")
    BY <1>10 DEF Received, r, moved
  <2> QED BY <1>8, <2>1
<1>11. CASE r.out \in {"None", "UnexpectedPdu"}
  <2>1. in = Ingested(moved, ready, "None")
    BY <1>11 DEF Received, r, moved
  <2> QED BY <1>8, <2>1
<1> QED BY <1>2, <1>6, <1>7, <1>9, <1>10, <1>11 DEF Sound, Outcomes, Errors

(* A Flow Control is remembered.                                           *)
LEMMA RememberedFit ==
    ASSUME NEW ps, Underway(ps), NEW i \in 1..Len(ps), NEW fc
    PROVE  Underway([ps EXCEPT ![i] = Remembered(@, fc)])
<1> DEFINE p == Remembered(ps[i], fc)
           ts == [ps EXCEPT ![i] = p]
<1>1. Consistent(ps, ready, Fields) /\ Waiting(ps, ready) = Waiting(peers, ready)
  BY DEF Underway, Alike
<1>2. IsSlot(ps[i], Fields)
  BY <1>1 DEF Consistent
<1>3. p.remote = ps[i].remote /\ p.rx_ready = ps[i].rx_ready /\ p.rx = ps[i].rx
  BY <1>2 DEF Remembered, IsSlot, Fields
<1>4. IsSlot(p, Fields)
  BY <1>2 DEF Remembered, IsSlot, Fields
<1> HIDE DEF p
<1>5. Alike(ts, ps, ready, Fields)
  BY <1>1, <1>3, <1>4, SlotReplaced
<1> QED BY <1>1, <1>5 DEF Underway, Alike, p

(* ingest_frame *)
LEMMA FrameFit ==
    ASSUME Consistent(peers, ready, Fields), NEW f \in BusFrame
    PROVE  Fit(ingest_frame(f), find_peer_index(ingest_frame(f).peers, f.source))
<1> DEFINE in == ingest_frame(f)
           error == alloc_error(peers, f.source)
           ps == peer_index_or_alloc(peers, f.source)
           i == find_peer_index(ps, f.source)
           at == find_peer_index(in.peers, f.source)
<1> SUFFICES Fit(in, at)
  OBVIOUS
<1>1. error # "Reply" /\ Underway(peers)
  BY DEF alloc_error, Underway, Alike
<1>2. ASSUME NEW ts, Underway(ts), NEW result, result # "Reply", in = Ingested(ts, ready, result)
      PROVE  Fit(in, at)
  <2>1. Fit(Ingested(ts, ready, result), at)
    BY <1>2, IngestedFit
  <2> QED BY <1>2, <2>1
<1>3. CASE ~Accepted(f)
  <2>1. in = Ingested(peers, ready, "None")
    BY <1>3 DEF ingest_frame
  <2> QED BY <1>1, <1>2, <2>1
<1>4. CASE Accepted(f) /\ error # "None"
  <2>1. in = Ingested(peers, ready, error)
    BY <1>4 DEF ingest_frame
  <2> QED BY <1>1, <1>2, <2>1
<1>5. CASE Accepted(f) /\ error = "None"
  <2>1. in = IngestPdu(ps, i, f)
    BY <1>5 DEF ingest_frame
  <2>2. Underway(ps) /\ i \in 1..Len(ps) /\ ps[i].remote = f.source
    BY <1>5, Allocated, DemuxAssumption
  <2> HIDE DEF in, ps, i
  <2>3. CASE in = Ingested(ps, ready, "InvalidFrame") \/ in = Ingested(ps, ready, "None")
    BY <1>2, <2>2, <2>3
  <2>4. CASE in = Ingested([ps EXCEPT ![i] = Remembered(@, f.pdu)], ready, "None")
    <3>1. Underway([ps EXCEPT ![i] = Remembered(@, f.pdu)])
      BY <2>2, RememberedFit
    <3> QED BY <1>2, <2>4, <3>1
  <2>5. CASE in = Received(ps, i, f.pdu) /\ ~ps[i].rx_ready
    <3>1. Fit(in, i) /\ (in.ret = "Reply" => in.peers[i].remote = f.source)
      BY <2>2, <2>5, ReceivedFit DEF Flagged
    <3>2. in.ret = "Reply" => at = i
      BY <3>1, SameStation DEF Fit
    <3> QED BY <3>1, <3>2 DEF Fit
  <2> QED BY <2>1, <2>3, <2>4, <2>5 DEF IngestPdu, HearsData
<1> QED BY <1>3, <1>4, <1>5

-----------------------------------------------------------------------------
(* The mailbox: every step is one of its steps or changes nothing in it. *)

Mailed == [Mailbox!Next]_(Mailbox!vars)

(* What a frame leaves in the ring is in it after the step.                *)
LEMMA LeftWaiting ==
    ASSUME NEW in, NEW i, Fit(in, i), peers' = in.peers, ready' = in.ready, handed' = handed
    PROVE  Mailed
<1>1. CASE Waiting(in.peers, in.ready) = Waiting(peers, ready)
  BY <1>1 DEF Mailed, Mailbox!vars
<1>2. CASE Arrives(Waiting(peers, ready), Waiting(in.peers, in.ready))
  <2>1. PICK r \in Remote : \E payload \in Content[r] :
            Adds(Waiting(peers, ready), r, payload, Waiting(peers', ready'))
    BY <1>2 DEF Arrives
  <2>2. Mailbox!Complete(r)
    BY <2>1 DEF Mailbox!Complete, Adds
  <2> QED BY <2>1, <2>2 DEF Mailed, Mailbox!Next
<1> QED BY <1>1, <1>2 DEF Fit

(* Nothing in the mailbox changes. *)
Still == Underway(peers') /\ ready' = ready /\ handed' = handed

(* The steps that complete no payload and hand none out.                   *)
LEMMA StillMailed ==
    ASSUME Still
    PROVE  Mailed
BY DEF Still, Underway, Alike, Mailed, Mailbox!vars

(* deliver_ready: the payload that waited longest leaves the mailbox, or   *)
(* the first one to arrive goes straight through.                          *)
LEMMA DeliversMailed ==
    ASSUME NEW ps, NEW q, Consistent(ps, q, Fields), q.len > 0, Delivers(ps, q),
           \/ Waiting(ps, q) = Waiting(peers, ready)
           \/ Waiting(peers, ready) = <<>> /\ Arrives(<<>>, Waiting(ps, q))
    PROVE  Mailed
<1> DEFINE w == Waiting(ps, q)
<1>1. /\ w # <<>> /\ Head(w) = Told(ps, Oldest(q))
      /\ Waiting([ps EXCEPT ![Oldest(q)].rx_ready = FALSE], Popped(q)) = Tail(w)
  BY SlotDelivered
<1>2. handed' = Append(handed, Head(w)) /\ Waiting(peers', ready') = Tail(w)
  BY <1>1 DEF Delivers, Told
<1> HIDE DEF w
<1>3. CASE w = Waiting(peers, ready)
  <2>1. Mailbox!HandOut
    BY <1>1, <1>2, <1>3 DEF Mailbox!HandOut
  <2> QED BY <2>1 DEF Mailed, Mailbox!Next
<1>4. CASE Waiting(peers, ready) = <<>> /\ Arrives(<<>>, w)
  <2>1. PICK r \in Remote : \E payload \in Content[r] : Head(w) = <<r, payload>> /\ Tail(w) = <<>>
    BY <1>4, ArrivesAlone
  <2>2. Mailbox!Pass(r)
    BY <1>2, <1>4, <2>1 DEF Mailbox!Pass
  <2> QED BY <2>1, <2>2 DEF Mailed, Mailbox!Next
<1> QED BY <1>3, <1>4 DEF w

-----------------------------------------------------------------------------
(* The steps.  Most put no answer on its way.                              *)

Good == IInv' /\ Mailed

(* The call has no answer to send, and awaits a frame only if none waits. *)
Calm(c, len) ==
    /\ "at" \in DOMAIN c /\ c.at \notin {"GrantOut", "ReplyOut"}
    /\ c.at = "FrameIn" => len = 0

(* A step after which no answer is on its way.                             *)
LEMMA CalmIInv ==
    ASSUME Consistent(peers', ready', Fields), Calm(call', ready'.len)
    PROVE  IInv'
<1>1. NothingLeft'
  BY DEF NothingLeft, Calm
<1>2. AnswersAreDue'
  BY DEF AnswersAreDue, Calm
<1> QED BY <1>1, <1>2 DEF IInv, Calm

(* A step that changes nothing in the mailbox either.                      *)
LEMMA CalmStep ==
    ASSUME Still, Calm(call', ready.len)
    PROVE  Good
<1>1. Consistent(peers', ready', Fields) /\ ready' = ready
  BY DEF Still, Underway, Alike
<1> QED BY <1>1, CalmIInv, StillMailed DEF Good

(* Nothing but the call changes, and it has no answer to send.             *)
LEMMA CalmKeeps ==
    ASSUME IInv, Keeps, Calm(call', ready.len)
    PROVE  Good
<1>1. Still
  BY DEF IInv, Keeps, Still, Underway, Alike
<1> QED BY <1>1, CalmStep

(* A call that goes to another await, or ends.                             *)
LEMMA MovedCall ==
    ASSUME IInv, NEW at, at \notin {"GrantOut", "ReplyOut", "FrameIn"}, NEW result, NEW len
    PROVE  Calm([call EXCEPT !.at = at], len) /\ Calm(Done(result), len)
<1>1. "at" \in DOMAIN [call EXCEPT !.at = at] /\ [call EXCEPT !.at = at].at = at
  BY DEF IInv
<1>2. "at" \in DOMAIN Done(result) /\ Done(result).at = "Done"
  BY DEF Done
<1> QED BY <1>1, <1>2 DEF Calm

(* The call ends.                                                          *)
LEMMA EndedKeeps ==
    ASSUME IInv, Keeps, NEW result, Goes(Done(result))
    PROVE  Good
<1>1. Calm(call', ready.len)
  BY DEF Goes, Done, Calm
<1> QED BY <1>1, CalmKeeps

(* The call goes to another await.                                         *)
LEMMA MovedKeeps ==
    ASSUME IInv, Keeps, NEW at, at \notin {"GrantOut", "ReplyOut", "FrameIn"},
           Goes([call EXCEPT !.at = at])
    PROVE  Good
<1>1. Calm(call', ready.len)
  BY MovedCall DEF Goes
<1> QED BY <1>1, CalmKeeps

(* deliver_ready                                                           *)
LEMMA DeliversIInv ==
    ASSUME NEW ps, NEW q, Consistent(ps, q, Fields), q.len > 0, Delivers(ps, q)
    PROVE  IInv'
<1>1. Consistent(peers', ready', Fields)
  BY SlotDelivered DEF Delivers
<1>2. Calm(call', ready'.len)
  BY DEF Delivers, Goes, Done, Calm
<1> QED BY <1>1, <1>2, CalmIInv

(* An answer is put on its way.                                            *)
LEMMA AnswerIInv ==
    ASSUME NEW in, NEW f, Fit(in, find_peer_index(in.peers, f.source)), in.ret = "Reply",
           peers' = in.peers, ready' = in.ready, "at" \in DOMAIN call',
           call'.at = "ReplyOut" \/ (call'.at = "GrantOut" /\ ready.len = 0),
           call'.reply.target = f.source
    PROVE  IInv'
<1> DEFINE i == find_peer_index(in.peers, f.source)
<1>1. /\ Consistent(in.peers, in.ready, Fields) /\ i \in 1..Len(in.peers)
      /\ Due(in.peers[i].rx) /\ in.ready = ready
  BY DEF Fit
<1>2. i # 0
  <2>1. Len(in.peers) \in Nat
    BY <1>1, ListLength DEF Consistent
  <2> QED BY <1>1, <2>1
<1>3. Consistent(peers', ready', Fields)
  BY <1>1
<1>4. AnswersAreDue'
  BY <1>1, <1>2 DEF AnswersAreDue, Due
<1>5. NothingLeft'
  BY <1>1 DEF NothingLeft
<1> QED BY <1>3, <1>4, <1>5 DEF IInv

(* recv hears a frame, and may have to answer it.                          *)
LEMMA RecvHearsGood ==
    ASSUME IInv, NEW f \in BusFrame, RecvHears(f)
    PROVE  Good
<1> DEFINE in == ingest_frame(f)
           i == find_peer_index(in.peers, f.source)
<1>1. Fit(in, i)
  BY FrameFit DEF IInv
<1>2. \/ in.ret = "None" /\ in.ready.len > 0 /\ Delivers(in.peers, in.ready)
      \/ in.ret = "None" /\ in.ready.len = 0 /\ RecvGoes(in, call)
      \/ in.ret = "Reply" /\ RecvGoes(in, Replies("GrantOut", f.source, in.reply))
      \/ in.ret = "RxOverflow" /\ RecvGoes(in, Overflowed(f))
      \/ in.ret \notin {"None", "Reply", "RxOverflow"} /\ RecvGoes(in, Done(in.ret))
  BY DEF RecvHears
<1>3. call.at = "FrameIn" /\ ready.len = 0
  BY DEF RecvHears, Hears, IInv, NothingLeft
<1>4. Waiting(peers, ready) = <<>>
  BY <1>3, NothingWaits DEF IInv, Consistent
<1> HIDE DEF in
<1>5. Consistent(in.peers, in.ready, Fields)
  BY <1>1 DEF Fit
<1>6. CASE in.ready.len > 0 /\ Delivers(in.peers, in.ready)
  <2>1. Mailed
    BY <1>1, <1>4, <1>5, <1>6, DeliversMailed DEF Fit
  <2> QED BY <1>5, <1>6, <2>1, DeliversIInv DEF Good
<1>7. ASSUME NEW c, RecvGoes(in, c)
      PROVE  peers' = in.peers /\ ready' = in.ready /\ call' = c /\ Mailed
  <2>1. peers' = in.peers /\ ready' = in.ready /\ call' = c /\ handed' = handed
    BY <1>7 DEF RecvGoes, Goes
  <2> QED BY <1>1, <2>1, LeftWaiting
<1>8. ASSUME NEW c, RecvGoes(in, c), Calm(c, in.ready.len)
      PROVE  Good
  <2>1. peers' = in.peers /\ ready' = in.ready /\ call' = c /\ Mailed
    BY <1>7, <1>8
  <2> QED BY <1>5, <1>8, <2>1, CalmIInv DEF Good
<1>9. CASE in.ready.len = 0 /\ RecvGoes(in, call)
  <2>1. Calm(call, in.ready.len)
    BY <1>3, <1>9 DEF IInv, Calm
  <2> QED BY <1>8, <1>9, <2>1
<1>10. CASE in.ret = "Reply" /\ RecvGoes(in, Replies("GrantOut", f.source, in.reply))
  <2>1. /\ peers' = in.peers /\ ready' = in.ready /\ Mailed
        /\ call' = Replies("GrantOut", f.source, in.reply)
    BY <1>7, <1>10
  <2>2. "at" \in DOMAIN call' /\ call'.at = "GrantOut" /\ call'.reply.target = f.source
    BY <2>1 DEF Replies, To, UdsFrame
  <2> QED BY <1>1, <1>3, <1>10, <2>1, <2>2, AnswerIInv DEF Good
<1>11. CASE RecvGoes(in, Overflowed(f))
  <2>1. "at" \in DOMAIN Overflowed(f) /\ Overflowed(f).at \in {"OverflowOut", "Done"}
    BY DEF Overflowed, Replies, Done
  <2>2. Calm(Overflowed(f), in.ready.len)
    BY <2>1 DEF Calm
  <2> QED BY <1>8, <1>11, <2>2
<1>12. CASE RecvGoes(in, Done(in.ret))
  <2>1. Calm(Done(in.ret), in.ready.len)
    BY DEF Done, Calm
  <2> QED BY <1>8, <1>12, <2>1
<1> QED BY <1>2, <1>6, <1>9, <1>10, <1>11, <1>12

(* wait_for_flow_control hears a frame, and may have to answer it.         *)
LEMMA WaitHearsGood ==
    ASSUME IInv, NEW f \in BusFrame, WaitHears(f)
    PROVE  Good
<1> DEFINE in == ingest_frame(f)
           i == find_peer_index(in.peers, f.source)
<1>1. Fit(in, i)
  BY FrameFit DEF IInv
<1>2. \/ in.ret = "None" /\ RecvGoes(in, [call EXCEPT !.at = "FcCheck"])
      \/ in.ret = "Reply" /\ RecvGoes(in, Replying(call, f, in.reply))
      \/ in.ret \notin {"None", "Reply"} /\ RecvGoes(in, Done(in.ret))
  BY DEF WaitHears
<1> HIDE DEF in
<1>3. Consistent(in.peers, in.ready, Fields)
  BY <1>1 DEF Fit
<1>4. ASSUME NEW c, RecvGoes(in, c)
      PROVE  peers' = in.peers /\ ready' = in.ready /\ call' = c /\ Mailed
  <2>1. peers' = in.peers /\ ready' = in.ready /\ call' = c /\ handed' = handed
    BY <1>4 DEF RecvGoes, Goes
  <2> QED BY <1>1, <2>1, LeftWaiting
<1>5. ASSUME NEW c, RecvGoes(in, c), Calm(c, in.ready.len)
      PROVE  Good
  <2>1. peers' = in.peers /\ ready' = in.ready /\ call' = c /\ Mailed
    BY <1>4, <1>5
  <2> QED BY <1>3, <1>5, <2>1, CalmIInv DEF Good
<1>6. CASE RecvGoes(in, [call EXCEPT !.at = "FcCheck"])
  BY <1>5, <1>6, MovedCall
<1>7. CASE in.ret = "Reply" /\ RecvGoes(in, Replying(call, f, in.reply))
  <2>1. /\ peers' = in.peers /\ ready' = in.ready /\ Mailed
        /\ call' = Replying(call, f, in.reply)
    BY <1>4, <1>7
  <2>2. "at" \in DOMAIN call' /\ call'.at = "ReplyOut" /\ call'.reply.target = f.source
    BY <2>1 DEF Replying, To, UdsFrame
  <2> QED BY <1>1, <1>7, <2>1, <2>2, AnswerIInv DEF Good
<1>8. CASE RecvGoes(in, Done(in.ret))
  <2>1. Calm(Done(in.ret), in.ready.len)
    BY DEF Done, Calm
  <2> QED BY <1>5, <1>8, <2>1
<1> QED BY <1>2, <1>6, <1>7, <1>8

-----------------------------------------------------------------------------
(* send_to *)

(* Where the loop in send_to goes: never to an answer.                     *)
LEMMA ContinuesCalm ==
    ASSUME NEW c, "at" \in DOMAIN c, Continues(c), NEW len
    PROVE  Calm(call', len)
<1>1. \A at : "at" \in DOMAIN [c EXCEPT !.at = at] /\ [c EXCEPT !.at = at].at = at
  OBVIOUS
<1>2. CASE Goes(Done("Completed"))
  BY <1>2 DEF Goes, Done, Calm
<1>3. ASSUME NEW at \in {"FcCheck", "SegmentOut", "Pace"}, Goes([c EXCEPT !.at = at])
      PROVE  Calm(call', len)
  <2>1. "at" \in DOMAIN call' /\ call'.at = at
    BY <1>1, <1>3 DEF Goes
  <2> QED BY <2>1 DEF Calm
<1> QED BY <1>2, <1>3 DEF Continues

(* A new slot or none, and a call that waits for the driver.               *)
LEMMA StartsGood ==
    ASSUME IInv, Starts
    PROVE  Good
<1>1. ASSUME NEW remote \in Remote, alloc_error(peers, remote) = "None",
             peers' = peer_index_or_alloc(peers, remote), ready' = ready, handed' = handed,
             Calm(call', ready.len)
      PROVE  Good
  <2>1. Still
    BY <1>1, Allocated DEF IInv, Still
  <2> QED BY <1>1, <2>1, CalmStep
<1>2. ASSUME NEW remote \in Remote, NEW n, RefuseSend(remote, n)
      PROVE  Good
  <2>1. CASE Goes(Done("Overflow")) /\ UNCHANGED peers
    BY <1>2, <2>1, EndedKeeps DEF RefuseSend, Keeps
  <2>2. CASE Goes(Done(alloc_error(peers, remote))) /\ UNCHANGED peers
    BY <1>2, <2>2, EndedKeeps DEF RefuseSend, Keeps
  <2>3. CASE /\ alloc_error(peers, remote) = "None" /\ Goes(Done("NAs"))
             /\ peers' = peer_index_or_alloc(peers, remote)
    <3>1. Calm(call', ready.len)
      BY <2>3 DEF Goes, Done, Calm
    <3> QED BY <1>1, <1>2, <2>3, <3>1 DEF RefuseSend
  <2> QED BY <1>2, <2>1, <2>2, <2>3 DEF RefuseSend
<1>3. ASSUME NEW remote \in Remote, NEW n, StartSend(remote, n)
      PROVE  Good
  <2>1. "at" \in DOMAIN call' /\ call'.at \in {"SingleOut", "FirstOut"}
    BY <1>3 DEF StartSend, Goes
  <2>2. Calm(call', ready.len)
    BY <2>1 DEF Calm
  <2> QED BY <1>1, <1>3, <2>2 DEF StartSend
<1>4. ASSUME NEW n, SendGroup(n)
      PROVE  Good
  <2>1. Keeps /\ "at" \in DOMAIN call' /\ call'.at \in {"Done", "GroupOut"}
    BY <1>4 DEF SendGroup, Goes, Done
  <2>2. Calm(call', ready.len)
    BY <2>1 DEF Calm
  <2> QED BY <2>1, <2>2, CalmKeeps
<1> QED BY <1>2, <1>3, <1>4 DEF Starts

(* pending_fc.take(): the slot forgets the ClearToSend that a block uses.  *)
LEMMA TakenStill ==
    ASSUME Consistent(peers, ready, Fields), NEW status, TakesFc(status)
    PROVE  Still
<1> DEFINE i == find_peer_index(peers, call.remote)
           used == IF status = "ClearToSend" THEN 1 ELSE 0
           p == Taken(peers[i], used)
<1>1. IsList(peers)
  BY DEF Consistent
<1>2. peers[i].pending_fc # NoFc /\ peers[i].pending_fc.status = status
  BY DEF TakesFc, Pending
<1>3. peers' = [peers EXCEPT ![i] = p] /\ ready' = ready /\ handed' = handed
  BY DEF TakesFc
<1>4. CASE i \in 1..Len(peers)
  <2>1. IsSlot(peers[i], Fields)
    BY <1>4 DEF Consistent
  <2>2. peers[i].unused - used \in Nat
    BY <1>2, <2>1 DEF IsSlot
  <2> HIDE DEF i, used
  <2>3. p.remote = peers[i].remote /\ p.rx_ready = peers[i].rx_ready /\ p.rx = peers[i].rx
    BY <2>1 DEF Taken, IsSlot, Fields
  <2>4. IsSlot(p, Fields)
    BY <2>1, <2>2 DEF Taken, IsSlot, Fields
  <2> HIDE DEF p
  <2>5. Alike(peers', peers, ready, Fields)
    BY <1>3, <1>4, <2>3, <2>4, SlotReplaced
  <2> QED BY <1>3, <2>5 DEF Still, Underway
<1>5. CASE i \notin 1..Len(peers)
  <2> HIDE DEF i, p
  <2>1. peers' = peers
    BY <1>1, <1>3, <1>5, ListUntouched
  <2> QED BY <1>3, <2>1 DEF Still, Underway, Alike
<1> QED BY <1>4, <1>5

(* wait_for_flow_control finds Flow Control of its station.                *)
LEMMA FlowControlGood ==
    ASSUME IInv, GotClearToSend \/ GotWait \/ GotOverflow
    PROVE  Good
<1>1. ASSUME NEW status, TakesFc(status), Calm(call', ready.len)
      PROVE  Good
  <2>1. Still
    BY <1>1, TakenStill DEF IInv
  <2> QED BY <1>1, <2>1, CalmStep
<1>2. CASE GotClearToSend
  <2> DEFINE c == [call EXCEPT !.s = Cleared(Cfg, @, Pending(call.remote))]
  <2>1. TakesFc("ClearToSend") /\ Continues(c)
    BY <1>2 DEF GotClearToSend
  <2>2. "at" \in DOMAIN c
    BY DEF IInv
  <2> HIDE DEF c
  <2> QED BY <1>1, <2>1, <2>2, ContinuesCalm
<1>3. CASE GotWait
  <2> DEFINE c == [call EXCEPT !.s = Waited(@)]
  <2>1. TakesFc("Wait") /\ (call' = Done("NBs") \/ call' = c)
    BY <1>3 DEF GotWait, Goes
  <2>2. call.at = "FcCheck" /\ "at" \in DOMAIN call
    BY <2>1 DEF TakesFc, IInv
  <2>3. "at" \in DOMAIN c /\ c.at = "FcCheck"
    BY <2>2
  <2> HIDE DEF c
  <2>4. Calm(call', ready.len)
    BY <2>1, <2>3 DEF Done, Calm
  <2> QED BY <1>1, <2>1, <2>4
<1>4. CASE GotOverflow
  <2>1. TakesFc("Overflow") /\ Calm(call', ready.len)
    BY <1>4 DEF GotOverflow, Goes, Done, Calm
  <2> QED BY <1>1, <2>1
<1> QED BY <1>2, <1>3, <1>4

(* The steps in which the executor runs the call.                          *)
LEMMA RunsGood ==
    ASSUME IInv, Runs
    PROVE  Good
<1>1. CASE RecvExpires \/ OverflowEnds \/ SingleAccepted \/ WaitExpires \/ GroupAccepted
           \/ OutExpires
  BY <1>1, EndedKeeps
  DEF RecvExpires, OverflowEnds, SingleAccepted, WaitExpires, GroupAccepted, OutExpires
<1>2. CASE FirstAccepted \/ Wakes \/ AwaitsFc
  BY <1>2, MovedKeeps DEF FirstAccepted, Wakes, AwaitsFc
<1>3. CASE GrantAccepted
  <2>1. ready.len = 0
    BY <1>3 DEF GrantAccepted, IInv, NothingLeft
  <2>2. Keeps /\ Calm(call', ready.len)
    BY <1>3, <2>1 DEF GrantAccepted, Goes, Calm
  <2> QED BY <2>2, CalmKeeps
<1>4. CASE ReplyEnds
  <2>1. Keeps /\ Calm(call', ready.len)
    BY <1>4 DEF ReplyEnds, Goes, Calm
  <2> QED BY <2>1, CalmKeeps
<1>5. CASE SegmentAccepted
  <2>1. Keeps /\ Continues(AfterSegment(call))
    BY <1>5 DEF SegmentAccepted
  <2>2. "at" \in DOMAIN AfterSegment(call)
    BY DEF AfterSegment, IInv
  <2> QED BY <2>1, <2>2, ContinuesCalm, CalmKeeps
<1>6. CASE GotClearToSend \/ GotWait \/ GotOverflow
  BY <1>6, FlowControlGood
<1> QED BY <1>1, <1>2, <1>3, <1>4, <1>5, <1>6 DEF Runs

(* recv delivers what waits, or awaits a frame.                            *)
LEMMA StartRecvGood ==
    ASSUME IInv, StartRecv
    PROVE  Good
<1>1. CASE ready.len > 0 /\ Delivers(peers, ready)
  <2>1. Consistent(peers, ready, Fields)
    BY DEF IInv
  <2> QED BY <1>1, <2>1, DeliversIInv, DeliversMailed DEF Good
<1>2. CASE ready.len = 0 /\ Goes([at |-> "FrameIn"]) /\ UNCHANGED <<peers, ready, handed>>
  <2>1. Keeps /\ Calm(call', ready.len)
    BY <1>2 DEF StartRecv, Keeps, Goes, Calm
  <2> QED BY <2>1, CalmKeeps
<1> QED BY <1>1, <1>2 DEF StartRecv

-----------------------------------------------------------------------------
(* The invariant holds at the start.                                       *)
LEMMA InitIInv == Init => IInv
<1> SUFFICES ASSUME Init PROVE IInv
  OBVIOUS
<1>1. Consistent(peers, ready, Fields)
  BY EmptyConsistent DEF Init
<1>2. "at" \in DOMAIN call /\ call.at = "Done"
  BY DEF Init, Done
<1> QED BY <1>1, <1>2 DEF IInv, NothingLeft, AnswersAreDue

(* Every step preserves the invariant and is one of the mailbox.           *)
LEMMA NextGood == IInv /\ [Next]_vars => IInv' /\ [Mailbox!Next]_(Mailbox!vars)
<1> SUFFICES ASSUME IInv, [Next]_vars PROVE Good
  BY DEF Good, Mailed
<1>1. CASE Runs
  BY <1>1, RunsGood
<1>2. CASE StartRecv
  BY <1>2, StartRecvGood
<1>3. CASE Starts
  BY <1>3, StartsGood
<1>4. CASE DriverFails \/ Dropped
  BY <1>4, EndedKeeps DEF DriverFails, Dropped
<1>5. ASSUME NEW f \in BusFrame, RecvHears(f) \/ WaitHears(f)
      PROVE  Good
  BY <1>5, RecvHearsGood, WaitHearsGood
<1>6. CASE UNCHANGED vars
  <2>1. peers' = peers /\ ready' = ready /\ call' = call /\ handed' = handed
    BY <1>6 DEF vars
  <2>2. IInv'
    BY <2>1 DEF IInv, NothingLeft, AnswersAreDue
  <2>3. Still
    BY <2>1 DEF IInv, Still, Underway, Alike
  <2> QED BY <2>2, <2>3, StillMailed DEF Good
<1> QED BY <1>1, <1>2, <1>3, <1>4, <1>5, <1>6 DEF Next

(* Slots, ring and answers stay consistent, whatever frames arrive.        *)
THEOREM StaysConsistent == Spec => []IInv
BY InitIInv, NextGood, PTL DEF Spec

(* A slot is queued exactly when its payload waits, for any number of      *)
(* stations, calls dropped at any await and any frames: push of ReadyQueue *)
(* never fails and deliver_ready finds a payload behind what it pops.      *)
THEOREM RingMatchesFlags == Spec => []ReadyMatchesFlags
<1>1. IInv => ReadyMatchesFlags
  <2> SUFFICES ASSUME Holds(ready, Flagged(peers)) PROVE ReadyMatchesFlags
    BY DEF IInv, Consistent
  <2>1. ready.tail = (ready.head + ready.len) % MaxPeers
    BY DEF Holds
  <2> QED BY <2>1, RingCounts DEF ReadyMatchesFlags, Flagged
<1> QED BY <1>1, StaysConsistent, PTL

(* No two blocks use the same ClearToSend (pending_fc.take()), whatever    *)
(* the interleaving of stations and dropped calls.                         *)
THEOREM GrantsUsedOnce == Spec => []GrantUsedOnce
<1>1. IInv => GrantUsedOnce
  BY DEF IInv, Consistent, IsSlot, GrantUsedOnce
<1> QED BY <1>1, StaysConsistent, PTL

(* The Flow Control on its way goes to a station whose transfer is open    *)
(* and at the start of a block.                                            *)
THEOREM AnswersGoWhereDue == Spec => []AnswersAreDue
<1>1. IInv => AnswersAreDue
  BY DEF IInv
<1> QED BY <1>1, StaysConsistent, PTL

(* Whatever frames arrive and wherever the calls are cut off, for any      *)
(* number of stations: each complete payload waits unchanged behind those  *)
(* complete before it and is handed out once, with the station it came     *)
(* from, and every one is made up of frames of that station alone.         *)
THEOREM MailboxImplemented == Spec => ImplementsMailbox
<1>1. Init => Mailbox!Init
  <2> SUFFICES ASSUME Init PROVE Mailbox!Init
    OBVIOUS
  <2>1. Consistent(peers, ready, Fields)
    BY EmptyConsistent DEF Init
  <2>2. ready.len = 0
    BY DEF Init, EmptyQueue
  <2>3. Waiting(peers, ready) = <<>>
    BY <2>1, <2>2, NothingWaits DEF Consistent
  <2> QED BY <2>3 DEF Init, Mailbox!Init
<1> QED BY <1>1, NextGood, StaysConsistent, PTL DEF Spec, ImplementsMailbox, Mailbox!Spec
=============================================================================
