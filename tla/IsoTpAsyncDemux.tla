-------------------------- MODULE IsoTpAsyncDemux --------------------------
(***************************************************************************)
(* The async endpoint that talks to many (IsoTpAsyncDemux in               *)
(* async_demux.rs): a receive machine and a last Flow Control per remote   *)
(* station, a ring of the stations whose payload is complete, and one call *)
(* at a time (`&mut self`) whose session lives in its future.              *)
(*                                                                         *)
(* A step runs the call from one await to the next.  The await it stands   *)
(* at is `at`:                                                             *)
(*   SingleOut, FirstOut, SegmentOut    send_frame of send_to              *)
(*   GroupOut       send_frame of send_functional_to                       *)
(*   FcCheck        the top of the loop in wait_for_flow_control, no await *)
(*   FcIn, ReplyOut     its awaits: a frame, and a Flow Control that is    *)
(*                      sent to another station in between                 *)
(*   Pace           sleep_or_timeout                                       *)
(*   FrameIn        recv_frame of recv                                     *)
(*   GrantOut, OverflowOut    send_frame of recv                           *)
(*   Done           no call in progress; `ret` is what the last returned   *)
(*                                                                         *)
(* Time.  A deadline may pass at any moment; how long awaits take and      *)
(* which deadline comes first is the matter of IsoTpAsyncNode.             *)
(***************************************************************************)
EXTENDS DemuxPeers

VARIABLES
    peers,      \* Peer of each filled slot
    ready,      \* ReadyQueue: slots whose payload waits to be delivered
    call,       \* the call of the application
    frames,     \* frames ingested so far
    handed      \* history: <<remote, payload>> handed to the application

vars == <<peers, ready, call, frames, handed>>

(* History field: `unused`, the ClearToSends heard that no block used. *)
NewPeer(remote) ==
    [remote |-> remote, rx |-> RxNew, rx_ready |-> FALSE, pending_fc |-> NoFc, unused |-> 0]

Done(result) == [at |-> "Done", ret |-> result]

Init ==
    /\ peers = <<>>
    /\ ready = EmptyQueue
    /\ call = Done("None")
    /\ frames = 0
    /\ handed = <<>>

Free == call.at = "Done"

peer_index_or_alloc(ps, remote) ==
    IF find_peer_index(ps, remote) # 0 THEN ps ELSE Append(ps, NewPeer(remote))

-----------------------------------------------------------------------------
(* ingest_frame.  Its result is "None", an error, or the Flow Control to   *)
(* send to the source of the frame.                                        *)

Ingested(ps, q, result) == [peers |-> ps, ready |-> q, ret |-> result, reply |-> NoFc]

Answered(ps, fc) == [peers |-> ps, ready |-> ready, ret |-> "Reply", reply |-> fc]

Received(ps, i, pdu) ==
    LET r == on_pdu(Cfg, ps[i].rx, pdu)
        moved == [ps EXCEPT ![i].rx = r.rx]
        marked == [moved EXCEPT ![i].rx_ready = TRUE]
    IN  CASE r.out = "Completed" ->
                 IF QueueFull(ready) THEN Ingested(marked, ready, "RxOverflow")
                 ELSE Ingested(marked, Pushed(ready, i), "None")
          [] r.out = "SendFlowControl" -> Answered(moved, Grant(Cfg, r.rx))
          [] r.out = "Overflow" -> Ingested(moved, ready, "RxOverflow")
          [] r.out = "BadSequence" -> Ingested(moved, ready, "BadSequence")
          [] r.out \in {"None", "UnexpectedPdu"} -> Ingested(moved, ready, "None")

(* The last Flow Control of a station replaces the one before. *)
Remembered(p, fc) ==
    [p EXCEPT !.pending_fc = fc,
              !.unused = IF fc.status = "ClearToSend" THEN @ + 1 ELSE @]

(* Faulty variant: a payload that waits may be written over. *)
HearsData_always(p, f) == f.pdu.kind = "SF" \/ f.kind = "Physical"
HearsData(p, f) == ~p.rx_ready /\ (f.pdu.kind = "SF" \/ f.kind = "Physical")

IngestPdu(ps, i, f) ==
    CASE f.pdu.kind = "Malformed" -> Ingested(ps, ready, "InvalidFrame")
      [] f.pdu.kind = "FC" /\ (ps[i].rx_ready \/ f.kind = "Physical") ->
             Ingested([ps EXCEPT ![i] = Remembered(@, f.pdu)], ready, "None")
      [] f.pdu.kind \in {"SF", "FF", "CF"} /\ HearsData(ps[i], f) -> Received(ps, i, f.pdu)
      [] OTHER -> Ingested(ps, ready, "None")

ingest_frame(f) ==
    IF ~Accepted(f) THEN Ingested(peers, ready, "None")
    ELSE IF alloc_error(peers, f.source) # "None"
    THEN Ingested(peers, ready, alloc_error(peers, f.source))
    ELSE LET ps == peer_index_or_alloc(peers, f.source)
         IN  IngestPdu(ps, find_peer_index(ps, f.source), f)

(* The call stands at `at` and gets the frame it awaits. *)
Hears(at) == call.at = at /\ frames < MaxFrames /\ frames' = frames + 1

Goes(c) == call' = c
Keeps == UNCHANGED <<peers, ready, frames, handed>>

-----------------------------------------------------------------------------
(* recv *)

(* deliver_ready, which ends the call.  Faulty variant: the flag stays. *)
Delivers_flagged(ps, q) ==
    /\ peers' = ps
    /\ ready' = Popped(q)
    /\ handed' = Append(handed, <<ps[Oldest(q)].remote, ps[Oldest(q)].rx.content>>)
    /\ Goes(Done("Completed"))

Delivers(ps, q) ==
    /\ peers' = [ps EXCEPT ![Oldest(q)].rx_ready = FALSE]
    /\ ready' = Popped(q)
    /\ handed' = Append(handed, <<ps[Oldest(q)].remote, ps[Oldest(q)].rx.content>>)
    /\ Goes(Done("Completed"))

StartRecv ==
    /\ Free
    /\ \/ ready.len > 0 /\ Delivers(peers, ready)
       \/ ready.len = 0 /\ Goes([at |-> "FrameIn"]) /\ UNCHANGED <<peers, ready, handed>>
    /\ UNCHANGED frames

(* The call of recv ends or goes on without a payload. *)
RecvGoes(in, c) ==
    /\ peers' = in.peers /\ ready' = in.ready
    /\ Goes(c)
    /\ UNCHANGED handed

Replies(at, remote, fc) == [at |-> at, reply |-> To(remote, fc)]

(* A frame of a station that was refused room is answered if it came on    *)
(* the endpoint's own identifier, whatever it was.                         *)
Overflowed(f) ==
    IF f.kind = "Physical" /\ f.target = LocalAddr
    THEN Replies("OverflowOut", f.source, OverflowFc(Cfg)) ELSE Done("RxOverflow")

RecvHears(f) ==
    \E in \in {ingest_frame(f)} :
        /\ Hears("FrameIn")
        /\ \/ in.ret = "None" /\ in.ready.len > 0 /\ Delivers(in.peers, in.ready)
           \/ in.ret = "None" /\ in.ready.len = 0 /\ RecvGoes(in, call)
           \/ in.ret = "Reply" /\ RecvGoes(in, Replies("GrantOut", f.source, in.reply))
           \/ in.ret = "RxOverflow" /\ RecvGoes(in, Overflowed(f))
           \/ /\ in.ret \notin {"None", "Reply", "RxOverflow"}
              /\ RecvGoes(in, Done(in.ret))

RecvExpires == call.at = "FrameIn" /\ Goes(Done("NAr")) /\ Keeps

GrantAccepted == call.at = "GrantOut" /\ Goes([at |-> "FrameIn"]) /\ Keeps

(* Best effort: taken by the driver, refused or timed out. *)
OverflowEnds == call.at = "OverflowOut" /\ Goes(Done("RxOverflow")) /\ Keeps

-----------------------------------------------------------------------------
(* send_to *)

Payload(remote, n) == [i \in 1..n |-> <<remote, i>>]

SendAwaits == {"SingleOut", "FirstOut", "FcCheck", "FcIn", "ReplyOut", "Pace", "SegmentOut"}

Pending(remote) == peers[find_peer_index(peers, remote)].pending_fc

(* The call returns before its first await, with or without a new slot. *)
RefuseSend(remote, n) ==
    /\ Free
    /\ \/ n > Cfg.max_payload_len /\ Goes(Done("Overflow")) /\ UNCHANGED peers
       \/ /\ n <= Cfg.max_payload_len /\ alloc_error(peers, remote) # "None"
          /\ Goes(Done(alloc_error(peers, remote))) /\ UNCHANGED peers
       \/ /\ n <= Cfg.max_payload_len /\ alloc_error(peers, remote) = "None"
          /\ Goes(Done("NAs")) /\ peers' = peer_index_or_alloc(peers, remote)
    /\ UNCHANGED <<ready, frames, handed>>

StartSend(remote, n) ==
    /\ Free
    /\ n <= Cfg.max_payload_len /\ alloc_error(peers, remote) = "None"
    /\ peers' = peer_index_or_alloc(peers, remote)
    /\ Goes([at |-> IF n <= max_single_frame_payload(Cfg) THEN "SingleOut" ELSE "FirstOut",
             remote |-> remote, s |-> NewSession(Cfg, Payload(remote, n))])
    /\ UNCHANGED <<ready, frames, handed>>

SingleAccepted == call.at = "SingleOut" /\ Goes(Done("Completed")) /\ Keeps

FirstAccepted == call.at = "FirstOut" /\ Goes([call EXCEPT !.at = "FcCheck"]) /\ Keeps

(* The top of the loop in send_to: done, at the end of a block, to be      *)
(* paced, or to be sent.                                                   *)
Continues(c) ==
    \/ c.s.offset >= c.s.payload_len /\ Goes(Done("Completed"))
    \/ /\ c.s.offset < c.s.payload_len
       /\ c.s.block_size > 0 /\ c.s.block_remaining = 0
       /\ Goes([c EXCEPT !.at = "FcCheck"])
    \/ /\ c.s.offset < c.s.payload_len
       /\ c.s.block_size = 0 \/ c.s.block_remaining > 0
       /\ \/ Goes([c EXCEPT !.at = "SegmentOut"])
          \/ /\ c.s.st_min > 0 /\ c.s.offset > max_first_frame_payload(Cfg)
             /\ Goes([c EXCEPT !.at = "Pace"])

AfterSegment(c) ==
    LET chunk == NextChunk(Cfg, c.s, Payload(c.remote, c.s.payload_len))
    IN  [c EXCEPT !.s.offset = @ + Len(chunk), !.s.next_sn = NextSn(@),
                  !.s.block_remaining = Saturating(@, 1)]

SegmentAccepted == call.at = "SegmentOut" /\ Continues(AfterSegment(call)) /\ Keeps

Wakes == call.at = "Pace" /\ Goes([call EXCEPT !.at = "SegmentOut"]) /\ Keeps

-----------------------------------------------------------------------------
(* wait_for_flow_control *)

(* pending_fc.take().  Faulty variant: it stays there. *)
Taken_not(p, used) == [p EXCEPT !.unused = @ - used]
Taken(p, used) == [p EXCEPT !.pending_fc = NoFc, !.unused = @ - used]

TakesFc(status) ==
    /\ call.at = "FcCheck"
    /\ Pending(call.remote) # NoFc /\ Pending(call.remote).status = status
    /\ peers' = [peers EXCEPT ![find_peer_index(peers, call.remote)] =
                    Taken(@, IF status = "ClearToSend" THEN 1 ELSE 0)]
    /\ UNCHANGED <<ready, frames, handed>>

GotClearToSend ==
    /\ TakesFc("ClearToSend")
    /\ Continues([call EXCEPT !.s = Cleared(Cfg, @, Pending(call.remote))])

GotWait ==
    LET c == [call EXCEPT !.s = Waited(@)]
    IN  TakesFc("Wait") /\ Goes(IF c.s.wait_count > Cfg.wft_max THEN Done("NBs") ELSE c)

GotOverflow == TakesFc("Overflow") /\ Goes(Done("Overflow"))

AwaitsFc ==
    /\ call.at = "FcCheck" /\ Pending(call.remote) = NoFc
    /\ Goes([call EXCEPT !.at = "FcIn"])
    /\ Keeps

(* The reply to a station heard meanwhile; its sender is not the station   *)
(* of the call, as a rule.  Faulty variant: the two are mixed up.          *)
Replying_callee(c, f, fc) ==
    [at |-> "ReplyOut", remote |-> c.remote, s |-> c.s, reply |-> To(c.remote, fc)]
Replying(c, f, fc) ==
    [at |-> "ReplyOut", remote |-> c.remote, s |-> c.s, reply |-> To(f.source, fc)]

(* `?` ends the send with the error of whoever was heard, and no Overflow  *)
(* is sent.                                                                *)
WaitHears(f) ==
    \E in \in {ingest_frame(f)} :
        /\ Hears("FcIn")
        /\ \/ in.ret = "None" /\ RecvGoes(in, [call EXCEPT !.at = "FcCheck"])
           \/ in.ret = "Reply" /\ RecvGoes(in, Replying(call, f, in.reply))
           \/ in.ret \notin {"None", "Reply"} /\ RecvGoes(in, Done(in.ret))

(* The result of the reply is ignored. *)
ReplyEnds ==
    /\ call.at = "ReplyOut"
    /\ Goes([at |-> "FcCheck", remote |-> call.remote, s |-> call.s])
    /\ Keeps

(* N_Bs, the time of the call, or the time between two readings of the     *)
(* clock is over.                                                          *)
WaitExpires ==
    /\ \/ call.at = "FcCheck" /\ Goes(Done("NBs"))
       \/ /\ call.at = "FcCheck" /\ Pending(call.remote) = NoFc
          /\ \E error \in {"NAs", "Panic"} : Goes(Done(error))
       \/ call.at = "FcIn" /\ \E error \in {"NAs", "NBs"} : Goes(Done(error))
    /\ Keeps

-----------------------------------------------------------------------------
(* send_functional_to *)

SendGroup(n) ==
    /\ Free
    /\ \/ n > max_single_frame_payload(Cfg) /\ Goes(Done("Overflow"))
       \/ n <= max_single_frame_payload(Cfg) /\ Goes([at |-> "GroupOut"])
    /\ Keeps

GroupAccepted == call.at = "GroupOut" /\ Goes(Done("Completed")) /\ Keeps

-----------------------------------------------------------------------------
(* Calls that end at an await. *)

OutExpires ==
    /\ call.at \in {"SingleOut", "FirstOut", "SegmentOut", "Pace", "GroupOut", "GrantOut"}
    /\ Goes(Done("NAs"))
    /\ Keeps

DriverFails ==
    /\ call.at \in {"SingleOut", "FirstOut", "SegmentOut", "GroupOut", "GrantOut", "FcIn", "FrameIn"}
    /\ Goes(Done("LinkError"))
    /\ Keeps

(* The application drops the future at its await, as a select! does. *)
Dropped == ~Free /\ call.at # "FcCheck" /\ Goes(Done("Dropped")) /\ Keeps

(* The executor runs a call that can go on without a frame. *)
Runs ==
    \/ RecvExpires \/ GrantAccepted \/ OverflowEnds
    \/ SingleAccepted \/ FirstAccepted \/ SegmentAccepted \/ Wakes
    \/ GotClearToSend \/ GotWait \/ GotOverflow \/ AwaitsFc \/ ReplyEnds \/ WaitExpires
    \/ GroupAccepted \/ OutExpires

Starts ==
    \/ \E remote \in Remote, n \in Lengths : RefuseSend(remote, n) \/ StartSend(remote, n)
    \/ \E n \in Lengths : SendGroup(n)

Next ==
    \/ Runs \/ StartRecv \/ Starts \/ DriverFails \/ Dropped
    \/ \E f \in BusFrame : RecvHears(f) \/ WaitHears(f)

Spec == Init /\ [][Next]_vars

(* Every await has a deadline, and an application comes back to recv time  *)
(* and again.                                                              *)
FairSpec == Spec /\ WF_vars(Runs) /\ SF_vars(StartRecv)

-----------------------------------------------------------------------------
(* A slot is queued exactly when its payload waits, wherever the call that *)
(* heard the payload was dropped: push never fails, which would leave the  *)
(* station deaf for ever, and `expect("ready peer exists")` in             *)
(* deliver_ready never panics.                                             *)
ReadyMatchesFlags ==
    /\ ToSet(Queued(ready)) = {i \in 1..Len(peers) : peers[i].rx_ready}
    /\ ready.len = Cardinality({i \in 1..Len(peers) : peers[i].rx_ready})
    /\ ready.tail = (ready.head + ready.len) % MaxPeers

(* A block uses a ClearToSend of the very station it goes to, and no two   *)
(* blocks use the same one, though the Flow Control waits in a slot that   *)
(* outlives the future which asked for it.                                 *)
GrantUsedOnce == \A i \in 1..Len(peers) : peers[i].unused >= 0

(* The Flow Control a call is about to send goes to a station whose        *)
(* transfer is open and at the start of a block, even while the same call  *)
(* is sending to another station (wait_for_flow_control has two variables  *)
(* named `remote`).                                                        *)
AnswersAreDue ==
    call.at \in {"GrantOut", "ReplyOut"} =>
        LET i == find_peer_index(peers, call.reply.target)
        IN  /\ i # 0
            /\ peers[i].rx.state = "Receiving"
            /\ peers[i].rx.block_remaining = peers[i].rx.block_size

Mailbox == INSTANCE MessageMailbox WITH Capacity <- MaxPeers, waiting <- Waiting(peers, ready)

(* A future that is dropped or times out, of recv or of send_to, costs no  *)
(* payload: ingest_frame, the ring and deliver_ready implement the mailbox *)
(* of whole payloads, first in first out, wherever the calls are cut off.  *)
ImplementsMailbox == Mailbox!Spec

(* An application that comes back to recv gets every payload that waits,   *)
(* also one that became complete inside send_to, or whose recv was dropped *)
(* or timed out.                                                           *)
WaitingIsDelivered ==
    \A r \in Remote :
        (\E i \in 1..Len(peers) : peers[i].remote = r /\ peers[i].rx_ready)
          ~> (\A i \in 1..Len(peers) : peers[i].remote = r => ~peers[i].rx_ready)
=============================================================================
