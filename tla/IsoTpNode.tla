------------------------------ MODULE IsoTpNode ------------------------------
(***************************************************************************)
(* Two endpoints (IsoTpNode in lib.rs) on a CAN link.  Each owns a         *)
(* transmit state, a receive machine and the queue of CAN frames its       *)
(* driver has received; the application calls poll_send and poll_recv (or  *)
(* their blocking wrappers) one at a time.                                 *)
(*                                                                         *)
(* One call of poll_send or poll_recv is one step: `&mut self` lets        *)
(* nothing else touch the endpoint in between.  The loop over try_recv     *)
(* inside a call reads the frames queued when it starts; a frame that      *)
(* arrives during the loop could as well have arrived before it or be left *)
(* for the next call.                                                      *)
(***************************************************************************)
EXTENDS RxHandlers, TxSession, FiniteSets, SequencesExt

CONSTANTS
    Node, Peer,     \* the endpoints, and who is at the other end
    Cfg,            \* IsoTpConfig of each endpoint
    Msg, NoMsg,     \* what applications send
    Source,         \* the endpoint that sends a message
    Length,         \* its length in bytes
    Noise,          \* frames of other stations the bus may carry
    MaxFaults,      \* bound: frames lost, sends refused, noise frames
    Lossy,          \* frames may be lost and try_send may fail
    Superloop,      \* poll_recv is called while a send is in progress too
    MayTimeOut,     \* the timeout of a blocking send may strike at any time
    Prompt          \* every endpoint empties its queue within N_Bs

ASSUME NodeAssumption ==
    /\ Peer \in [Node -> Node]
    /\ \A n \in Node : Peer[n] # n /\ Peer[Peer[n]] = n
    /\ NoMsg \notin Msg
    /\ Source \in [Msg -> Node]
    /\ Length \in [Msg -> Nat]
    /\ MaxFaults \in Nat
    /\ \A b \in {Lossy, Superloop, MayTimeOut, Prompt} : b \in BOOLEAN

ASSUME CfgAssumption ==
    \A n \in Node :
        /\ ValidConfig(Cfg[n])
        /\ \A k \in {"frame_len", "block_size", "st_min", "n_bs", "wft_max", "capacity"} : Cfg[n][k] \in Nat
        /\ Cfg[n].frame_len > 2

(* A byte of a payload is known by the message and its place there. *)
Byte == {Pad} \cup (Msg \X Nat)

(* Padding is not a byte of any payload. *)
ASSUME PadAssumption == Pad \notin Msg \X Nat

(* What the decoder makes of frames of other stations. *)
ASSUME NoiseAssumption ==
    \A f \in Noise :
        /\ f.kind \in {"SF", "FF", "CF"} => f.data \in Seq(Byte)
        /\ f.kind = "FF" => f.len \in Nat
        /\ f.kind = "FC" => f.block_size \in Nat

VARIABLES
    app,        \* the message each application is sending, or NoMsg
    ret,        \* what its last send returned
    tx, rx,     \* TxState and RxMachine of each endpoint
    inbox,      \* the received frames each driver holds
    faults,     \* faults injected so far
    submitted,  \* history: messages each application started to send
    delivered   \* history: payloads handed to each application

vars == <<app, ret, tx, rx, inbox, faults, submitted, delivered>>

Payload(m) == [i \in 1..Length[m] |-> <<m, i>>]

InProgress == "InProgress"

Init ==
    /\ app = [n \in Node |-> NoMsg]
    /\ ret = [n \in Node |-> "Idle"]
    /\ tx = [n \in Node |-> TxIdle]
    /\ rx = [n \in Node |-> RxNew]
    /\ inbox = [n \in Node |-> <<>>]
    /\ faults = 0
    /\ submitted = [n \in Node |-> <<>>]
    /\ delivered = [n \in Node |-> <<>>]

-----------------------------------------------------------------------------
(* The link: try_send appends to the peer's queue or fails. *)

(* n consumes its queue down to `rest` and sends f. *)
Transmit(n, rest, f) ==
    /\ inbox' = [inbox EXCEPT ![n] = rest, ![Peer[n]] = Append(@, f)]
    /\ UNCHANGED faults

Fault == Lossy /\ faults < MaxFaults /\ faults' = faults + 1

TransmitFails(n, rest) ==
    /\ Fault
    /\ inbox' = [inbox EXCEPT ![n] = rest]

Consume(n, rest) ==
    /\ inbox' = [inbox EXCEPT ![n] = rest]
    /\ UNCHANGED faults

After(q, k) == SubSeq(q, k + 1, Len(q))

-----------------------------------------------------------------------------
(* poll_send *)

(* A call that returns a final result; the application's send is over. *)
Return(n, result) ==
    /\ ret' = [ret EXCEPT ![n] = result]
    /\ app' = [app EXCEPT ![n] = NoMsg]

(* A call that returns WaitingForFlowControl, InFlight or WouldBlock. *)
Continue == UNCHANGED <<ret, app>>

Becomes(n, state) == tx' = [tx EXCEPT ![n] = state]

Sender(n) == app[n] # NoMsg
Fits(n) == Length[app[n]] <= Cfg[n].max_payload_len

SendTooLong(n) ==
    /\ Sender(n) /\ ~Fits(n)
    /\ Return(n, "Overflow")
    /\ UNCHANGED <<tx, inbox, faults>>

(* start_send, short payload. *)
SendSingle(n) ==
    /\ Sender(n) /\ Fits(n) /\ tx[n].state = "Idle"
    /\ Length[app[n]] <= max_single_frame_payload(Cfg[n])
    /\ \/ Transmit(n, inbox[n], SingleFrame(Payload(app[n]))) /\ Return(n, "Completed")
       \/ TransmitFails(n, inbox[n]) /\ Return(n, "LinkError")
    /\ UNCHANGED tx

(* start_send, segmented payload. *)
SendFirst(n) ==
    LET payload == Payload(app[n])
    IN  /\ Sender(n) /\ Fits(n) /\ tx[n].state = "Idle"
        /\ Length[app[n]] > max_single_frame_payload(Cfg[n])
        /\ \/ /\ Transmit(n, inbox[n], FirstFrameOf(Cfg[n], payload))
              /\ Becomes(n, WaitingForFc(NewSession(Cfg[n], payload), Timer(Cfg[n].n_bs)))
              /\ Continue
           \/ /\ TransmitFails(n, inbox[n])
              /\ UNCHANGED tx
              /\ Return(n, "LinkError")

(* A payload of another length than the one the session was opened for. *)
SendMismatch(n) ==
    /\ Sender(n) /\ Fits(n) /\ tx[n].state # "Idle"
    /\ Length[app[n]] # tx[n].session.payload_len
    /\ Becomes(n, TxIdle)
    /\ Return(n, "NotIdle")
    /\ UNCHANGED <<inbox, faults>>

Resumes(n, state) ==
    /\ Sender(n) /\ Fits(n) /\ tx[n].state = state
    /\ Length[app[n]] = tx[n].session.payload_len

(* Faulty variant: the deadline is not looked at. *)
FcTimeout_no_deadline(n) ==
    /\ Resumes(n, "WaitingForFc")
    /\ tx[n].session.wait_count > Cfg[n].wft_max
    /\ Becomes(n, TxIdle)
    /\ Return(n, "NBs")
    /\ UNCHANGED <<inbox, faults>>

(* continue_wait_for_fc gives up: too many Waits, or N_Bs has passed. *)
FcTimeout(n) ==
    /\ Resumes(n, "WaitingForFc")
    /\ tx[n].session.wait_count > Cfg[n].wft_max \/ tx[n].timer = 0
    /\ Becomes(n, TxIdle)
    /\ Return(n, "NBs")
    /\ UNCHANGED <<inbox, faults>>

(* The frame continue_wait_for_fc stops at; it drops all frames before it. *)
FcIndex(n) == SelectInSeq(inbox[n], LAMBDA f : f.kind \in {"FC", "Malformed"})

Awaits(n) ==
    /\ Resumes(n, "WaitingForFc")
    /\ tx[n].session.wait_count <= Cfg[n].wft_max
    /\ tx[n].timer > 0
    /\ inbox[n] # <<>>

NoFcYet(n) ==
    /\ Awaits(n) /\ FcIndex(n) = 0
    /\ Consume(n, <<>>)
    /\ Continue
    /\ UNCHANGED tx

(* The undecodable frame ends the session: `?` leaves the state Idle. *)
WaitBroken(n) ==
    /\ Awaits(n) /\ FcIndex(n) # 0
    /\ inbox[n][FcIndex(n)].kind = "Malformed"
    /\ Consume(n, After(inbox[n], FcIndex(n)))
    /\ Becomes(n, TxIdle)
    /\ Return(n, "InvalidFrame")

GotFc(n, status) ==
    /\ Awaits(n) /\ FcIndex(n) # 0
    /\ inbox[n][FcIndex(n)].kind = "FC"
    /\ inbox[n][FcIndex(n)].status = status

(* Faulty variant: a frame the bus refuses leaves the session as it was.   *)
ContinueSend_keeps(n, s, rest) ==
    \/ /\ s.offset < s.payload_len
       /\ \E next \in {AfterFrame(Cfg[n], s, Payload(app[n]))} :
             /\ Becomes(n, next)
             /\ IF next.state = "Idle" THEN Return(n, "Completed") ELSE Continue
       /\ Transmit(n, rest, NextFrame(Cfg[n], s, Payload(app[n])))
    \/ TransmitFails(n, rest) /\ Return(n, "LinkError") /\ UNCHANGED tx

(* continue_send once pacing allows a frame, the queue cut down to rest.   *)
(* Its test for a session with nothing left to send is never true: the     *)
(* First Frame leaves a rest, and a session that has sent all is dropped.  *)
ContinueSend(n, s, rest) ==
    \/ /\ s.offset < s.payload_len
       /\ \E next \in {AfterFrame(Cfg[n], s, Payload(app[n]))} :
             /\ Becomes(n, next)
             /\ IF next.state = "Idle" THEN Return(n, "Completed") ELSE Continue
       /\ Transmit(n, rest, NextFrame(Cfg[n], s, Payload(app[n])))
    \/ /\ TransmitFails(n, rest)
       /\ Becomes(n, TxIdle)
       /\ Return(n, "LinkError")

GotClearToSend(n) ==
    /\ GotFc(n, "ClearToSend")
    /\ \E k \in {FcIndex(n)} :
       \E s \in {Cleared(Cfg[n], tx[n].session, inbox[n][k])} :
          ContinueSend(n, s, After(inbox[n], k))

(* One Wait too many is an error, yet the session stays. *)
GotWait(n) ==
    LET s == Waited(tx[n].session)
    IN  /\ GotFc(n, "Wait")
        /\ Consume(n, After(inbox[n], FcIndex(n)))
        /\ Becomes(n, WaitingForFc(s, Timer(Cfg[n].n_bs)))
        /\ IF s.wait_count > Cfg[n].wft_max THEN Return(n, "NBs") ELSE Continue

GotOverflow(n) ==
    /\ GotFc(n, "Overflow")
    /\ Consume(n, After(inbox[n], FcIndex(n)))
    /\ Becomes(n, TxIdle)
    /\ Return(n, "Overflow")

(* Before the timer runs out continue_send returns WouldBlock. *)
SendConsecutive(n) ==
    /\ Resumes(n, "Sending")
    /\ tx[n].timer = 0
    /\ ContinueSend(n, tx[n].session, inbox[n])

PollSend(n) ==
    /\ \/ SendTooLong(n) \/ SendSingle(n) \/ SendFirst(n) \/ SendMismatch(n)
       \/ FcTimeout(n) \/ NoFcYet(n) \/ WaitBroken(n)
       \/ GotClearToSend(n) \/ GotWait(n) \/ GotOverflow(n)
       \/ SendConsecutive(n)
    /\ UNCHANGED <<rx, submitted, delivered>>

(* The loop of the blocking send returns Timeout(NAs) between two polls;   *)
(* an application that stops polling does the same to the endpoint.        *)
SendTimesOut(n) ==
    /\ MayTimeOut /\ Sender(n)
    /\ Return(n, "NAs")
    /\ UNCHANGED <<tx, rx, inbox, faults, submitted, delivered>>

-----------------------------------------------------------------------------
(* poll_recv *)

MayRecv(n) == inbox[n] # <<>> /\ (Superloop \/ ~Sender(n))

Response(n, f) == on_pdu(Cfg[n], rx[n], f)

(* Frames the loop passes over: other identifiers, Flow Control, and       *)
(* whatever the machine calls unexpected.                                  *)
Skipped(n, f) ==
    \/ f.kind \in {"Foreign", "FC"}
    \/ f.kind \in {"SF", "FF", "CF"} /\ Response(n, f).out = "UnexpectedPdu"

RecvIndex(n) == SelectInSeq(inbox[n], LAMBDA f : ~Skipped(n, f))
RecvRest_drained(n) == <<>>     \* faulty variant: the whole queue is dropped
RecvRest(n) == After(inbox[n], RecvIndex(n))

RecvNothing(n) ==
    /\ MayRecv(n) /\ RecvIndex(n) = 0
    /\ Consume(n, <<>>)
    /\ UNCHANGED <<rx, delivered>>

RecvMalformed(n) ==
    /\ MayRecv(n) /\ RecvIndex(n) # 0
    /\ inbox[n][RecvIndex(n)].kind = "Malformed"
    /\ Consume(n, RecvRest(n))
    /\ UNCHANGED <<rx, delivered>>

RecvPdu(n, out) ==
    /\ MayRecv(n) /\ RecvIndex(n) # 0
    /\ inbox[n][RecvIndex(n)].kind # "Malformed"
    /\ \E r \in {Response(n, inbox[n][RecvIndex(n)])} :
          r.out = out /\ rx' = [rx EXCEPT ![n] = r.rx]

(* InFlight, or Err(BadSequence): the queue shrinks and nothing is sent. *)
RecvQuiet(n) ==
    /\ \E out \in {"None", "BadSequence"} : RecvPdu(n, out)
    /\ Consume(n, RecvRest(n))
    /\ UNCHANGED delivered

(* Err(RxOverflow); the result of sending the overflow frame is ignored. *)
RecvOverflow(n) ==
    /\ RecvPdu(n, "Overflow")
    /\ \/ Transmit(n, RecvRest(n), OverflowFc(Cfg[n]))
       \/ TransmitFails(n, RecvRest(n))
    /\ UNCHANGED delivered

(* The machine has already moved when the Flow Control fails to go out. *)
RecvGrant(n) ==
    /\ RecvPdu(n, "SendFlowControl")
    /\ \/ Transmit(n, RecvRest(n), Grant(Cfg[n], rx'[n]))
       \/ TransmitFails(n, RecvRest(n))
    /\ UNCHANGED delivered

RecvCompleted(n) ==
    /\ RecvPdu(n, "Completed")
    /\ Consume(n, RecvRest(n))
    /\ delivered' = [delivered EXCEPT ![n] = Append(@, rx'[n].content)]

PollRecv(n) ==
    /\ \/ RecvNothing(n) \/ RecvMalformed(n) \/ RecvQuiet(n)
       \/ RecvOverflow(n) \/ RecvGrant(n) \/ RecvCompleted(n)
    /\ UNCHANGED <<app, ret, tx, submitted>>

-----------------------------------------------------------------------------
(* The applications, the clock and the bus. *)

Submit(n) ==
    /\ ~Sender(n)
    /\ \E m \in Msg :
          /\ Source[m] = n
          /\ ~Contains(submitted[n], m)
          /\ app' = [app EXCEPT ![n] = m]
          /\ submitted' = [submitted EXCEPT ![n] = Append(@, m)]
    /\ ret' = [ret EXCEPT ![n] = InProgress]
    /\ UNCHANGED <<tx, rx, inbox, faults, delivered>>

(* An endpoint that reads its queue in its present call. *)
Reads(n) == ~Sender(n) \/ Superloop \/ tx[n].state = "WaitingForFc"

Drained == \A n \in Node : Reads(n) => inbox[n] = <<>>

(* The next tick is the one at which N_Bs expires. *)
LastCall(n) == tx[n].state = "WaitingForFc" /\ tx[n].timer = 1

Advance ==
    /\ \E n \in Node : tx[n].state # "Idle" /\ tx[n].timer > 0
    /\ Prompt => \A n \in Node : LastCall(n) => Drained
    /\ tx' = [n \in Node |-> Later(tx[n])]
    /\ UNCHANGED <<app, ret, rx, inbox, faults, submitted, delivered>>

(* A receive queue overruns and one frame is gone. *)
Lose(n) ==
    /\ Fault
    /\ \E i \in 1..Len(inbox[n]) : inbox' = [inbox EXCEPT ![n] = RemoveAt(@, i)]
    /\ UNCHANGED <<app, ret, tx, rx, submitted, delivered>>

(* Another station on the bus is heard. *)
Interfere(n) ==
    /\ faults < MaxFaults
    /\ \E f \in Noise : inbox' = [inbox EXCEPT ![n] = Append(@, f)]
    /\ faults' = faults + 1
    /\ UNCHANGED <<app, ret, tx, rx, submitted, delivered>>

Next ==
    \/ \E n \in Node :
          \/ Submit(n) \/ PollSend(n) \/ SendTimesOut(n) \/ PollRecv(n)
          \/ Lose(n) \/ Interfere(n)
    \/ Advance

Spec == Init /\ [][Next]_vars

(* Applications keep polling and time passes; nothing is assumed of the    *)
(* bus, of new messages or of timeouts of the caller.                      *)
Fairness ==
    /\ \A n \in Node : WF_vars(PollSend(n)) /\ WF_vars(PollRecv(n))
    /\ WF_vars(Advance)

FairSpec == Spec /\ Fairness

-----------------------------------------------------------------------------
Session == [payload_len : Nat, offset : Nat, next_sn : 0..(SnMod - 1), block_size : Nat,
            block_remaining : Nat, st_min : Nat, wait_count : 0..255, owner : Seq(Byte)]

TypeOK ==
    /\ app \in [Node -> Msg \cup {NoMsg}]
    /\ \A n \in Node :
          \/ tx[n] = TxIdle
          \/ /\ tx[n].state \in {"WaitingForFc", "Sending"}
             /\ tx[n].session \in Session
             /\ tx[n].session.offset < tx[n].session.payload_len
             /\ tx[n].timer \in Nat
    /\ \A n \in Node :
          /\ rx[n].state \in {"Idle", "Receiving"}
          /\ rx[n].content \in Seq(Byte)
          /\ rx[n].next_sn \in 0..(SnMod - 1)
    /\ faults \in 0..MaxFaults

(* How many frames of a kind wait in the queue of n. *)
Count(n, kind) == Cardinality({i \in 1..Len(inbox[n]) : inbox[n][i].kind = kind})

(* The step sends a Consecutive Frame of n. *)
SendsCf(n) ==
    LET p == Peer[n]
    IN  /\ tx'[n] # tx[n]
        /\ Len(inbox'[p]) = Len(inbox[p]) + 1
        /\ Last(inbox'[p]).kind = "CF"

-----------------------------------------------------------------------------
(* Safety *)

(* Every payload handed to an application is, byte for byte, one the peer  *)
(* sent: never a prefix, never padding, never the head of one message      *)
(* joined to the tail of another (poll_recv: "the deliver callback is      *)
(* invoked only when a full payload has been reassembled").                *)
DeliveredIntact ==
    \A n \in Node : \A d \in ToSet(delivered[n]) :
        \E m \in ToSet(submitted[Peer[n]]) : d = Payload(m)

(* The bytes a frame in flight contributes to the receiver: up to padding. *)
UpToPad(data) ==
    LET k == SelectInSeq(data, LAMBDA b : b = Pad)
    IN  IF k = 0 THEN data ELSE SubSeq(data, 1, k - 1)

BytesOf(f) == IF f.kind \in {"SF", "FF", "CF"} THEN UpToPad(f.data) ELSE <<>>

Partial(n) == IF rx[n].state = "Receiving" THEN rx[n].content ELSE <<>>
InFlight(n) == FlattenSeq([i \in 1..Len(inbox[n]) |-> BytesOf(inbox[n][i])])

(* How much of a submitted message has left the sender. *)
Sent(n, m) ==
    IF app[n] # m THEN Payload(m)
    ELSE IF tx[n].state = "Idle" THEN <<>>
    ELSE SubSeq(Payload(m), 1, tx[n].session.offset)

(* No byte is lost, repeated or overtaken anywhere between two calls: what *)
(* the receiver delivered, what it holds of an open transfer and what is   *)
(* in flight are together the bytes that left the sender, in order.  On a  *)
(* link without faults this ties the offsets of TxSession to `written` of  *)
(* RxMachine through every interleaving of poll_send and poll_recv.        *)
StreamConserved ==
    \A n \in Node :
        LET p == Peer[n]
        IN  FlattenSeq(delivered[p]) \o Partial(p) \o InFlight(p)
              = FlattenSeq([i \in 1..Len(submitted[n]) |-> Sent(n, submitted[n][i])])

(* The receiver is never sent more Consecutive Frames than the block it    *)
(* granted: a driver queue of block_size frames does not overrun.          *)
WindowRespected ==
    \A n \in Node : Cfg[n].block_size > 0 => Count(n, "CF") <= Cfg[n].block_size

MidTransfer(n) ==
    /\ Sender(n) /\ tx[n].state # "Idle"
    /\ tx[n].session.offset > max_first_frame_payload(Cfg[n])

(* Sender and receiver agree where a block ends.  A sender that waits in   *)
(* mid-transfer has its Flow Control on the way, or the receiver will send *)
(* it on the last frame in flight; a sender that is not waiting counts     *)
(* down to the same frame as the receiver.  (FlowControl::block_size is    *)
(* "Block size requested by receiver (0 = unlimited)".)                    *)
BlocksAgree ==
    \A n \in Node : MidTransfer(n) =>
        LET p == Peer[n]
            s == tx[n].session
        IN  CASE tx[n].state = "WaitingForFc" ->
                     \/ Count(n, "FC") > 0
                     \/ /\ rx[p].state = "Receiving"
                        /\ rx[p].block_size > 0
                        /\ rx[p].block_remaining = Count(p, "CF")
              [] tx[n].state = "Sending" ->
                     IF rx[p].block_size = 0 THEN s.block_size = 0
                     ELSE rx[p].block_remaining = s.block_remaining + Count(p, "CF")

(* Between two Consecutive Frames of a block the sender lets at least the  *)
(* separation time pass that the receiver was configured with (st_min:     *)
(* "Minimum separation time enforced between consecutive frames").         *)
SeparationTimeHonoured ==
    [][\A n \in Node : SendsCf(n) /\ tx'[n].state = "Sending" =>
          tx'[n].timer * Tick >= Cfg[Peer[n]].st_min]_vars

(* A Consecutive Frame only ever continues the payload whose First Frame   *)
(* opened the session.  poll_send compares nothing but lengths, so for     *)
(* payloads of one length this says that every way a send fails inside     *)
(* poll_send ends its session or, after one Wait too many, leaves one that *)
(* never sends again.  A blocking send that runs out of time does leave a  *)
(* session that a payload of the same length continues: the property needs *)
(* callers that do not give up, or lengths that differ.                    *)
ContinuesOwnFirstFrame ==
    [][\A n \in Node : SendsCf(n) => tx[n].session.owner = Payload(app[n])]_vars

(* The link as a channel of whole messages. *)
Channel ==
    INSTANCE MessageChannel WITH
        Message <- {Payload(m) : m \in Msg},
        sent <- [n \in Node |-> [i \in 1..Len(submitted[n]) |-> Payload(submitted[n][i])]],
        got <- [n \in Node |-> delivered[Peer[n]]]

(* Whatever happens on the link, applications see whole messages, in order *)
(* and at most once: poll_send and poll_recv implement MessageChannel.     *)
ImplementsChannel == Channel!Spec

-----------------------------------------------------------------------------
(* Liveness, under FairSpec *)

(* A send ends, with Completed or an error, whatever the bus does to it:   *)
(* no state of the session waits for something without a deadline.         *)
EverySendEnds == \A n \in {Source[m] : m \in Msg} : Sender(n) ~> ~Sender(n)

(* On a link without faults every message sent is delivered. *)
EveryMessageArrives ==
    \A m \in Msg : Contains(submitted[Source[m]], m)
                      ~> Contains(delivered[Peer[Source[m]]], Payload(m))
=============================================================================
