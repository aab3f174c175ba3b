--------------------------- MODULE IsoTpAsyncNode ---------------------------
(***************************************************************************)
(* Two async endpoints (IsoTpAsyncNode in async_node.rs) on a CAN link.    *)
(* Each application awaits one call at a time, send or recv (`&mut self`). *)
(* The receive machine belongs to the endpoint; the session of a send      *)
(* lives in the future alone and is gone when the future ends or is        *)
(* dropped.                                                                *)
(*                                                                         *)
(* A step runs a call from one await to the next; the await it stands at   *)
(* is its `at`:                                                            *)
(*   SingleOut, FirstOut, SegmentOut   send_frame of send                  *)
(*   FcArm, FcIn    wait_for_flow_control: between its two readings of the *)
(*                  clock, and awaiting a frame                            *)
(*   Pace           sleep_or_timeout                                       *)
(*   FrameIn        recv_frame of recv                                     *)
(*   GrantOut, OverflowOut    send_frame of recv                           *)
(*   Done           no call in progress; `ret` is what the last returned   *)
(*                                                                         *)
(* Time.  `left` is timeout - elapsed(start) and `fc` is n_bs -            *)
(* elapsed(fc_start), in ticks, down to -1 for "passed"; `since` is        *)
(* elapsed(last_cf_sent), up to LongAgo, which also stands for None.       *)
(***************************************************************************)
EXTENDS RxHandlers, TxSession, FiniteSets, SequencesExt

CONSTANTS
    Node, Peer,     \* the endpoints, and who is at the other end
    Cfg,            \* IsoTpConfig of each endpoint
    Msg,            \* what applications send
    Source,         \* the endpoint that sends a message
    Length,         \* its length in bytes
    SendTimeouts,   \* timeouts passed to send, in ticks
    RecvTimeouts,   \* timeouts passed to recv, in ticks
    LongAgo,        \* bound: ticks no separation time exceeds
    Noise,          \* frames of other stations the bus may carry
    MaxFaults,      \* bound: frames lost or refused, noise, futures dropped
    Lossy,          \* frames may be lost and the driver may fail
    Cancels,        \* futures may be dropped before they are done
    Prompt          \* both readings of the clock in a wait fall into one tick

ASSUME NodeAssumption ==
    /\ Peer \in [Node -> Node]
    /\ \A n \in Node : Peer[n] # n /\ Peer[Peer[n]] = n
    /\ Source \in [Msg -> Node]
    /\ Length \in [Msg -> Nat]
    /\ SendTimeouts \subseteq Nat /\ RecvTimeouts \subseteq Nat
    /\ MaxFaults \in Nat /\ LongAgo \in Nat
    /\ \A b \in {Lossy, Cancels, Prompt} : b \in BOOLEAN

ASSUME CfgAssumption ==
    \A n \in Node :
        /\ ValidConfig(Cfg[n])
        /\ Cfg[n].n_bs \in Nat /\ Cfg[n].wft_max \in Nat
        /\ Cfg[n].st_min \in 0..(LongAgo * Tick)

VARIABLES
    call,       \* the call of each application
    rx,         \* the receive machine of each endpoint
    inbox,      \* the received frames each driver holds
    faults,     \* faults injected so far
    submitted,  \* history: messages each application started to send
    completed,  \* history: messages whose send returned Ok
    delivered,  \* history: payloads handed to each application
    broken,     \* history: endpoints whose frames did not all reach the peer's machine
    stale       \* history: a send ended with its answer still to come

vars == <<call, rx, inbox, faults, submitted, completed, delivered, broken, stale>>

Payload(m) == [i \in 1..Length[m] |-> <<m, i>>]

Done(result) == [at |-> "Done", ret |-> result]

SendAwaits == {"SingleOut", "FirstOut", "FcArm", "FcIn", "Pace", "SegmentOut"}
OutAwaits == {"SingleOut", "FirstOut", "SegmentOut", "GrantOut", "OverflowOut"}

Free(n) == call[n].at = "Done"
InSend(n) == call[n].at \in SendAwaits

Init ==
    /\ call = [n \in Node |-> Done("None")]
    /\ rx = [n \in Node |-> RxNew]
    /\ inbox = [n \in Node |-> <<>>]
    /\ faults = 0
    /\ submitted = [n \in Node |-> <<>>]
    /\ completed = {}
    /\ delivered = [n \in Node |-> <<>>]
    /\ broken = {}
    /\ stale = FALSE

-----------------------------------------------------------------------------
(* The call of n becomes c; the driver's queue; the bus. *)

Goes(n, c) == call' = [call EXCEPT ![n] = c]

Take(n) == inbox' = [inbox EXCEPT ![n] = Tail(@)]
Put(n, f) == inbox' = [inbox EXCEPT ![Peer[n]] = Append(@, f)]

Fault == faults < MaxFaults /\ faults' = faults + 1
NoFault == UNCHANGED faults

(* The frame whose transmission the call awaits. *)
Outgoing(n) ==
    LET c == call[n]
    IN  CASE c.at = "SingleOut"   -> SingleFrame(Payload(c.msg))
          [] c.at = "FirstOut"    -> FirstFrameOf(Cfg[n], Payload(c.msg))
          [] c.at = "SegmentOut"  -> NextFrame(Cfg[n], c.s, Payload(c.msg))
          [] c.at = "GrantOut"    -> Grant(Cfg[n], rx[n])
          [] c.at = "OverflowOut" -> OverflowFc(Cfg[n])

(* send_frame and recv_frame start with checked_sub: a call whose time has *)
(* passed returns, one with none left still looks once.                    *)
Awaits(c, at, error) == IF c.left < 0 THEN Done(error) ELSE [c EXCEPT !.at = at]

-----------------------------------------------------------------------------
(* send *)

SendCall(n, at, m, timeout) ==
    [at |-> at, msg |-> m, left |-> timeout, s |-> NewSession(Cfg[n], Payload(m)),
     fc |-> 0, kind |-> "None", since |-> LongAgo]

(* The top of the loop in wait_for_flow_control, first reading of the      *)
(* clock.                                                                  *)
CheckWait(c) ==
    IF c.fc <= 0 THEN Done("NBs") ELSE [c EXCEPT !.at = "FcArm", !.kind = "None"]

(* A wait starts, or starts again after FlowStatus::Wait. *)
StartWait(n, c) == CheckWait([c EXCEPT !.fc = Timer(Cfg[n].n_bs)])

(* The top of the loop in send.  Faulty variant: off by one at the end. *)
Continues_early(n, c) ==
    IF c.s.offset + 1 >= c.s.payload_len THEN Done("Completed")
    ELSE IF c.s.block_size > 0 /\ c.s.block_remaining = 0 THEN StartWait(n, c)
    ELSE IF c.since * Tick < c.s.st_min THEN Awaits(c, "Pace", "NAs")
    ELSE Awaits(c, "SegmentOut", "NAs")

Continues(n, c) ==
    IF c.s.offset >= c.s.payload_len THEN Done("Completed")
    ELSE IF c.s.block_size > 0 /\ c.s.block_remaining = 0 THEN StartWait(n, c)
    ELSE IF c.since * Tick < c.s.st_min THEN Awaits(c, "Pace", "NAs")
    ELSE Awaits(c, "SegmentOut", "NAs")

(* The call after a Consecutive Frame went out. *)
AfterSegment(n, c) ==
    [c EXCEPT !.since = 0,
              !.s.offset = @ + Len(NextChunk(Cfg[n], c.s, Payload(c.msg))),
              !.s.next_sn = NextSn(@),
              !.s.block_remaining = Saturating(@, 1)]

MaySend(n, m) == Free(n) /\ Source[m] = n /\ ~Contains(submitted[n], m)

(* Returns before the first await. *)
RefuseSend(n, m, timeout) ==
    /\ MaySend(n, m)
    /\ \/ /\ Length[m] > Cfg[n].max_payload_len
          /\ Goes(n, Done("Overflow"))
       \/ /\ Length[m] <= Cfg[n].max_payload_len /\ timeout = 0
          /\ Goes(n, Done("NAs"))
    /\ UNCHANGED <<rx, inbox, submitted, delivered>> /\ NoFault

StartSend(n, m, timeout) ==
    /\ MaySend(n, m)
    /\ Length[m] <= Cfg[n].max_payload_len /\ timeout > 0
    /\ IF Length[m] <= max_single_frame_payload(Cfg[n])
       THEN Goes(n, SendCall(n, "SingleOut", m, timeout))
       ELSE Goes(n, SendCall(n, "FirstOut", m, timeout))
    /\ submitted' = [submitted EXCEPT ![n] = Append(@, m)]
    /\ UNCHANGED <<rx, inbox, delivered>> /\ NoFault

(* The driver takes the frame the call awaits to send. *)
SingleAccepted(n) ==
    /\ call[n].at = "SingleOut"
    /\ Put(n, Outgoing(n))
    /\ Goes(n, Done("Completed"))
    /\ UNCHANGED <<rx, submitted, delivered>> /\ NoFault

FirstAccepted(n) ==
    /\ call[n].at = "FirstOut"
    /\ Put(n, Outgoing(n))
    /\ Goes(n, StartWait(n, call[n]))
    /\ UNCHANGED <<rx, submitted, delivered>> /\ NoFault

SegmentAccepted(n) ==
    /\ call[n].at = "SegmentOut"
    /\ Put(n, Outgoing(n))
    /\ Goes(n, Continues(n, AfterSegment(n, call[n])))
    /\ UNCHANGED <<rx, submitted, delivered>> /\ NoFault

(* sleep_or_timeout slept until the separation time or the call's own time *)
(* was over, whichever came first.                                         *)
NapOver(c) == c.since * Tick >= c.s.st_min \/ c.left <= 0

Wakes(n) ==
    /\ call[n].at = "Pace" /\ NapOver(call[n])
    /\ Goes(n, Awaits(call[n], "SegmentOut", "NAs"))
    /\ UNCHANGED <<rx, inbox, submitted, delivered>> /\ NoFault

-----------------------------------------------------------------------------
(* wait_for_flow_control *)

(* What the timeout of the wait would mean.  Faulty variant: swapped. *)
ExpiryKind_swapped(c) == IF c.left <= c.fc THEN "NBs" ELSE "NAs"
ExpiryKind(c) == IF c.left <= c.fc THEN "NAs" ELSE "NBs"

(* The second reading of the clock: n_bs - elapsed panics below zero. *)
ArmWait(n) ==
    LET c == call[n]
    IN  /\ c.at = "FcArm"
        /\ Goes(n, IF c.fc < 0 THEN Done("Panic")
                   ELSE Awaits([c EXCEPT !.kind = ExpiryKind(c)], "FcIn", "NAs"))
        /\ UNCHANGED <<rx, inbox, submitted, delivered>> /\ NoFault

Hears(n, at, kinds) ==
    /\ call[n].at = at
    /\ inbox[n] # <<>> /\ Head(inbox[n]).kind \in kinds
    /\ Take(n)
    /\ UNCHANGED <<submitted>> /\ NoFault

(* Whatever is not Flow Control is dropped, data of the peer included. *)
WaitSkips(n) ==
    /\ Hears(n, "FcIn", {"Foreign", "SF", "FF", "CF"})
    /\ Goes(n, CheckWait(call[n]))
    /\ UNCHANGED <<rx, delivered>>

WaitBroken(n) ==
    /\ Hears(n, "FcIn", {"Malformed"})
    /\ Goes(n, Done("InvalidFrame"))
    /\ UNCHANGED <<rx, delivered>>

GotFc(n, status) ==
    /\ Hears(n, "FcIn", {"FC"})
    /\ Head(inbox[n]).status = status
    /\ UNCHANGED <<rx, delivered>>

GotClearToSend(n) ==
    /\ GotFc(n, "ClearToSend")
    /\ Goes(n, Continues(n, [call[n] EXCEPT !.s = Cleared(Cfg[n], @, Head(inbox[n])),
                                            !.fc = 0, !.kind = "None"]))

GotWait(n) ==
    LET c == [call[n] EXCEPT !.s = Waited(@)]
    IN  /\ GotFc(n, "Wait")
        /\ Goes(n, IF c.s.wait_count > Cfg[n].wft_max THEN Done("NBs") ELSE StartWait(n, c))

GotOverflow(n) == GotFc(n, "Overflow") /\ Goes(n, Done("Overflow"))

(* Faulty variant: only N_Bs ends a wait. *)
WaitExpires_not(n) == FALSE

WaitExpires(n) ==
    LET c == call[n]
    IN  /\ c.at = "FcIn"
        /\ c.left <= 0 \/ c.fc <= 0
        /\ inbox[n] = <<>>
        /\ Goes(n, Done(c.kind))
        /\ UNCHANGED <<rx, inbox, submitted, delivered>> /\ NoFault

-----------------------------------------------------------------------------
(* recv *)

RecvCall(timeout) == [at |-> "FrameIn", left |-> timeout]

StartRecv(n, timeout) ==
    /\ Free(n)
    /\ Goes(n, RecvCall(timeout))
    /\ UNCHANGED <<rx, inbox, submitted, delivered>> /\ NoFault

NextFrameIn(c) == Awaits(c, "FrameIn", "NAr")

RecvSkips(n) ==
    /\ Hears(n, "FrameIn", {"Foreign", "FC"})
    /\ Goes(n, NextFrameIn(call[n]))
    /\ UNCHANGED <<rx, delivered>>

RecvBroken(n) ==
    /\ Hears(n, "FrameIn", {"Malformed"})
    /\ Goes(n, Done("InvalidFrame"))
    /\ UNCHANGED <<rx, delivered>>

(* What recv does with an outcome of the machine. *)
Handled(c, out) ==
    CASE out \in {"None", "UnexpectedPdu"} -> NextFrameIn(c)
      [] out = "BadSequence"     -> Done("BadSequence")
      [] out = "Completed"       -> Done("Completed")
      [] out = "SendFlowControl" -> Awaits(c, "GrantOut", "NAs")
      [] out = "Overflow"        -> Awaits(c, "OverflowOut", "RxOverflow")

RecvPdu(n) ==
    /\ Hears(n, "FrameIn", {"SF", "FF", "CF"})
    /\ \E r \in {on_pdu(Cfg[n], rx[n], Head(inbox[n]))} :
          /\ rx' = [rx EXCEPT ![n] = r.rx]
          /\ delivered' = IF r.out = "Completed"
                          THEN [delivered EXCEPT ![n] = Append(@, r.rx.content)]
                          ELSE delivered
          /\ Goes(n, Handled(call[n], r.out))

(* Flow Control is out: recv goes on, or ends with RxOverflow. *)
GrantAccepted(n) ==
    /\ call[n].at = "GrantOut"
    /\ Put(n, Outgoing(n))
    /\ Goes(n, NextFrameIn(call[n]))
    /\ UNCHANGED <<rx, submitted, delivered>> /\ NoFault

OverflowAccepted(n) ==
    /\ call[n].at = "OverflowOut"
    /\ Put(n, Outgoing(n))
    /\ Goes(n, Done("RxOverflow"))
    /\ UNCHANGED <<rx, submitted, delivered>> /\ NoFault

(* Faulty variant: the machine is reset with the call. *)
RecvExpires_resets(n) ==
    /\ call[n].at = "FrameIn" /\ call[n].left <= 0
    /\ inbox[n] = <<>>
    /\ Goes(n, Done("NAr"))
    /\ rx' = [rx EXCEPT ![n] = RxReset(@)]
    /\ UNCHANGED <<inbox, submitted, delivered>> /\ NoFault

RecvExpires(n) ==
    /\ call[n].at = "FrameIn" /\ call[n].left <= 0
    /\ inbox[n] = <<>>
    /\ Goes(n, Done("NAr"))
    /\ UNCHANGED <<rx, inbox, submitted, delivered>> /\ NoFault

-----------------------------------------------------------------------------
(* Calls that end at an await of the driver. *)

(* A future the runtime times out or the caller drops was about to hand    *)
(* its frame to the driver, or had done so.                                *)
OutOrNot(n) == UNCHANGED inbox \/ Put(n, Outgoing(n))

(* The result of sending the overflow frame is ignored. *)
OutError(n, error) == IF call[n].at = "OverflowOut" THEN "RxOverflow" ELSE error

OutExpires(n) ==
    /\ call[n].at \in OutAwaits /\ call[n].left <= 0
    /\ OutOrNot(n)
    /\ Goes(n, Done(OutError(n, "NAs")))
    /\ UNCHANGED <<rx, submitted, delivered>> /\ NoFault

DriverFails(n) ==
    /\ Lossy /\ Fault
    /\ call[n].at \in OutAwaits \cup {"FcIn", "FrameIn"}
    /\ Goes(n, Done(OutError(n, "LinkError")))
    /\ UNCHANGED <<rx, inbox, submitted, delivered>>

(* The application drops the future at its await, as a select! does. *)
Dropped(n) ==
    /\ Cancels /\ Fault
    /\ ~Free(n) /\ call[n].at # "FcArm"
    /\ IF call[n].at \in OutAwaits THEN OutOrNot(n) ELSE UNCHANGED inbox
    /\ Goes(n, Done("Dropped"))
    /\ UNCHANGED <<rx, submitted, delivered>>

-----------------------------------------------------------------------------
(* The clock and the bus. *)

Down(t) == IF t < 0 THEN t ELSE t - 1

LaterCall(c) ==
    IF c.at = "Done" THEN c
    ELSE IF c.at \in SendAwaits
    THEN [c EXCEPT !.left = Down(@), !.since = Lesser(@ + 1, LongAgo),
                   !.fc = IF c.at \in {"FcArm", "FcIn"} THEN Down(@) ELSE @]
    ELSE [c EXCEPT !.left = Down(@)]

Advance ==
    /\ Prompt => \A n \in Node : call[n].at # "FcArm"
    /\ call' = [n \in Node |-> LaterCall(call[n])]
    /\ call' # call
    /\ UNCHANGED <<rx, inbox, submitted, delivered>> /\ NoFault

Lose(n) ==
    /\ Lossy /\ Fault
    /\ \E i \in 1..Len(inbox[n]) : inbox' = [inbox EXCEPT ![n] = RemoveAt(@, i)]
    /\ UNCHANGED <<call, rx, submitted, delivered>>

Interfere(n) ==
    /\ Fault
    /\ \E f \in Noise : inbox' = [inbox EXCEPT ![n] = Append(@, f)]
    /\ UNCHANGED <<call, rx, submitted, delivered>>

-----------------------------------------------------------------------------
(* The history of a step. *)

DataFrames(q) == SelectSeq(q, LAMBDA f : f.kind \in {"SF", "FF", "CF"})

SendEnds(n) == InSend(n) /\ call'[n].at = "Done"
SendFails(n) == SendEnds(n) /\ call'[n].ret # "Completed"

(* A data frame of n leaves the queue of its peer and changes nothing. *)
Wasted(n) ==
    LET p == Peer[n]
    IN  /\ Len(DataFrames(inbox'[p])) < Len(DataFrames(inbox[p]))
        /\ rx'[p] = rx[p]
        /\ delivered'[p] = delivered[p]

(* The peer has read what n sent, its answers are out, and n read them. *)
Settled(n) ==
    LET p == Peer[n]
    IN  /\ DataFrames(inbox'[p]) = <<>>
        /\ call'[p].at \notin {"GrantOut", "OverflowOut"}
        /\ SelectSeq(inbox'[n], LAMBDA f : f.kind = "FC") = <<>>

Recorded ==
    /\ completed' = completed \cup
          {call[n].msg : n \in {k \in Node : SendEnds(k) /\ ~SendFails(k)}}
    /\ broken' = broken \cup {n \in Node : SendFails(n) \/ Wasted(n)}
    /\ stale' = (stale \/ \E n \in Node : SendFails(n) /\ ~Settled(n))

SendStep(n) ==
    \/ SingleAccepted(n) \/ FirstAccepted(n) \/ SegmentAccepted(n)
    \/ Wakes(n)
    \/ ArmWait(n) \/ WaitSkips(n) \/ WaitBroken(n)
    \/ GotClearToSend(n) \/ GotWait(n) \/ GotOverflow(n) \/ WaitExpires(n)

RecvStep(n) ==
    \/ RecvSkips(n) \/ RecvBroken(n) \/ RecvPdu(n)
    \/ GrantAccepted(n) \/ OverflowAccepted(n) \/ RecvExpires(n)

(* The runtime resumes a call that can go on. *)
Resumes(n) == (SendStep(n) \/ RecvStep(n) \/ OutExpires(n)) /\ Recorded

Awaited(n) == (\E timeout \in RecvTimeouts : StartRecv(n, timeout)) /\ Recorded

(* The task of an application: it awaits recv whenever it does not send. *)
Task(n) == Resumes(n) \/ Awaited(n)

Environment ==
    /\ \E n \in Node :
          \/ \E m \in Msg, timeout \in SendTimeouts :
                RefuseSend(n, m, timeout) \/ StartSend(n, m, timeout)
          \/ DriverFails(n) \/ Dropped(n) \/ Lose(n) \/ Interfere(n)
    /\ Recorded

Ticks == Advance /\ Recorded

Next == (\E n \in Node : Task(n)) \/ Environment \/ Ticks

Spec == Init /\ [][Next]_vars

(* The executor runs every task that can go on, and time passes. *)
Fairness == (\A n \in Node : WF_vars(Task(n))) /\ WF_vars(Ticks)

FairSpec == Spec /\ Fairness

-----------------------------------------------------------------------------
(* Safety *)

(* The bytes a frame in flight contributes to the receiver. *)
BytesOf(f) ==
    IF f.kind \in {"SF", "FF", "CF"} THEN SelectSeq(f.data, LAMBDA b : b # Pad) ELSE <<>>

Partial(n) == IF rx[n].state = "Receiving" THEN rx[n].content ELSE <<>>
InFlight(n) == FlattenSeq([i \in 1..Len(inbox[n]) |-> BytesOf(inbox[n][i])])

(* How much of a submitted message has left the sender. *)
Sent(n, m) ==
    IF ~InSend(n) \/ call[n].msg # m THEN Payload(m)
    ELSE IF call[n].at \in {"SingleOut", "FirstOut"} THEN <<>>
    ELSE SubSeq(Payload(m), 1, call[n].s.offset)

(* A recv that times out, fails or is dropped, at whichever await and      *)
(* however often, costs no byte: what was delivered, what the machine      *)
(* holds of an open transfer and what is in flight are together what left  *)
(* the sender, as long as its sends succeed and no frame is lost or thrown *)
(* away by a peer that does not receive.                                   *)
StreamConserved ==
    \A n \in Node \ broken :
        LET p == Peer[n]
        IN  FlattenSeq(delivered[p]) \o Partial(p) \o InFlight(p)
              = FlattenSeq([i \in 1..Len(submitted[n]) |-> Sent(n, submitted[n][i])])

(* The step sends a Consecutive Frame of n. *)
SendsCf(n) ==
    LET p == Peer[n]
    IN  /\ call[n].at = "SegmentOut"
        /\ Len(inbox'[p]) = Len(inbox[p]) + 1
        /\ Last(inbox'[p]).kind = "CF"

(* Consecutive Frames keep the distance the receiver is configured with    *)
(* (st_min: "Minimum separation time enforced between consecutive          *)
(* frames"), with one exception: at the very end of the caller's timeout   *)
(* the sleep is cut short, and send_frame still accepts no time left.      *)
SeparationTimeHonoured ==
    [][\A n \in Node : SendsCf(n) =>
          \/ call[n].since * Tick >= Cfg[Peer[n]].st_min
          \/ call[n].left <= 0]_vars

(* A call that returns at this step with the given error. *)
Fails(n, error) == ~Free(n) /\ call'[n] = Done(error)

(* The kind of a timeout tells what ran out: N_As the time the caller gave *)
(* to send or to an answer of recv, N_Bs the wait for Flow Control (or the *)
(* Waits the configuration allows), N_Ar the time given to recv.  The wait *)
(* decides the kind when it starts, from two deadlines that both run on    *)
(* while it awaits a frame.                                                *)
TimeoutIsHonest ==
    [][\A n \in Node :
          /\ Fails(n, "NAs") => call[n].left <= 0
          /\ Fails(n, "NAr") => call[n].left <= 0
          /\ Fails(n, "NBs") => \/ call[n].fc <= 0
                                \/ call[n].s.wait_count >= Cfg[n].wft_max]_vars

(* A send ends with a result, not by unwinding (send: "Blocking-by-await   *)
(* send until completion or timeout").                                     *)
NeverPanics == \A n \in Node : call[n] # Done("Panic")

-----------------------------------------------------------------------------
(* Liveness, under FairSpec *)

(* A send ends whatever the peer, the bus and the driver do to it: none of *)
(* its awaits lacks a deadline.                                            *)
EverySendReturns == \A n \in Node : InSend(n) ~> ~InSend(n)

(* When send returned Ok and the frames got through, the peer receives the *)
(* message, even though Ok says only that the driver took the last frame   *)
(* and recv may time out or be dropped in the middle of it.                *)
CompletedArrives ==
    \A m \in Msg : LET n == Source[m] IN
        m \in completed ~> Contains(delivered[Peer[n]], Payload(m)) \/ n \in broken
=============================================================================
