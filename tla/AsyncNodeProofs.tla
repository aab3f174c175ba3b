-------------------------- MODULE AsyncNodeProofs --------------------------
(***************************************************************************)
(* The deadlines of the async node (async_node.rs), for any endpoints,     *)
(* configurations, messages and timeouts: what a timeout reported says of  *)
(* the clock, and how far apart Consecutive Frames are.                    *)
(***************************************************************************)
EXTENDS IsoTpAsyncNode, SessionProofs

SendFields == {"at", "msg", "left", "s", "fc", "kind", "since"}
RecvAwaits == {"FrameIn", "GrantOut", "OverflowOut"}
FcAwaits == {"FcArm", "FcIn"}

(* A send in progress, wherever it stands. *)
IsSend(c) ==
    /\ DOMAIN c = SendFields
    /\ c.left \in Int /\ c.fc \in Int /\ c.since \in Nat /\ c.since <= LongAgo
    /\ DOMAIN c.s = SessionFields
    /\ c.s.wait_count \in Nat /\ c.s.st_min \in Nat

(* Its deadlines: N_Bs runs during a wait only, the kind decided when the  *)
(* wait was armed still names the earlier deadline, and a Consecutive      *)
(* Frame goes out after the separation time or at the end of the call.     *)
Timed(n, c) ==
    /\ c.at \in FcAwaits => Timer(Cfg[n].n_bs) > 0
    /\ c.at \notin FcAwaits => c.fc <= 0
    /\ c.at = "FcIn" => \/ c.kind = "NAs" /\ c.left <= c.fc
                        \/ c.kind = "NBs" /\ c.fc <= c.left
    /\ c.at = "SegmentOut" => c.since * Tick >= c.s.st_min \/ c.left <= 0
    /\ Prompt /\ c.at = "FcArm" => c.fc > 0

IsRecv(c) == DOMAIN c = {"at", "left"} /\ c.left \in Int

CallFits(n, c) ==
    \/ c.at = "Done"
    \/ c.at \in RecvAwaits /\ IsRecv(c)
    \/ c.at \in SendAwaits /\ IsSend(c) /\ Timed(n, c)

IInv ==
    /\ DOMAIN call = Node
    /\ \A n \in Node : CallFits(n, call[n]) /\ (Prompt => call[n] # Done("Panic"))

(* The call b of n becomes c, and an error is what it says. *)
HonestEnd(n, b, c) ==
    /\ c = Done("NAs") => b.left <= 0
    /\ c = Done("NAr") => b.left <= 0
    /\ c = Done("NBs") => b.fc <= 0 \/ b.s.wait_count >= Cfg[n].wft_max
    /\ Prompt => c # Done("Panic")

HonestStep ==
    \A n \in Node :
        /\ Fails(n, "NAs") => call[n].left <= 0
        /\ Fails(n, "NAr") => call[n].left <= 0
        /\ Fails(n, "NBs") => call[n].fc <= 0 \/ call[n].s.wait_count >= Cfg[n].wft_max

-----------------------------------------------------------------------------
(* What the configuration and the clock give.                              *)
LEMMA Timers ==
    ASSUME NEW n \in Node
    PROVE  /\ Timer(Cfg[n].n_bs) \in Nat
           /\ Cfg[n].wft_max \in Nat /\ Cfg[n].st_min \in Nat
<1>1. Tick \in Nat \ {0} /\ LongAgo \in Nat
  BY TickAssumption, NodeAssumption
<1>2. Cfg[n].n_bs \in Nat /\ Cfg[n].wft_max \in Nat /\ Cfg[n].st_min \in 0..(LongAgo * Tick)
  BY CfgAssumption
<1> QED BY <1>1, <1>2 DEF Timer, CeilDiv

(* A call that ended.                                                      *)
LEMMA Ended ==
    ASSUME NEW r
    PROVE  Done(r).at = "Done" /\ Done(r).ret = r
BY DEF Done

(* A call that ended fits, whatever it returns.                            *)
LEMMA EndFits ==
    ASSUME NEW n, NEW r
    PROVE  CallFits(n, Done(r))
BY Ended DEF CallFits

(* A call that goes on reports nothing.                                    *)
LEMMA NoEnd ==
    ASSUME NEW n, NEW b, NEW c, c.at # "Done"
    PROVE  HonestEnd(n, b, c)
BY Ended DEF HonestEnd

(* One call moves on.                                                      *)
LEMMA Moved ==
    ASSUME IInv, NEW n \in Node, NEW c, Goes(n, c), CallFits(n, c),
           call[n].at = "Done" \/ HonestEnd(n, call[n], c), Prompt => c # Done("Panic")
    PROVE  IInv' /\ HonestStep
<1>1. DOMAIN call' = Node /\ call'[n] = c /\ \A k \in Node \ {n} : call'[k] = call[k]
  BY DEF Goes, IInv
<1>2. IInv'
  BY <1>1 DEF IInv, CallFits, Timed, IsSend, IsRecv
<1>3. ASSUME NEW k \in Node, NEW r, Fails(k, r)
      PROVE  k = n /\ call[n].at # "Done" /\ c = Done(r)
  BY <1>1, <1>3, Ended DEF Fails, Free
<1> QED BY <1>2, <1>3 DEF HonestStep, HonestEnd

-----------------------------------------------------------------------------
(* The operators that decide where a send goes on.                         *)

(* An await of the driver or of the separation time, or no time left.      *)
LEMMA AwaitsFits ==
    ASSUME NEW n \in Node, NEW b, IsSend(b), b.fc <= 0, NEW at \in {"Pace", "SegmentOut"},
           at = "SegmentOut" => b.since * Tick >= b.s.st_min \/ b.left <= 0,
           NEW old, old.left = b.left
    PROVE  LET c == Awaits(b, at, "NAs") IN CallFits(n, c) /\ HonestEnd(n, old, c)
<1>1. CASE b.left < 0
  <2>1. Awaits(b, at, "NAs") = Done("NAs")
    BY <1>1 DEF Awaits
  <2>2. HonestEnd(n, old, Done("NAs"))
    BY <1>1, Ended DEF HonestEnd, IsSend
  <2> QED BY <2>1, <2>2, EndFits
<1>2. CASE ~(b.left < 0)
  <2> DEFINE c == [b EXCEPT !.at = at]
  <2>1. Awaits(b, at, "NAs") = c
    BY <1>2 DEF Awaits
  <2>2. c.at = at /\ IsSend(c) /\ c.fc = b.fc /\ c.left = b.left /\ c.since = b.since /\ c.s = b.s
    BY DEF IsSend, SendFields
  <2> HIDE DEF c
  <2>3. Timed(n, c)
    BY <2>2 DEF Timed, FcAwaits
  <2>4. CallFits(n, c) /\ c.at # "Done"
    BY <2>2, <2>3 DEF CallFits, SendAwaits
  <2> QED BY <2>1, <2>4, NoEnd
<1> QED BY <1>1, <1>2

(* The top of the loop of a wait.                                          *)
LEMMA CheckWaitFits ==
    ASSUME NEW n \in Node, NEW b, IsSend(b), Timer(Cfg[n].n_bs) > 0 \/ b.fc <= 0,
           NEW old, b.fc <= 0 => old.fc <= 0
    PROVE  LET c == CheckWait(b) IN CallFits(n, c) /\ HonestEnd(n, old, c)
<1>1. CASE b.fc <= 0
  <2>1. CheckWait(b) = Done("NBs")
    BY <1>1 DEF CheckWait
  <2>2. HonestEnd(n, old, Done("NBs"))
    BY <1>1, Ended DEF HonestEnd
  <2> QED BY <2>1, <2>2, EndFits
<1>2. CASE ~(b.fc <= 0)
  <2> DEFINE c == [b EXCEPT !.at = "FcArm", !.kind = "None"]
  <2>1. CheckWait(b) = c
    BY <1>2 DEF CheckWait
  <2>2. c.at = "FcArm" /\ IsSend(c) /\ c.fc = b.fc
    BY DEF IsSend, SendFields
  <2> HIDE DEF c
  <2>3. Timed(n, c)
    BY <1>2, <2>2 DEF Timed, FcAwaits, IsSend
  <2>4. CallFits(n, c) /\ c.at # "Done"
    BY <2>2, <2>3 DEF CallFits, SendAwaits
  <2> QED BY <2>1, <2>4, NoEnd
<1> QED BY <1>1, <1>2

(* A wait starts: with no time for it at all it is over at once.           *)
LEMMA StartWaitFits ==
    ASSUME NEW n \in Node, NEW b, IsSend(b),
           NEW old, Timer(Cfg[n].n_bs) > 0 \/ old.fc <= 0
    PROVE  LET c == StartWait(n, b) IN CallFits(n, c) /\ HonestEnd(n, old, c)
<1> DEFINE t == Timer(Cfg[n].n_bs)
           w == [b EXCEPT !.fc = t]
<1>1. t \in Nat
  BY Timers
<1>2. IsSend(w) /\ w.fc = t
  BY <1>1 DEF IsSend, SendFields
<1>3. t > 0 \/ w.fc <= 0
  BY <1>1, <1>2
<1>4. w.fc <= 0 => old.fc <= 0
  BY <1>1, <1>2
<1>5. StartWait(n, b) = CheckWait(w)
  BY DEF StartWait
<1> HIDE DEF w
<1> QED BY <1>2, <1>3, <1>4, <1>5, CheckWaitFits

(* The top of the loop of send.                                            *)
LEMMA ContinuesFits ==
    ASSUME NEW n \in Node, NEW b, IsSend(b), b.fc <= 0,
           NEW old, old.left = b.left, Timer(Cfg[n].n_bs) > 0 \/ old.fc <= 0
    PROVE  LET c == Continues(n, b) IN CallFits(n, c) /\ HonestEnd(n, old, c)
<1> DEFINE c == Continues(n, b)
<1> SUFFICES CallFits(n, c) /\ HonestEnd(n, old, c)
  OBVIOUS
<1>1. \/ c = Done("Completed")
      \/ c = StartWait(n, b)
      \/ c = Awaits(b, "Pace", "NAs")
      \/ ~(b.since * Tick < b.s.st_min) /\ c = Awaits(b, "SegmentOut", "NAs")
  BY DEF Continues
<1> HIDE DEF c
<1>2. CASE c = Done("Completed")
  BY <1>2, Ended, EndFits DEF HonestEnd
<1>3. CASE c = StartWait(n, b)
  BY <1>3, StartWaitFits
<1>4. CASE c = Awaits(b, "Pace", "NAs")
  BY <1>4, AwaitsFits
<1>5. CASE ~(b.since * Tick < b.s.st_min) /\ c = Awaits(b, "SegmentOut", "NAs")
  <2>1. b.since * Tick \in Int /\ b.s.st_min \in Int
    BY TickAssumption DEF IsSend
  <2>2. b.since * Tick >= b.s.st_min
    BY <1>5, <2>1
  <2> QED BY <1>5, <2>2, AwaitsFits
<1> QED BY <1>1, <1>2, <1>3, <1>4, <1>5

(* An await of recv, or no time left.                                      *)
LEMMA RecvFits ==
    ASSUME NEW n \in Node, NEW b, IsRecv(b), NEW at \in RecvAwaits,
           NEW e \in {"NAs", "NAr", "RxOverflow"}
    PROVE  LET c == Awaits(b, at, e) IN CallFits(n, c) /\ HonestEnd(n, b, c)
<1>1. CASE b.left < 0
  <2>1. Awaits(b, at, e) = Done(e)
    BY <1>1 DEF Awaits
  <2>2. HonestEnd(n, b, Done(e))
    BY <1>1, Ended DEF HonestEnd, IsRecv
  <2> QED BY <2>1, <2>2, EndFits
<1>2. CASE ~(b.left < 0)
  <2> DEFINE c == [b EXCEPT !.at = at]
  <2>1. Awaits(b, at, e) = c
    BY <1>2 DEF Awaits
  <2>2. c.at = at /\ IsRecv(c)
    BY DEF IsRecv
  <2> HIDE DEF c
  <2>3. CallFits(n, c) /\ c.at # "Done"
    BY <2>2 DEF CallFits, RecvAwaits
  <2> QED BY <2>1, <2>3, NoEnd
<1> QED BY <1>1, <1>2

-----------------------------------------------------------------------------
(* The steps of a send.                                                    *)

(* What is known of a call from where it stands.                           *)
LEMMA Standing ==
    ASSUME IInv, NEW n \in Node
    PROVE  /\ call[n].at \in SendAwaits => IsSend(call[n]) /\ Timed(n, call[n])
           /\ call[n].at \in RecvAwaits => IsRecv(call[n])
BY DEF IInv, CallFits, SendAwaits, RecvAwaits

(* A call ends with something that is neither a timeout nor a panic.       *)
LEMMA PlainEnd ==
    ASSUME NEW n, NEW b, NEW r, r \notin {"NAs", "NAr", "NBs", "Panic"}
    PROVE  CallFits(n, Done(r)) /\ HonestEnd(n, b, Done(r))
BY Ended, EndFits DEF HonestEnd

(* A frame of a send goes out.                                             *)
LEMMA SentFits ==
    ASSUME IInv, NEW n \in Node, SingleAccepted(n) \/ FirstAccepted(n) \/ SegmentAccepted(n)
    PROVE  IInv' /\ HonestStep
<1> DEFINE b == call[n]
<1> SUFFICES \E c : Goes(n, c) /\ CallFits(n, c) /\ HonestEnd(n, b, c)
  BY Moved DEF HonestEnd
<1>1. CASE SingleAccepted(n)
  BY <1>1, PlainEnd DEF SingleAccepted
<1>2. CASE FirstAccepted(n)
  <2>1. IsSend(b) /\ b.fc <= 0
    BY <1>2, Standing DEF FirstAccepted, Timed, SendAwaits, FcAwaits
  <2>2. Goes(n, StartWait(n, b))
    BY <1>2 DEF FirstAccepted
  <2> QED BY <2>1, <2>2, StartWaitFits
<1>3. CASE SegmentAccepted(n)
  <2> DEFINE a == AfterSegment(n, b)
  <2>1. IsSend(b) /\ b.fc <= 0
    BY <1>3, Standing DEF SegmentAccepted, Timed, SendAwaits, FcAwaits
  <2>2. IsSend(a) /\ a.fc = b.fc /\ a.left = b.left
    <3>1. /\ DOMAIN a = SendFields /\ a.fc = b.fc /\ a.left = b.left /\ a.since = 0
          /\ DOMAIN a.s = SessionFields
      BY <2>1 DEF AfterSegment, IsSend, SendFields
    <3>2. a.s.wait_count = b.s.wait_count /\ a.s.st_min = b.s.st_min
      BY <2>1 DEF AfterSegment, IsSend, SendFields, SessionFields
    <3> HIDE DEF a
    <3> QED BY <2>1, <3>1, <3>2, NodeAssumption DEF IsSend
  <2>3. Goes(n, Continues(n, a))
    BY <1>3 DEF SegmentAccepted
  <2> HIDE DEF a, b
  <2> QED BY <2>1, <2>2, <2>3, ContinuesFits
<1> QED BY <1>1, <1>2, <1>3

(* The separation time is over, or the time of the call.                   *)
LEMMA WakesFits ==
    ASSUME IInv, NEW n \in Node, Wakes(n)
    PROVE  IInv' /\ HonestStep
<1> DEFINE b == call[n]
<1>1. IsSend(b) /\ b.fc <= 0 /\ NapOver(b) /\ Goes(n, Awaits(b, "SegmentOut", "NAs"))
  BY Standing DEF Wakes, Timed, SendAwaits, FcAwaits
<1> HIDE DEF b
<1>2. CallFits(n, Awaits(b, "SegmentOut", "NAs")) /\ HonestEnd(n, b, Awaits(b, "SegmentOut", "NAs"))
  BY <1>1, AwaitsFits DEF NapOver
<1> QED BY <1>1, <1>2, Moved DEF b, HonestEnd

(* The second reading of the clock decides the kind of the timeout.        *)
LEMMA ArmWaitFits ==
    ASSUME IInv, NEW n \in Node, ArmWait(n)
    PROVE  IInv' /\ HonestStep
<1> DEFINE b == call[n]
           k == [b EXCEPT !.kind = ExpiryKind(b)]
           c == IF b.fc < 0 THEN Done("Panic") ELSE Awaits(k, "FcIn", "NAs")
<1>1. IsSend(b) /\ Timed(n, b) /\ b.at = "FcArm" /\ Goes(n, c)
  BY Standing DEF ArmWait, SendAwaits
<1>2. IsSend(k) /\ k.left = b.left /\ k.fc = b.fc /\ k.kind = ExpiryKind(b)
  BY <1>1 DEF IsSend, SendFields
<1> HIDE DEF b, k
<1>3. CallFits(n, c) /\ HonestEnd(n, b, c)
  <2>1. CASE b.fc < 0
    <3>1. ~Prompt
      BY <1>1, <2>1 DEF Timed, IsSend
    <3> QED BY <2>1, <3>1, Ended, EndFits DEF HonestEnd
  <2>2. CASE ~(b.fc < 0) /\ k.left < 0
    <3>1. c = Done("NAs")
      BY <2>2 DEF Awaits
    <3>2. HonestEnd(n, b, Done("NAs"))
      BY <1>2, <2>2, Ended DEF HonestEnd, IsSend
    <3> QED BY <3>1, <3>2, EndFits
  <2>3. CASE ~(b.fc < 0) /\ ~(k.left < 0)
    <3> DEFINE d == [k EXCEPT !.at = "FcIn"]
    <3>1. c = d
      BY <2>3 DEF Awaits
    <3>2. d.at = "FcIn" /\ IsSend(d) /\ d.left = b.left /\ d.fc = b.fc /\ d.kind = ExpiryKind(b)
      BY <1>2 DEF IsSend, SendFields
    <3> HIDE DEF d
    <3>3. Timed(n, d)
      BY <1>1, <3>2 DEF Timed, FcAwaits, ExpiryKind, IsSend
    <3>4. CallFits(n, d) /\ d.at # "Done"
      BY <3>2, <3>3 DEF CallFits, SendAwaits
    <3> QED BY <3>1, <3>4, NoEnd
  <2> QED BY <2>1, <2>2, <2>3
<1> QED BY <1>1, <1>3, Moved DEF b, HonestEnd

(* Flow Control, or another frame, is heard during a wait.                 *)
LEMMA HeardFits ==
    ASSUME IInv, NEW n \in Node,
           WaitSkips(n) \/ WaitBroken(n) \/ GotClearToSend(n) \/ GotWait(n) \/ GotOverflow(n)
    PROVE  IInv' /\ HonestStep
<1> DEFINE b == call[n]
<1>1. b.at = "FcIn"
  BY DEF WaitSkips, WaitBroken, GotClearToSend, GotWait, GotOverflow, GotFc, Hears
<1>2. IsSend(b) /\ Timer(Cfg[n].n_bs) > 0
  BY <1>1, Standing DEF SendAwaits, FcAwaits, Timed
<1> SUFFICES \E c : Goes(n, c) /\ CallFits(n, c) /\ HonestEnd(n, b, c)
  BY Moved DEF HonestEnd
<1>3. CASE WaitSkips(n)
  BY <1>2, <1>3, CheckWaitFits DEF WaitSkips
<1>4. CASE WaitBroken(n)
  BY <1>4, PlainEnd DEF WaitBroken
<1>5. CASE GotOverflow(n)
  BY <1>5, PlainEnd DEF GotOverflow
<1>6. CASE GotClearToSend(n)
  <2> DEFINE s == Cleared(Cfg[n], b.s, Head(inbox[n]))
             a == [b EXCEPT !.s = s, !.fc = 0, !.kind = "None"]
  <2>1. Goes(n, Continues(n, a))
    BY <1>6 DEF GotClearToSend
  <2>2. DOMAIN s = SessionFields /\ s.wait_count = 0 /\ s.st_min \in Nat
    BY <1>2, Timers DEF Cleared, IsSend, SessionFields, st_min_to_duration
  <2> HIDE DEF s
  <2>3. IsSend(a) /\ a.fc = 0 /\ a.left = b.left
    BY <1>2, <2>2 DEF IsSend, SendFields
  <2> HIDE DEF a, b
  <2> QED BY <1>2, <2>1, <2>3, ContinuesFits
<1>7. CASE GotWait(n)
  <2> DEFINE s == Waited(b.s)
             a == [b EXCEPT !.s = s]
             c == IF a.s.wait_count > Cfg[n].wft_max THEN Done("NBs") ELSE StartWait(n, a)
  <2>1. Goes(n, c)
    BY <1>7 DEF GotWait
  <2>2. /\ DOMAIN s = SessionFields /\ s.st_min \in Nat
        /\ s.wait_count \in Nat /\ s.wait_count <= b.s.wait_count + 1
    BY <1>2 DEF Waited, Lesser, IsSend, SessionFields
  <2> HIDE DEF s
  <2>3. IsSend(a) /\ a.s = s
    BY <1>2, <2>2 DEF IsSend, SendFields
  <2> HIDE DEF a
  <2>4. CASE a.s.wait_count > Cfg[n].wft_max
    <3>1. b.s.wait_count >= Cfg[n].wft_max
      BY <1>2, <2>2, <2>3, <2>4, Timers DEF IsSend
    <3>2. HonestEnd(n, b, Done("NBs"))
      BY <3>1, Ended DEF HonestEnd
    <3> QED BY <2>1, <2>4, <3>2, EndFits
  <2>5. CASE ~(a.s.wait_count > Cfg[n].wft_max)
    BY <1>2, <2>1, <2>3, <2>5, StartWaitFits
  <2> QED BY <2>4, <2>5
<1> QED BY <1>3, <1>4, <1>5, <1>6, <1>7

(* The wait is over: the deadline that comes first has passed.             *)
LEMMA WaitExpiresFits ==
    ASSUME IInv, NEW n \in Node, WaitExpires(n)
    PROVE  IInv' /\ HonestStep
<1> DEFINE b == call[n]
<1>1. b.at = "FcIn" /\ (b.left <= 0 \/ b.fc <= 0) /\ Goes(n, Done(b.kind))
  BY DEF WaitExpires
<1>2. IsSend(b) /\ Timed(n, b)
  BY <1>1, Standing DEF SendAwaits
<1> HIDE DEF b
<1>3. HonestEnd(n, b, Done(b.kind))
  <2>1. \/ b.kind = "NAs" /\ b.left <= 0
        \/ b.kind = "NBs" /\ b.fc <= 0
    BY <1>1, <1>2 DEF Timed, IsSend
  <2> QED BY <2>1, Ended DEF HonestEnd
<1> QED BY <1>1, <1>3, EndFits, Moved DEF b, HonestEnd

-----------------------------------------------------------------------------
(* The other steps.                                                        *)

(* The receive machine returns one of its outcomes.                        *)
LEMMA OutcomeKnown ==
    ASSUME NEW c, NEW m, NEW pdu
    PROVE  on_pdu(c, m, pdu).out \in Outcomes
<1>1. ASSUME NEW k, NEW o \in Outcomes PROVE Returns(k, o).out \in Outcomes
  BY DEF Returns
<1>2. ASSUME NEW k PROVE AfterChunk(k).out \in Outcomes
  BY <1>1 DEF AfterChunk, Outcomes
<1>3. handle_single(c, m, pdu).out \in Outcomes
  BY <1>1 DEF handle_single, Outcomes, Errors
<1>4. handle_first(c, m, pdu).out \in Outcomes
  BY <1>1 DEF handle_first, Outcomes, Errors
<1>5. handle_consecutive(c, m, pdu).out \in Outcomes
  BY <1>1, <1>2 DEF handle_consecutive, Outcomes, Errors
<1>6. Returns(m, "UnexpectedPdu").out \in Outcomes
  BY <1>1 DEF Outcomes, Errors
<1> QED BY <1>3, <1>4, <1>5, <1>6 DEF on_pdu

(* recv goes on to its next await, or returns.                             *)
LEMMA RecvStepFits ==
    ASSUME IInv, NEW n \in Node, RecvStep(n)
    PROVE  IInv' /\ HonestStep
<1> DEFINE b == call[n]
<1>1. b.at \in RecvAwaits
  BY DEF RecvStep, RecvSkips, RecvBroken, RecvPdu, GrantAccepted, OverflowAccepted,
         RecvExpires, Hears, RecvAwaits
<1>2. IsRecv(b)
  BY <1>1, Standing
<1>3. CallFits(n, NextFrameIn(b)) /\ HonestEnd(n, b, NextFrameIn(b))
  BY <1>2, RecvFits DEF NextFrameIn, RecvAwaits
<1> SUFFICES \E c : Goes(n, c) /\ CallFits(n, c) /\ HonestEnd(n, b, c)
  BY Moved DEF HonestEnd
<1>4. CASE RecvSkips(n) \/ GrantAccepted(n)
  BY <1>3, <1>4 DEF RecvSkips, GrantAccepted
<1>5. CASE RecvBroken(n) \/ OverflowAccepted(n)
  BY <1>5, PlainEnd DEF RecvBroken, OverflowAccepted
<1>6. CASE RecvExpires(n)
  <2>1. Goes(n, Done("NAr")) /\ b.left <= 0
    BY <1>6 DEF RecvExpires
  <2>2. HonestEnd(n, b, Done("NAr"))
    BY <2>1, Ended DEF HonestEnd
  <2> QED BY <2>1, <2>2, EndFits
<1>7. CASE RecvPdu(n)
  <2>1. PICK r : r = on_pdu(Cfg[n], rx[n], Head(inbox[n])) /\ Goes(n, Handled(b, r.out))
    BY <1>7 DEF RecvPdu
  <2>2. r.out \in Outcomes
    BY <2>1, OutcomeKnown
  <2> DEFINE c == Handled(b, r.out)
  <2> SUFFICES CallFits(n, c) /\ HonestEnd(n, b, c)
    BY <2>1
  <2>3. \/ c = NextFrameIn(b) \/ c = Done("BadSequence") \/ c = Done("Completed")
        \/ c = Awaits(b, "GrantOut", "NAs") \/ c = Awaits(b, "OverflowOut", "RxOverflow")
    BY <2>2 DEF Handled, Outcomes, Errors
  <2> HIDE DEF c
  <2>4. CASE c = NextFrameIn(b)
    BY <1>3, <2>4
  <2>5. CASE c = Done("BadSequence") \/ c = Done("Completed")
    BY <2>5, PlainEnd
  <2>6. CASE c = Awaits(b, "GrantOut", "NAs") \/ c = Awaits(b, "OverflowOut", "RxOverflow")
    BY <1>2, <2>6, RecvFits DEF RecvAwaits
  <2> QED BY <2>3, <2>4, <2>5, <2>6
<1> QED BY <1>4, <1>5, <1>6, <1>7 DEF RecvStep

(* An application calls send or recv.                                      *)
LEMMA StartsFit ==
    ASSUME IInv, NEW n \in Node,
           \/ \E timeout \in RecvTimeouts : StartRecv(n, timeout)
           \/ \E m \in Msg, timeout \in SendTimeouts :
                 RefuseSend(n, m, timeout) \/ StartSend(n, m, timeout)
    PROVE  IInv' /\ HonestStep
<1> SUFFICES \E c : Goes(n, c) /\ CallFits(n, c) /\ call[n].at = "Done" /\ c # Done("Panic")
  BY Moved
<1>1. ASSUME NEW timeout \in RecvTimeouts, StartRecv(n, timeout)
      PROVE  \E c : Goes(n, c) /\ CallFits(n, c) /\ call[n].at = "Done" /\ c # Done("Panic")
  <2> DEFINE c == RecvCall(timeout)
  <2>1. c.at = "FrameIn" /\ IsRecv(c)
    BY NodeAssumption DEF RecvCall, IsRecv
  <2>2. Goes(n, c) /\ call[n].at = "Done"
    BY <1>1 DEF StartRecv, Free
  <2> HIDE DEF c
  <2> QED BY <2>1, <2>2, Ended DEF CallFits, RecvAwaits
<1>2. ASSUME NEW m \in Msg, NEW timeout \in SendTimeouts, RefuseSend(n, m, timeout)
      PROVE  \E c : Goes(n, c) /\ CallFits(n, c) /\ call[n].at = "Done" /\ c # Done("Panic")
  BY <1>2, Ended, EndFits DEF RefuseSend, MaySend, Free
<1>3. ASSUME NEW m \in Msg, NEW timeout \in SendTimeouts, StartSend(n, m, timeout)
      PROVE  \E c : Goes(n, c) /\ CallFits(n, c) /\ call[n].at = "Done" /\ c # Done("Panic")
  <2>1. PICK at \in {"SingleOut", "FirstOut"} : Goes(n, SendCall(n, at, m, timeout))
    BY <1>3 DEF StartSend
  <2> DEFINE s == NewSession(Cfg[n], Payload(m))
             c == SendCall(n, at, m, timeout)
  <2>2. DOMAIN s = SessionFields /\ s.wait_count = 0 /\ s.st_min \in Nat
    BY Timers DEF NewSession, SessionFields
  <2> HIDE DEF s
  <2>3. c.at = at /\ IsSend(c) /\ c.fc = 0
    BY <2>2, NodeAssumption DEF SendCall, IsSend, SendFields, s
  <2>4. call[n].at = "Done" /\ Goes(n, c)
    BY <1>3, <2>1 DEF StartSend, MaySend, Free
  <2> HIDE DEF c
  <2>5. Timed(n, c)
    BY <2>3 DEF Timed, FcAwaits
  <2> QED BY <2>3, <2>4, <2>5, Ended DEF CallFits, SendAwaits
<1> QED BY <1>1, <1>2, <1>3

(* A call ends at an await of the driver.                                  *)
LEMMA CutOffFits ==
    ASSUME IInv, NEW n \in Node, OutExpires(n) \/ DriverFails(n) \/ Dropped(n)
    PROVE  IInv' /\ HonestStep
<1> DEFINE b == call[n]
<1> SUFFICES \E c : Goes(n, c) /\ CallFits(n, c) /\ HonestEnd(n, b, c)
  BY Moved DEF HonestEnd
<1>1. CASE OutExpires(n)
  <2>1. b.left <= 0 /\ Goes(n, Done(OutError(n, "NAs")))
    BY <1>1 DEF OutExpires
  <2>2. OutError(n, "NAs") \in {"NAs", "RxOverflow"}
    BY DEF OutError
  <2>3. HonestEnd(n, b, Done(OutError(n, "NAs")))
    BY <2>1, <2>2, Ended DEF HonestEnd
  <2> QED BY <2>1, <2>3, EndFits
<1>2. CASE DriverFails(n)
  BY <1>2, PlainEnd DEF DriverFails, OutError
<1>3. CASE Dropped(n)
  BY <1>3, PlainEnd DEF Dropped
<1> QED BY <1>1, <1>2, <1>3

(* A tick leaves a call where it stands, and its deadlines in their order. *)
LEMMA LaterFits ==
    ASSUME NEW n \in Node, NEW b, CallFits(n, b), Prompt => b.at # "FcArm"
    PROVE  /\ CallFits(n, LaterCall(b))
           /\ LaterCall(b).at = b.at
           /\ b.at = "Done" => LaterCall(b) = b
<1> DEFINE c == LaterCall(b)
<1>1. CASE b.at = "Done"
  BY <1>1 DEF LaterCall, CallFits
<1>2. CASE b.at \in RecvAwaits
  <2>1. c = [b EXCEPT !.left = Down(@)]
    BY <1>2 DEF LaterCall, RecvAwaits, SendAwaits
  <2>2. c.at = b.at /\ IsRecv(c)
    BY <1>2, <2>1 DEF CallFits, RecvAwaits, SendAwaits, IsRecv, Down
  <2> HIDE DEF c
  <2> QED BY <1>2, <2>2 DEF CallFits, c, RecvAwaits
<1>3. CASE b.at \in SendAwaits
  <2>1. IsSend(b) /\ Timed(n, b) /\ b.at # "Done"
    BY <1>3 DEF CallFits, RecvAwaits, SendAwaits
  <2>2. c = [b EXCEPT !.left = Down(@), !.since = Lesser(@ + 1, LongAgo),
                      !.fc = IF b.at \in FcAwaits THEN Down(@) ELSE @]
    BY <1>3, <2>1 DEF LaterCall, FcAwaits
  <2>3. /\ DOMAIN c = SendFields /\ c.at = b.at /\ c.s = b.s /\ c.kind = b.kind
        /\ c.left = Down(b.left) /\ c.since = Lesser(b.since + 1, LongAgo)
        /\ c.fc = IF b.at \in FcAwaits THEN Down(b.fc) ELSE b.fc
    BY <2>1, <2>2 DEF IsSend, SendFields
  <2> HIDE DEF c
  <2>4. /\ c.left \in Int /\ c.left <= b.left /\ c.fc \in Int
        /\ c.since \in Nat /\ c.since <= LongAgo /\ c.since >= b.since
    BY <2>1, <2>3, NodeAssumption DEF IsSend, Down, Lesser
  <2>5. IsSend(c)
    BY <2>1, <2>3, <2>4 DEF IsSend
  <2>6. Timed(n, c)
    <3>1. c.since * Tick >= b.since * Tick
      BY <2>1, <2>4, TickAssumption DEF IsSend
    <3>2. b.since * Tick \in Nat /\ c.since * Tick \in Nat /\ b.s.st_min \in Nat
      BY <2>1, <2>4, TickAssumption DEF IsSend
    <3>3. c.at = "SegmentOut" => c.since * Tick >= c.s.st_min \/ c.left <= 0
      <4>1. c.at = "SegmentOut" => b.since * Tick >= b.s.st_min \/ b.left <= 0
        BY <2>1, <2>3 DEF Timed
      <4>2. b.left \in Int
        BY <2>1 DEF IsSend
      <4> QED BY <2>3, <2>4, <3>1, <3>2, <4>1, <4>2
    <3>4. c.at = "FcIn" => \/ c.kind = "NAs" /\ c.left <= c.fc
                           \/ c.kind = "NBs" /\ c.fc <= c.left
      BY <2>1, <2>3 DEF Timed, IsSend, Down, FcAwaits
    <3> QED BY <2>1, <2>3, <3>3, <3>4 DEF Timed
  <2> QED BY <1>3, <2>1, <2>3, <2>5, <2>6 DEF CallFits, c
<1> QED BY <1>1, <1>2, <1>3 DEF CallFits

(* Time passes.                                                            *)
LEMMA AdvanceFits ==
    ASSUME IInv, Advance
    PROVE  IInv' /\ HonestStep
<1>1. call' = [n \in Node |-> LaterCall(call[n])] /\ (Prompt => \A n \in Node : call[n].at # "FcArm")
  BY DEF Advance
<1>2. ASSUME NEW n \in Node
      PROVE  /\ CallFits(n, call'[n]) /\ call'[n].at = call[n].at
             /\ call[n].at = "Done" => call'[n] = call[n]
  BY <1>1, LaterFits DEF IInv
<1>3. ASSUME NEW n \in Node, NEW r, call'[n] = Done(r) PROVE call'[n] = call[n]
  BY <1>2, <1>3, Ended
<1>4. IInv'
  <2>1. DOMAIN call' = Node
    BY <1>1
  <2>2. ASSUME NEW n \in Node PROVE CallFits(n, call[n])' /\ (Prompt => call'[n] # Done("Panic"))
    <3>1. CallFits(n, call[n])'
      BY <1>2 DEF CallFits, Timed, IsSend, IsRecv
    <3> QED BY <1>3, <3>1 DEF IInv
  <2> QED BY <2>1, <2>2 DEF IInv
<1>5. \A n \in Node : \A r : ~Fails(n, r)
  BY <1>2, Ended DEF Fails, Free
<1> QED BY <1>4, <1>5 DEF HonestStep

(* Nothing happens to the calls.                                           *)
LEMMA QuietFits ==
    ASSUME IInv, call' = call
    PROVE  IInv' /\ HonestStep
<1>1. \A n \in Node : \A r : ~Fails(n, r)
  BY Ended DEF Fails, Free
<1>2. IInv'
  BY DEF IInv, CallFits, Timed, IsSend, IsRecv
<1> QED BY <1>1, <1>2 DEF HonestStep

-----------------------------------------------------------------------------
(* No call is in progress at first.                                        *)
LEMMA InitIInv == Init => IInv
<1> SUFFICES ASSUME Init PROVE IInv
  OBVIOUS
<1>1. DOMAIN call = Node /\ \A n \in Node : call[n] = Done("None")
  BY DEF Init
<1> QED BY <1>1, Ended, EndFits DEF IInv

(* Every step keeps the invariant, and reports no timeout that was none.   *)
LEMMA NextIInv == IInv /\ [Next]_vars => IInv' /\ HonestStep
<1> SUFFICES ASSUME IInv, [Next]_vars PROVE IInv' /\ HonestStep
  OBVIOUS
<1>1. ASSUME NEW n \in Node, Task(n) PROVE IInv' /\ HonestStep
  <2>1. CASE SendStep(n)
    BY <2>1, SentFits, WakesFits, ArmWaitFits, HeardFits, WaitExpiresFits DEF SendStep
  <2> QED BY <1>1, <2>1, RecvStepFits, CutOffFits, StartsFit DEF Task, Resumes, Awaited
<1>2. CASE Environment
  <2>1. PICK n \in Node :
            \/ \E m \in Msg, timeout \in SendTimeouts :
                  RefuseSend(n, m, timeout) \/ StartSend(n, m, timeout)
            \/ DriverFails(n) \/ Dropped(n) \/ Lose(n) \/ Interfere(n)
    BY <1>2 DEF Environment
  <2>2. CASE Lose(n) \/ Interfere(n)
    BY <2>2, QuietFits DEF Lose, Interfere
  <2> QED BY <2>1, <2>2, StartsFit, CutOffFits
<1>3. CASE Ticks
  BY <1>3, AdvanceFits DEF Ticks
<1>4. CASE UNCHANGED vars
  BY <1>4, QuietFits DEF vars
<1> QED BY <1>1, <1>2, <1>3, <1>4 DEF Next

(* The inductive invariant: where every call stands, and in what order its *)
(* deadlines are.                                                          *)
THEOREM StaysTimed == Spec => []IInv
<1> QED BY InitIInv, NextIInv, PTL DEF Spec

(* A timeout names what ran out: the caller's own time, the wait for Flow  *)
(* Control, or the Waits the configuration allows                          *)
(* (wait_for_flow_control chooses the kind before it awaits).              *)
THEOREM TimeoutsAreHonest == Spec => TimeoutIsHonest
<1>1. IInv /\ [Next]_vars =>
          [\A n \in Node :
              /\ Fails(n, "NAs") => call[n].left <= 0
              /\ Fails(n, "NAr") => call[n].left <= 0
              /\ Fails(n, "NBs") => \/ call[n].fc <= 0
                                    \/ call[n].s.wait_count >= Cfg[n].wft_max]_vars
  BY NextIInv DEF HonestStep
<1> QED BY <1>1, StaysTimed, PTL DEF Spec, TimeoutIsHonest

(* send unwinds only if the clock moves between the two readings of        *)
(* wait_for_flow_control: with both in one tick n_bs - elapsed is never    *)
(* below zero.                                                             *)
THEOREM PromptNeverPanics == Prompt => (Spec => []NeverPanics)
<1> SUFFICES ASSUME Prompt PROVE Spec => []NeverPanics
  OBVIOUS
<1>1. IInv => NeverPanics
  BY DEF IInv, NeverPanics
<1> QED BY <1>1, StaysTimed, PTL

-----------------------------------------------------------------------------
(* The distance between Consecutive Frames.                                *)

Asked(n) == Cfg[Peer[n]].st_min

InboxPaced == DOMAIN inbox = Node /\ \A n \in Node : GrantsName(inbox[n], Asked(n))

PacedCall(n, c) == c.at \in {"Pace", "SegmentOut"} => c.s.st_min >= Asked(n)

CallsPaced == \A n \in Node : PacedCall(n, call[n])

PaceInv == IInv /\ InboxPaced /\ CallsPaced

(* Every endpoint asks for a separation time that can be encoded, and no   *)
(* other station grants anything in its name. *)
PacesEncodable == \A n \in Node : Encodes(Cfg[n].st_min)
NoForeignGrants == \A f \in Noise : ~IsGrant(f)

(* What an endpoint sends grants at its own pace.                          *)
LEMMA OutgoingNames ==
    ASSUME PacesEncodable, NEW n \in Node, call[n].at \in OutAwaits, IsGrant(Outgoing(n))
    PROVE  Names(Outgoing(n).st_min, Cfg[n].st_min)
<1>1. Names(duration_to_st_min(Cfg[n].st_min), Cfg[n].st_min)
  BY Timers, EncodedNames DEF PacesEncodable
<1>2. CASE call[n].at \in {"SingleOut", "FirstOut", "SegmentOut"}
  BY <1>2 DEF Outgoing, IsGrant, SingleFrame, FirstFrameOf, FirstFrame, NextFrame,
              ConsecutiveFrame
<1>3. CASE call[n].at \in {"GrantOut", "OverflowOut"}
  BY <1>1, <1>3 DEF Outgoing, Grant, OverflowFc, FlowControl
<1> QED BY <1>2, <1>3 DEF OutAwaits

(* The queues of both ends.                                                *)
LEMMA InboxKept ==
    ASSUME PacesEncodable, InboxPaced, NEW n \in Node,
           \/ UNCHANGED inbox
           \/ Take(n) /\ inbox[n] # <<>>
           \/ Put(n, Outgoing(n)) /\ call[n].at \in OutAwaits
    PROVE  InboxPaced'
<1>1. CASE UNCHANGED inbox
  BY <1>1 DEF InboxPaced, Asked
<1>2. CASE Take(n) /\ inbox[n] # <<>>
  BY <1>2, QueueNames DEF InboxPaced, Asked, Take
<1>3. CASE Put(n, Outgoing(n)) /\ call[n].at \in OutAwaits
  <2>1. Peer[n] \in Node /\ Peer[Peer[n]] = n
    BY NodeAssumption
  <2>2. GrantsName(Append(inbox[Peer[n]], Outgoing(n)), Cfg[n].st_min)
    BY <1>3, <2>1, OutgoingNames, QueueNames DEF InboxPaced, Asked
  <2> QED BY <1>3, <2>1, <2>2 DEF InboxPaced, Asked, Put
<1> QED BY <1>1, <1>2, <1>3

(* One call moves on.                                                      *)
LEMMA PacedMove ==
    ASSUME IInv, CallsPaced, NEW n \in Node, NEW c, Goes(n, c), PacedCall(n, c)
    PROVE  CallsPaced'
<1>1. \A k \in Node : call'[k] = IF k = n THEN c ELSE call[k]
  BY DEF Goes, IInv
<1> QED BY <1>1 DEF CallsPaced, PacedCall, Asked

(* A call goes on with the session it had.                                 *)
LEMMA AwaitsAt ==
    ASSUME NEW b, "at" \in DOMAIN b, NEW at, NEW e
    PROVE  LET c == Awaits(b, at, e) IN c.at \in {"Done", at} /\ (c.at # "Done" => c.s = b.s)
<1>1. CASE b.left < 0
  BY <1>1, Ended DEF Awaits
<1>2. CASE ~(b.left < 0)
  <2> DEFINE c == [b EXCEPT !.at = at]
  <2>1. c.s = b.s /\ c.at = at
    OBVIOUS
  <2> QED BY <1>2, <2>1 DEF Awaits
<1> QED BY <1>1, <1>2

(* A wait that starts or goes on is not about to send.                     *)
LEMMA WaitAt ==
    ASSUME NEW n, NEW b, IsSend(b)
    PROVE  CheckWait(b).at \in {"Done", "FcArm"} /\ StartWait(n, b).at \in {"Done", "FcArm"}
<1>1. ASSUME NEW k, DOMAIN k = SendFields PROVE CheckWait(k).at \in {"Done", "FcArm"}
  <2> DEFINE c == [k EXCEPT !.at = "FcArm", !.kind = "None"]
  <2>1. c.at = "FcArm"
    BY <1>1 DEF SendFields
  <2> QED BY <2>1, Ended DEF CheckWait
<1>2. DOMAIN [b EXCEPT !.fc = Timer(Cfg[n].n_bs)] = SendFields
  BY DEF IsSend
<1> QED BY <1>1, <1>2 DEF IsSend, StartWait

(* The loop of send goes on at the pace of the session.                    *)
LEMMA ContinuesPaced ==
    ASSUME NEW n \in Node, NEW b, IsSend(b), b.s.st_min >= Asked(n)
    PROVE  PacedCall(n, Continues(n, b))
<1> DEFINE c == Continues(n, b)
<1>1. \/ c.at \in {"Done", "FcArm"}
      \/ c = Awaits(b, "Pace", "NAs")
      \/ c = Awaits(b, "SegmentOut", "NAs")
  BY Ended, WaitAt DEF Continues
<1>2. "at" \in DOMAIN b
  BY DEF IsSend, SendFields
<1> HIDE DEF c
<1>3. c.at \in {"Pace", "SegmentOut"} => c.s = b.s
  BY <1>1, <1>2, AwaitsAt
<1> QED BY <1>3 DEF PacedCall, c

(* The steps of a send.                                                    *)
LEMMA SendStepPaced ==
    ASSUME PaceInv, NEW n \in Node, SendStep(n)
    PROVE  CallsPaced'
<1> DEFINE b == call[n]
<1>1. b.at \in SendAwaits /\ IsSend(b) /\ "at" \in DOMAIN b
  <2>1. b.at \in SendAwaits
    BY DEF SendStep, SingleAccepted, FirstAccepted, SegmentAccepted, Wakes, ArmWait, WaitSkips,
           WaitBroken, GotClearToSend, GotWait, GotOverflow, WaitExpires, GotFc, Hears,
           SendAwaits
  <2> QED BY <2>1, Standing DEF PaceInv, IsSend, SendFields
<1> SUFFICES \E c : Goes(n, c) /\ PacedCall(n, c)
  BY PacedMove DEF PaceInv
<1>2. CASE SingleAccepted(n) \/ WaitBroken(n) \/ GotOverflow(n) \/ WaitExpires(n)
  BY <1>2, Ended DEF SingleAccepted, WaitBroken, GotOverflow, WaitExpires, PacedCall
<1>3. CASE FirstAccepted(n) \/ WaitSkips(n)
  BY <1>1, <1>3, WaitAt DEF FirstAccepted, WaitSkips, PacedCall
<1>4. CASE SegmentAccepted(n)
  <2> DEFINE a == AfterSegment(n, b)
  <2>1. IsSend(a) /\ a.s.st_min = b.s.st_min
    <3>1. /\ DOMAIN a = SendFields /\ a.fc = b.fc /\ a.left = b.left /\ a.since = 0
          /\ DOMAIN a.s = SessionFields
      BY <1>1 DEF AfterSegment, IsSend, SendFields
    <3>2. a.s.wait_count = b.s.wait_count /\ a.s.st_min = b.s.st_min
      BY <1>1 DEF AfterSegment, IsSend, SendFields, SessionFields
    <3> HIDE DEF a
    <3> QED BY <1>1, <3>1, <3>2, NodeAssumption DEF IsSend
  <2>2. b.s.st_min >= Asked(n)
    BY <1>4 DEF SegmentAccepted, PaceInv, CallsPaced, PacedCall
  <2>3. Goes(n, Continues(n, a))
    BY <1>4 DEF SegmentAccepted
  <2> HIDE DEF a, b
  <2> QED BY <2>1, <2>2, <2>3, ContinuesPaced
<1>5. CASE Wakes(n)
  <2>1. b.at = "Pace" /\ Goes(n, Awaits(b, "SegmentOut", "NAs"))
    BY <1>5 DEF Wakes
  <2>2. b.s.st_min >= Asked(n)
    BY <2>1 DEF PaceInv, CallsPaced, PacedCall
  <2> QED BY <1>1, <2>1, <2>2, AwaitsAt DEF PacedCall
<1>6. CASE ArmWait(n)
  <2> DEFINE k == [b EXCEPT !.kind = ExpiryKind(b)]
             c == IF b.fc < 0 THEN Done("Panic") ELSE Awaits(k, "FcIn", "NAs")
  <2>1. Goes(n, c)
    BY <1>6 DEF ArmWait
  <2>2. "at" \in DOMAIN k
    BY <1>1
  <2> HIDE DEF k
  <2>3. c.at \in {"Done", "FcIn"}
    BY <2>2, Ended, AwaitsAt
  <2> QED BY <2>1, <2>3 DEF PacedCall
<1>7. CASE GotClearToSend(n)
  <2> DEFINE fc == Head(inbox[n])
             s == Cleared(Cfg[n], b.s, fc)
             a == [b EXCEPT !.s = s, !.fc = 0, !.kind = "None"]
  <2>1. Goes(n, Continues(n, a)) /\ inbox[n] # <<>> /\ IsGrant(fc)
    BY <1>7 DEF GotClearToSend, GotFc, Hears, IsGrant
  <2>2. Names(fc.st_min, Asked(n))
    BY <2>1, QueueNames DEF PaceInv, InboxPaced
  <2>3. /\ DOMAIN s = SessionFields /\ s.wait_count = 0
        /\ s.st_min = st_min_to_duration(fc.st_min, Cfg[n].st_min)
    BY <1>1 DEF Cleared, IsSend, SessionFields
  <2> DEFINE own == Cfg[n].st_min
             time == st_min_to_duration(fc.st_min, own)
  <2>6. own \in Nat
    BY Timers
  <2>7. time >= Asked(n)
    BY <2>2, <2>6 DEF Names
  <2>8. time \in Nat
    BY <2>6 DEF st_min_to_duration
  <2> HIDE DEF time
  <2>4. s.st_min \in Nat /\ s.st_min >= Asked(n)
    BY <2>3, <2>7, <2>8 DEF time
  <2> HIDE DEF s, own
  <2>5. IsSend(a) /\ a.s = s
    BY <1>1, <2>3, <2>4 DEF IsSend, SendFields
  <2> HIDE DEF a
  <2> QED BY <2>1, <2>4, <2>5, ContinuesPaced
<1>8. CASE GotWait(n)
  <2> DEFINE a == [b EXCEPT !.s = Waited(b.s)]
             c == IF a.s.wait_count > Cfg[n].wft_max THEN Done("NBs") ELSE StartWait(n, a)
  <2>1. Goes(n, c)
    BY <1>8 DEF GotWait
  <2>2. IsSend(a)
    <3> DEFINE s == Waited(b.s)
    <3>1. DOMAIN s = SessionFields /\ s.st_min \in Nat /\ s.wait_count \in Nat
      BY <1>1 DEF Waited, Lesser, IsSend, SessionFields
    <3> HIDE DEF s
    <3> QED BY <1>1, <3>1 DEF IsSend, SendFields, s
  <2> HIDE DEF a
  <2>3. c.at \in {"Done", "FcArm"}
    BY <2>2, Ended, WaitAt
  <2> QED BY <2>1, <2>3 DEF PacedCall
<1> QED BY <1>2, <1>3, <1>4, <1>5, <1>6, <1>7, <1>8 DEF SendStep

(* Everything else but the clock ends a call, starts one or is about recv. *)
LEMMA OtherStepPaced ==
    ASSUME PaceInv, NEW n \in Node,
           \/ RecvStep(n) \/ OutExpires(n) \/ DriverFails(n) \/ Dropped(n)
           \/ \E timeout \in RecvTimeouts : StartRecv(n, timeout)
           \/ \E m \in Msg, timeout \in SendTimeouts :
                 RefuseSend(n, m, timeout) \/ StartSend(n, m, timeout)
    PROVE  CallsPaced'
<1> DEFINE b == call[n]
<1> SUFFICES \E c : Goes(n, c) /\ c.at \notin {"Pace", "SegmentOut"}
  BY PacedMove DEF PaceInv, PacedCall
<1>1. CASE OutExpires(n) \/ DriverFails(n) \/ Dropped(n)
  BY <1>1, Ended DEF OutExpires, DriverFails, Dropped
<1>2. CASE \E timeout \in RecvTimeouts : StartRecv(n, timeout)
  BY <1>2 DEF StartRecv, RecvCall
<1>3. CASE \E m \in Msg, timeout \in SendTimeouts :
               RefuseSend(n, m, timeout) \/ StartSend(n, m, timeout)
  BY <1>3, Ended DEF RefuseSend, StartSend, SendCall
<1>4. CASE RecvStep(n)
  <2>1. b.at \in RecvAwaits
    BY <1>4 DEF RecvStep, RecvSkips, RecvBroken, RecvPdu, GrantAccepted, OverflowAccepted,
                RecvExpires, Hears, RecvAwaits
  <2>2. "at" \in DOMAIN b
    BY <2>1, Standing DEF PaceInv, IsRecv
  <2>3. NextFrameIn(b).at \in {"Done", "FrameIn"}
    BY <2>2, AwaitsAt DEF NextFrameIn
  <2>4. CASE ~RecvPdu(n)
    BY <1>4, <2>3, <2>4, Ended DEF RecvStep, RecvSkips, RecvBroken, GrantAccepted,
                                   OverflowAccepted, RecvExpires
  <2>5. CASE RecvPdu(n)
    <3>1. PICK r : r = on_pdu(Cfg[n], rx[n], Head(inbox[n])) /\ Goes(n, Handled(b, r.out))
      BY <2>5 DEF RecvPdu
    <3>2. r.out \in Outcomes
      BY <3>1, OutcomeKnown
    <3> DEFINE c == Handled(b, r.out)
    <3>3. \/ c = NextFrameIn(b) \/ c = Done("BadSequence") \/ c = Done("Completed")
          \/ c = Awaits(b, "GrantOut", "NAs") \/ c = Awaits(b, "OverflowOut", "RxOverflow")
      BY <3>2 DEF Handled, Outcomes, Errors
    <3> HIDE DEF c
    <3>4. c.at \in {"Done", "FrameIn", "GrantOut", "OverflowOut"}
      BY <2>2, <2>3, <3>3, Ended, AwaitsAt
    <3>5. Goes(n, c) /\ c.at \notin {"Pace", "SegmentOut"}
      BY <3>1, <3>4 DEF c
    <3> QED BY <3>5
  <2> QED BY <2>4, <2>5
<1> QED BY <1>1, <1>2, <1>3, <1>4

(* A tick leaves the sessions alone.                                       *)
LEMMA AdvancePaced ==
    ASSUME PaceInv, Advance
    PROVE  CallsPaced'
<1> SUFFICES ASSUME NEW n \in Node, call'[n].at \in {"Pace", "SegmentOut"}
             PROVE  call'[n].s.st_min >= Asked(n)
  BY DEF CallsPaced, PacedCall, Asked
<1> DEFINE b == call[n]
<1>1. call'[n] = LaterCall(b) /\ (Prompt => b.at # "FcArm")
  BY DEF Advance
<1>2. b.at = call'[n].at /\ CallFits(n, b)
  BY <1>1, LaterFits DEF PaceInv, IInv
<1>3. IsSend(b)
  BY <1>2 DEF CallFits, RecvAwaits, SendAwaits
<1>4. LaterCall(b).s = b.s
  BY <1>2, <1>3 DEF LaterCall, IsSend, SendFields, SendAwaits
<1> QED BY <1>1, <1>2, <1>4 DEF PaceInv, CallsPaced, PacedCall

(* What a step of an endpoint does to the queues.                          *)
LEMMA QueuesOf ==
    ASSUME NEW n \in Node,
           \/ Resumes(n) \/ Awaited(n) \/ DriverFails(n) \/ Dropped(n)
           \/ \E m \in Msg, timeout \in SendTimeouts :
                 RefuseSend(n, m, timeout) \/ StartSend(n, m, timeout)
    PROVE  \/ UNCHANGED inbox
           \/ Take(n) /\ inbox[n] # <<>>
           \/ Put(n, Outgoing(n)) /\ call[n].at \in OutAwaits
<1>1. CASE SendStep(n)
  BY <1>1 DEF SendStep, SingleAccepted, FirstAccepted, SegmentAccepted, Wakes, ArmWait,
              WaitSkips, WaitBroken, GotClearToSend, GotWait, GotOverflow, WaitExpires,
              GotFc, Hears, OutAwaits
<1>2. CASE RecvStep(n)
  BY <1>2 DEF RecvStep, RecvSkips, RecvBroken, RecvPdu, GrantAccepted, OverflowAccepted,
              RecvExpires, Hears, OutAwaits
<1>3. CASE OutExpires(n) \/ DriverFails(n) \/ Dropped(n)
  BY <1>3 DEF OutExpires, DriverFails, Dropped, OutOrNot
<1>4. CASE Awaited(n)
  BY <1>4 DEF Awaited, StartRecv
<1>5. CASE \E m \in Msg, timeout \in SendTimeouts :
               RefuseSend(n, m, timeout) \/ StartSend(n, m, timeout)
  BY <1>5 DEF RefuseSend, StartSend
<1> QED BY <1>1, <1>2, <1>3, <1>4, <1>5 DEF Resumes

(* Empty queues and no calls, at first.                                    *)
LEMMA InitPaced == Init => PaceInv
<1> SUFFICES ASSUME Init PROVE PaceInv
  OBVIOUS
<1>1. \A micros : GrantsName(<<>>, micros)
  <2> DEFINE S == {}
  <2>1. <<>> \in Seq(S) /\ \A f : f \notin S
    OBVIOUS
  <2> HIDE DEF S
  <2> QED BY <2>1 DEF GrantsName
<1>2. InboxPaced
  BY <1>1 DEF Init, InboxPaced
<1>3. CallsPaced
  BY Ended DEF Init, CallsPaced, PacedCall
<1> QED BY <1>2, <1>3, InitIInv DEF PaceInv

(* Every step keeps the pace.                                              *)
LEMMA NextPaced ==
    ASSUME PacesEncodable, NoForeignGrants, PaceInv, [Next]_vars
    PROVE  PaceInv'
<1>1. IInv'
  BY NextIInv DEF PaceInv
<1> SUFFICES InboxPaced' /\ CallsPaced'
  BY <1>1 DEF PaceInv
<1>2. ASSUME UNCHANGED call PROVE CallsPaced'
  BY <1>2 DEF PaceInv, CallsPaced, PacedCall, Asked
<1>3. ASSUME UNCHANGED inbox PROVE InboxPaced'
  BY <1>3 DEF PaceInv, InboxPaced, Asked
<1>4. ASSUME NEW n \in Node, Task(n) PROVE InboxPaced' /\ CallsPaced'
  <2>1. InboxPaced'
    BY <1>4, QueuesOf, InboxKept DEF Task, PaceInv
  <2> QED BY <1>4, <2>1, SendStepPaced, OtherStepPaced DEF Task, Resumes, Awaited
<1>5. CASE Environment
  <2>1. PICK n \in Node :
            \/ \E m \in Msg, timeout \in SendTimeouts :
                  RefuseSend(n, m, timeout) \/ StartSend(n, m, timeout)
            \/ DriverFails(n) \/ Dropped(n) \/ Lose(n) \/ Interfere(n)
    BY <1>5 DEF Environment
  <2>2. CASE Lose(n)
    <3>1. PICK i \in 1..Len(inbox[n]) : inbox' = [inbox EXCEPT ![n] = RemoveAt(@, i)]
      BY <2>2 DEF Lose
    <3>2. InboxPaced'
      BY <3>1, QueueNames DEF PaceInv, InboxPaced, Asked
    <3> QED BY <1>2, <2>2, <3>2 DEF Lose
  <2>3. CASE Interfere(n)
    <3>1. PICK f \in Noise : inbox' = [inbox EXCEPT ![n] = Append(@, f)]
      BY <2>3 DEF Interfere
    <3>2. ~IsGrant(f)
      BY DEF NoForeignGrants
    <3>3. InboxPaced'
      BY <3>1, <3>2, QueueNames DEF PaceInv, InboxPaced, Asked
    <3> QED BY <1>2, <2>3, <3>3 DEF Interfere
  <2>4. CASE ~Lose(n) /\ ~Interfere(n)
    <3>1. InboxPaced'
      BY <2>1, <2>4, QueuesOf, InboxKept DEF PaceInv
    <3> QED BY <2>1, <2>4, <3>1, OtherStepPaced
  <2> QED BY <2>2, <2>3, <2>4
<1>6. CASE Ticks
  BY <1>3, <1>6, AdvancePaced DEF Ticks, Advance
<1>7. CASE UNCHANGED vars
  BY <1>2, <1>3, <1>7 DEF vars
<1> QED BY <1>4, <1>5, <1>6, <1>7 DEF Next

(* A Consecutive Frame goes out after the separation time of the receiver  *)
(* or at the very end of the caller's timeout, when every endpoint asks    *)
(* for a time that a byte can name and no other station grants in its name.*)
THEOREM SeparationKept ==
    ASSUME PacesEncodable, NoForeignGrants
    PROVE  Spec => SeparationTimeHonoured
<1>1. PaceInv /\ [Next]_vars => PaceInv'
  BY NextPaced
<1>2. ASSUME PaceInv, NEW n \in Node, SendsCf(n)
      PROVE  call[n].since * Tick >= Cfg[Peer[n]].st_min \/ call[n].left <= 0
  <2>1. call[n].at = "SegmentOut"
    BY <1>2 DEF SendsCf
  <2>2. IsSend(call[n]) /\ Timed(n, call[n]) /\ call[n].s.st_min >= Asked(n)
    BY <1>2, <2>1, Standing DEF PaceInv, CallsPaced, PacedCall, SendAwaits
  <2>3. call[n].since * Tick \in Int /\ Asked(n) \in Int /\ call[n].s.st_min \in Int
    BY <2>2, TickAssumption, NodeAssumption, Timers DEF IsSend, Asked
  <2> QED BY <2>1, <2>2, <2>3 DEF Timed, Asked
<1>3. PaceInv =>
          [\A n \in Node : SendsCf(n) =>
              \/ call[n].since * Tick >= Cfg[Peer[n]].st_min
              \/ call[n].left <= 0]_vars
  BY <1>2
<1> QED BY <1>1, <1>3, InitPaced, PTL DEF Spec, SeparationTimeHonoured
=============================================================================
