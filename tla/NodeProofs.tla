----------------------------- MODULE NodeProofs -----------------------------
(***************************************************************************)
(* The polling node (lib.rs), for any endpoints, configurations, messages  *)
(* and faults: its types, whose payload a Consecutive Frame carries, and   *)
(* how far apart Consecutive Frames are.  Then two of them and the queues  *)
(* between them: payloads arrive whole, in order and at most once, no      *)
(* receiver is sent more than it granted; and if nothing is lost, both     *)
(* ends agree where a block ends, and every byte that left a sender is     *)
(* delivered, held by the receiver or on the way.                          *)
(***************************************************************************)
EXTENDS IsoTpNode, SessionProofs, FiniteSetTheorems, WellFoundedInduction

RxFields == {"state", "content", "expected_len", "next_sn", "block_size", "block_remaining"}

RxFits(r) ==
    /\ DOMAIN r = RxFields
    /\ r.state \in {"Idle", "Receiving"}
    /\ r.content \in Seq(Byte) /\ r.expected_len \in Nat
    /\ r.next_sn \in 0..(SnMod - 1) /\ r.block_size \in Nat

TxFits(t) ==
    \/ t = TxIdle
    \/ /\ t.state \in {"WaitingForFc", "Sending"}
       /\ DOMAIN t = {"state", "session", "timer"}
       /\ t.session \in Session
       /\ t.session.offset < t.session.payload_len
       /\ t.timer \in Nat

FrameFits(f) ==
    /\ f.kind \in {"SF", "FF", "CF"} => f.data \in Seq(Byte)
    /\ f.kind = "FF" => f.len \in Nat
    /\ f.kind = "FC" => f.block_size \in Nat

QueueFits(q) == \E S : q \in Seq(S) /\ \A f \in S : FrameFits(f)

(* The session t of n was opened for a message of n, and unless callers    *)
(* give up, for the one being sent, which is a; or it had one Wait too     *)
(* many and will not send again.                                           *)
OwnedBy(n, t, a) ==
    t.state # "Idle" =>
        \E m \in Msg :
            /\ Source[m] = n
            /\ t.session.owner = Payload(m) /\ t.session.payload_len = Length[m]
            /\ Length[m] <= Cfg[n].max_payload_len
            /\ \/ MayTimeOut
               \/ a = m
               \/ t.state = "WaitingForFc" /\ t.session.wait_count > Cfg[n].wft_max

AppFits(n, a) == a = NoMsg \/ (a \in Msg /\ Source[a] = n)

SendFits(n, t, a) == AppFits(n, a) /\ TxFits(t) /\ OwnedBy(n, t, a)

SendersFit ==
    /\ app \in [Node -> Msg \cup {NoMsg}] /\ DOMAIN tx = Node
    /\ \A n \in Node : SendFits(n, tx[n], app[n])

ReceiversFit == DOMAIN rx = Node /\ \A n \in Node : RxFits(rx[n])

QueuesFit == DOMAIN inbox = Node /\ \A n \in Node : QueueFits(inbox[n])

FaultsFit == faults \in 0..MaxFaults

IInv == SendersFit /\ ReceiversFit /\ QueuesFit /\ FaultsFit

-----------------------------------------------------------------------------
(* What the configuration, the messages and the clock give.                *)
LEMMA CfgNumbers ==
    ASSUME NEW n \in Node
    PROVE  /\ Cfg[n].frame_len \in Nat /\ Cfg[n].block_size \in Nat /\ Cfg[n].st_min \in Nat
           /\ Cfg[n].n_bs \in Nat /\ Cfg[n].wft_max \in Nat /\ Cfg[n].max_payload_len \in Nat
BY CfgAssumption DEF ValidConfig

(* A payload is as long as its message.                                    *)
LEMMA PayloadFits ==
    ASSUME NEW m \in Msg
    PROVE  Payload(m) \in Seq(Byte) /\ Len(Payload(m)) = Length[m] /\ Length[m] \in Nat
<1>1. Length[m] \in Nat
  BY NodeAssumption
<1>2. Payload(m) \in [1..Length[m] -> Byte]
  BY <1>1 DEF Payload, Byte
<1> QED BY <1>1, <1>2

(* The loop of continue_wait_for_fc.                                       *)
LEMMA FcStopsAt ==
    ASSUME NEW n, Len(inbox[n]) \in Nat
    PROVE  FcIndex(n) = 0 \/ FcIndex(n) \in 1..Len(inbox[n])
<1> DEFINE I == {i \in 1..Len(inbox[n]) : inbox[n][i].kind \in {"FC", "Malformed"}}
<1>1. FcIndex(n) = IF I # {} THEN Min(I) ELSE 0
  BY DEF FcIndex, SelectInSeq
<1>2. I \subseteq Nat /\ I \subseteq 1..Len(inbox[n])
  OBVIOUS
<1> HIDE DEF I
<1> QED BY <1>1, <1>2, StopsAt

(* The loop of poll_recv.                                                  *)
LEMMA RecvStopsAt ==
    ASSUME NEW n, Len(inbox[n]) \in Nat
    PROVE  RecvIndex(n) = 0 \/ RecvIndex(n) \in 1..Len(inbox[n])
<1> DEFINE I == {i \in 1..Len(inbox[n]) : ~Skipped(n, inbox[n][i])}
<1>1. RecvIndex(n) = IF I # {} THEN Min(I) ELSE 0
  BY DEF RecvIndex, SelectInSeq
<1>2. I \subseteq Nat /\ I \subseteq 1..Len(inbox[n])
  OBVIOUS
<1> HIDE DEF I
<1> QED BY <1>1, <1>2, StopsAt

(* Such a queue is one.                                                    *)
LEMMA QueueIs ==
    ASSUME NEW q, QueueFits(q)
    PROVE  Queue(q)
BY DEF QueueFits, Queue

(* What is left of a queue is made of its frames.                          *)
LEMMA Remains ==
    ASSUME NEW S, NEW q \in Seq(S), NEW k \in 0..Len(q)
    PROVE  /\ After(q, k) \in Seq(S)
           /\ k # 0 => q[k] \in S
BY BeyondOf DEF After, Beyond

(* A queue of frames that fit stays one.                                   *)
LEMMA QueueKept ==
    ASSUME NEW q, QueueFits(q)
    PROVE  /\ Len(q) \in Nat
           /\ QueueFits(<<>>)
           /\ \A k \in 0..Len(q) : QueueFits(After(q, k)) /\ (k # 0 => FrameFits(q[k]))
           /\ \A i \in 1..Len(q) : QueueFits(RemoveAt(q, i))
           /\ \A f : FrameFits(f) =>
                 /\ QueueFits(Append(q, f))
                 /\ Len(Append(q, f)) = Len(q) + 1 /\ Last(Append(q, f)) = f
<1>1. PICK S : q \in Seq(S) /\ \A f \in S : FrameFits(f)
  BY DEF QueueFits
<1>2. Len(q) \in Nat /\ <<>> \in Seq(S)
  BY <1>1
<1>3. \A i \in 1..Len(q) : RemoveAt(q, i) \in Seq(S)
  BY <1>1 DEF RemoveAt
<1>4. ASSUME NEW f, FrameFits(f)
      PROVE  /\ QueueFits(Append(q, f))
             /\ Len(Append(q, f)) = Len(q) + 1 /\ Last(Append(q, f)) = f
  <2>1. Append(q, f) \in Seq(S \cup {f})
    BY <1>1
  <2>2. QueueFits(Append(q, f))
    BY <1>1, <1>4, <2>1 DEF QueueFits
  <2>3. Len(Append(q, f)) = Len(q) + 1 /\ Append(q, f)[Len(q) + 1] = f
    BY <1>1
  <2> QED BY <2>2, <2>3 DEF Last
<1>5. ASSUME NEW k \in 0..Len(q)
      PROVE  QueueFits(After(q, k)) /\ (k # 0 => FrameFits(q[k]))
  BY <1>1, Remains DEF QueueFits
<1> QED BY <1>1, <1>2, <1>3, <1>4, <1>5 DEF QueueFits

-----------------------------------------------------------------------------
(* The operators on sessions.                                              *)

(* start_send opens a session of its payload.                              *)
LEMMA NewSessionFits ==
    ASSUME NEW n \in Node, NEW payload \in Seq(Byte),
           Len(payload) > max_single_frame_payload(Cfg[n])
    PROVE  LET s == NewSession(Cfg[n], payload)
           IN  /\ s \in Session /\ s.offset < s.payload_len
               /\ s.payload_len = Len(payload) /\ s.owner = payload
<1>1. /\ max_first_frame_payload(Cfg[n]) \in Nat
      /\ max_first_frame_payload(Cfg[n]) <= max_single_frame_payload(Cfg[n])
      /\ max_single_frame_payload(Cfg[n]) \in Nat
  BY CfgNumbers, FrameRoom
<1>2. Len(payload) \in Nat /\ 1 \in 0..(SnMod - 1) /\ 0 \in 0..255
  BY SnModAssumption
<1> QED BY <1>1, <1>2, CfgNumbers DEF NewSession, Session

(* FlowStatus::ClearToSend changes the block and the pace.                 *)
LEMMA ClearedFits ==
    ASSUME NEW n \in Node, NEW s \in Session, NEW f, f.kind = "FC", FrameFits(f)
    PROVE  LET t == Cleared(Cfg[n], s, f)
           IN  /\ t \in Session
               /\ t.offset = s.offset /\ t.payload_len = s.payload_len /\ t.owner = s.owner
               /\ t.st_min = st_min_to_duration(f.st_min, Cfg[n].st_min)
<1> DEFINE d == st_min_to_duration(f.st_min, Cfg[n].st_min)
           b == IF f.block_size = 0 THEN Cfg[n].block_size ELSE f.block_size
           t == [s EXCEPT !.wait_count = 0, !.block_size = b, !.block_remaining = b,
                          !.st_min = d]
<1>1. d \in Nat
  BY CfgNumbers DEF st_min_to_duration
<1>2. b \in Nat
  BY CfgNumbers DEF FrameFits
<1>3. Cleared(Cfg[n], s, f) = t
  BY DEF Cleared
<1> HIDE DEF d, b
<1>4. t \in Session
  <2>1. \A w \in 0..255 : [s EXCEPT !.wait_count = w, !.block_size = b, !.block_remaining = b,
                                     !.st_min = d] \in Session
    BY <1>1, <1>2 DEF Session
  <2> QED BY <2>1
<1>5. t.offset = s.offset /\ t.payload_len = s.payload_len /\ t.owner = s.owner /\ t.st_min = d
  BY DEF Session
<1> QED BY <1>3, <1>4, <1>5 DEF d

(* FlowStatus::Wait counts.                                                *)
LEMMA WaitedFits ==
    ASSUME NEW s \in Session
    PROVE  LET t == Waited(s)
           IN  /\ t \in Session
               /\ t.offset = s.offset /\ t.payload_len = s.payload_len /\ t.owner = s.owner
<1> DEFINE w == Lesser(s.wait_count + 1, 255)
           t == [s EXCEPT !.wait_count = w]
<1>1. w \in 0..255
  <2>1. s.wait_count \in 0..255
    BY DEF Session
  <2> QED BY <2>1 DEF Lesser
<1>2. Waited(s) = t
  BY DEF Waited
<1> HIDE DEF w
<1>3. t \in Session
  BY <1>1 DEF Session
<1>4. t.offset = s.offset /\ t.payload_len = s.payload_len /\ t.owner = s.owner
  BY DEF Session
<1> QED BY <1>2, <1>3, <1>4

(* continue_send moves the session on, or drops it.                        *)
LEMMA AfterFrameFits ==
    ASSUME NEW n \in Node, NEW s \in Session, s.offset < s.payload_len,
           NEW payload \in Seq(Byte), Len(payload) = s.payload_len
    PROVE  LET t == AfterFrame(Cfg[n], s, payload)
           IN  /\ TxFits(t)
               /\ t.state # "Idle" => /\ t.session.owner = s.owner
                                      /\ t.session.payload_len = s.payload_len
               /\ t.state = "Sending" => /\ t.session.st_min = s.st_min
                                         /\ t.timer = Timer(s.st_min)
<1> DEFINE c == Cfg[n]
           chunk == NextChunk(c, s, payload)
           reach == s.offset + Len(chunk)
           sn == NextSn(s.next_sn)
           sent == [s EXCEPT !.offset = reach, !.next_sn = sn]
           left == Saturating(s.block_remaining, 1)
           full == [sent EXCEPT !.block_remaining = s.block_size]
           less == [sent EXCEPT !.block_remaining = left]
           t == AfterFrame(c, s, payload)
<1>1. reach \in Nat
  <2>1. DOMAIN s = SessionFields
    BY DEF Session, SessionFields
  <2>2. SessionAt(s, s.offset, Len(payload))
    BY <2>1 DEF SessionAt
  <2>3. s.offset \in Nat /\ s.offset < Len(payload) /\ c.frame_len \in Nat
    BY CfgNumbers DEF Session
  <2>4. Reach(c, s.offset, Len(payload)) \in s.offset..Len(payload)
        /\ Len(chunk) = Reach(c, s.offset, Len(payload)) - s.offset
    BY <2>2, <2>3, ChunkReach
  <2> HIDE DEF chunk
  <2> QED BY <2>3, <2>4
<1>2. sn \in 0..(SnMod - 1)
  <2>1. s.next_sn \in Nat /\ SnMod \in Nat /\ SnMod >= 2
    BY SnModAssumption DEF Session
  <2> QED BY <2>1 DEF NextSn
<1> HIDE DEF chunk, reach, sn
<1>3. sent \in Session
  BY <1>1, <1>2 DEF Session
<1>4. /\ sent.owner = s.owner /\ sent.payload_len = s.payload_len
      /\ sent.st_min = s.st_min /\ sent.offset = reach
  BY DEF Session
<1>5. left \in Nat /\ s.block_size \in Nat
  BY DEF Saturating, Session
<1> HIDE DEF sent, left
<1>6. full \in Session /\ less \in Session
  <2>1. full \in Session
    BY <1>3, <1>5 DEF Session
  <2>2. less \in Session
    BY <1>3, <1>5 DEF Session
  <2> QED BY <2>1, <2>2
<1>7. ASSUME NEW r \in {sent, full, less}
      PROVE  /\ r \in Session /\ r.owner = s.owner /\ r.payload_len = s.payload_len
             /\ r.st_min = s.st_min /\ r.offset = reach
  <2>1. r.owner = sent.owner /\ r.payload_len = sent.payload_len
        /\ r.st_min = sent.st_min /\ r.offset = sent.offset
    BY <1>3 DEF Session
  <2> HIDE DEF full, less
  <2> QED BY <1>3, <1>4, <1>6, <2>1
<1> HIDE DEF full, less
<1>8. Timer(s.st_min) \in Nat /\ Timer(c.n_bs) \in Nat
  BY TimerFits, CfgNumbers DEF Session
<1>9. \/ t = TxIdle
      \/ reach < s.payload_len /\ t \in {Sending(sent, Timer(s.st_min)),
                  Sending(less, Timer(s.st_min)), WaitingForFc(full, Timer(c.n_bs))}
  <2>1. sent = [s EXCEPT !.offset = @ + Len(chunk), !.next_sn = NextSn(@)]
    BY DEF sent, reach, sn
  <2>2. t = IF sent.offset >= s.payload_len THEN TxIdle
            ELSE IF s.block_size = 0 THEN Sending(sent, Timer(s.st_min))
            ELSE IF left = 0 THEN WaitingForFc(full, Timer(c.n_bs))
            ELSE Sending(less, Timer(s.st_min))
    BY <2>1 DEF AfterFrame, left, full, less, chunk
  <2> HIDE DEF t
  <2>3. s.payload_len \in Nat
    BY DEF Session
  <2> QED BY <1>1, <1>4, <2>2, <2>3
<1> HIDE DEF t
<1>10. CASE t = TxIdle
  BY <1>10 DEF TxIdle, TxFits, t
<1>11. ASSUME NEW r \in {sent, full, less}, reach < s.payload_len,
              t = Sending(r, Timer(s.st_min)) \/ t = WaitingForFc(r, Timer(c.n_bs))
       PROVE  /\ TxFits(t)
              /\ t.session.owner = s.owner /\ t.session.payload_len = s.payload_len
              /\ t.state = "Sending" => /\ t.session.st_min = s.st_min
                                        /\ t.timer = Timer(s.st_min)
  <2>1. /\ r \in Session /\ r.owner = s.owner /\ r.payload_len = s.payload_len
        /\ r.st_min = s.st_min /\ r.offset = reach
    BY <1>7
  <2> QED BY <1>8, <1>11, <2>1 DEF TxFits, Sending, WaitingForFc
<1> QED BY <1>9, <1>10, <1>11 DEF t

-----------------------------------------------------------------------------
(* The receive machine keeps its types, whatever arrives.                  *)
LEMMA OnPduFits ==
    ASSUME NEW n \in Node, NEW r, RxFits(r), NEW f, FrameFits(f)
    PROVE  RxFits(on_pdu(Cfg[n], r, f).rx)
<1> DEFINE c == Cfg[n]
<1>1. \A k, o : Returns(k, o).rx = k
  BY DEF Returns
<1>2. c.block_size \in Nat /\ 1 \in 0..(SnMod - 1)
  BY CfgNumbers, SnModAssumption
<1>3. CASE f.kind = "SF"
  <2> DEFINE k == [r EXCEPT !.content = f.data]
  <2>1. RxFits(k)
    BY <1>3 DEF RxFits, RxFields, FrameFits
  <2> HIDE DEF k
  <2>2. handle_single(c, r, f).rx \in {r, k}
    BY <1>1 DEF handle_single, k
  <2> QED BY <1>3, <2>1, <2>2 DEF on_pdu
<1>4. CASE f.kind = "FF"
  <2> DEFINE k == [state |-> "Receiving",
                   content |-> SubSeq(f.data, 1, Lesser(Len(f.data), f.len)),
                   expected_len |-> f.len, next_sn |-> 1,
                   block_size |-> c.block_size, block_remaining |-> c.block_size]
  <2>1. k.content \in Seq(Byte)
    <3>1. f.data \in Seq(Byte) /\ Len(f.data) \in Nat /\ f.len \in Nat
      BY <1>4 DEF FrameFits
    <3>2. Lesser(Len(f.data), f.len) \in 0..Len(f.data)
      BY <3>1 DEF Lesser
    <3> QED BY <3>1, <3>2, PrefixOf
  <2>2. RxFits(k)
    BY <1>2, <1>4, <2>1 DEF RxFits, RxFields, FrameFits
  <2> HIDE DEF k
  <2>3. handle_first(c, r, f).rx \in {r, k}
    BY <1>1 DEF handle_first, k
  <2> QED BY <1>4, <2>2, <2>3 DEF on_pdu
<1>5. CASE f.kind = "CF"
  <2> DEFINE e == Extended(r, f.data)
  <2>1. ASSUME ~(Len(r.content) >= r.expected_len)
        PROVE  RxFits(e)
    <3>1. /\ f.data \in Seq(Byte) /\ Len(f.data) \in Nat
          /\ r.content \in Seq(Byte) /\ Len(r.content) \in Nat /\ r.expected_len \in Nat
      BY <1>5 DEF FrameFits, RxFits
    <3>2. Lesser(Len(f.data), r.expected_len - Len(r.content)) \in 0..Len(f.data)
      BY <2>1, <3>1 DEF Lesser
    <3>3. Chunk(r, f.data) \in Seq(Byte)
      BY <3>1, <3>2, PrefixOf DEF Chunk
    <3>4. r.content \o Chunk(r, f.data) \in Seq(Byte)
      BY <3>1, <3>3
    <3>5. NextSn(r.next_sn) \in 0..(SnMod - 1)
      <4>1. r.next_sn \in Nat /\ SnMod \in Nat /\ SnMod >= 2
        BY SnModAssumption DEF RxFits
      <4> QED BY <4>1 DEF NextSn
    <3> QED BY <3>4, <3>5 DEF Extended, RxFits, RxFields
  <2> HIDE DEF e
  <2>2. ASSUME RxFits(e) PROVE RxFits(AfterChunk(e).rx)
    <3>1. /\ RxFits([e EXCEPT !.state = "Idle"])
          /\ RxFits([e EXCEPT !.block_remaining = e.block_size])
          /\ RxFits([e EXCEPT !.block_remaining = Saturating(e.block_remaining, 1)])
      BY <2>2 DEF RxFits, RxFields
    <3> QED BY <1>1, <2>2, <3>1 DEF AfterChunk, Reloaded
  <2>3. RxFits(handle_consecutive(c, r, f).rx)
    BY <1>1, <2>1, <2>2 DEF handle_consecutive, e
  <2> QED BY <1>5, <2>3 DEF on_pdu
<1>6. CASE f.kind \notin {"SF", "FF", "CF"}
  BY <1>1, <1>6 DEF on_pdu
<1> QED BY <1>3, <1>4, <1>5, <1>6

-----------------------------------------------------------------------------
(* The steps of a sender.                                                  *)

Tells(n, t, a) ==
    /\ Becomes(n, t) \/ (UNCHANGED tx /\ t = tx[n])
    /\ app' = [app EXCEPT ![n] = a] \/ (UNCHANGED app /\ a = app[n])

(* One endpoint moves on.                                                  *)
LEMMA SenderMoved ==
    ASSUME SendersFit, NEW n \in Node, NEW t, NEW a, SendFits(n, t, a), Tells(n, t, a)
    PROVE  SendersFit'
<1>1. DOMAIN tx' = Node /\ \A k \in Node : tx'[k] = IF k = n THEN t ELSE tx[k]
  BY DEF SendersFit, Tells, Becomes
<1>2. /\ app' \in [Node -> Msg \cup {NoMsg}]
      /\ \A k \in Node : app'[k] = IF k = n THEN a ELSE app[k]
  BY DEF SendersFit, Tells, SendFits, AppFits
<1>3. ASSUME NEW k \in Node PROVE SendFits(k, tx'[k], app'[k])
  BY <1>1, <1>2 DEF SendersFit
<1>4. \A k \in Node : SendFits(k, tx[k], app[k])'
  BY <1>3 DEF SendFits, AppFits, TxFits, OwnedBy, TxIdle, Payload
<1> QED BY <1>1, <1>2, <1>4 DEF SendersFit

(* A send that ends with its session gone.                                 *)
LEMMA IdleFits ==
    ASSUME NEW n \in Node
    PROVE  SendFits(n, TxIdle, NoMsg) /\ TxIdle.state = "Idle"
BY DEF SendFits, AppFits, TxFits, OwnedBy, TxIdle

(* What is known of the session of a call that goes on with it.            *)
LEMMA Resumed ==
    ASSUME SendersFit, NEW n \in Node, NEW st \in {"WaitingForFc", "Sending"}, Resumes(n, st)
    PROVE  /\ app[n] \in Msg /\ Source[app[n]] = n
           /\ tx[n].state = st /\ tx[n].session \in Session
           /\ tx[n].session.offset < tx[n].session.payload_len
           /\ Payload(app[n]) \in Seq(Byte)
           /\ Len(Payload(app[n])) = tx[n].session.payload_len
           /\ tx[n].timer \in Nat
<1>1. app[n] \in Msg /\ Source[app[n]] = n
  BY DEF Resumes, Sender, SendersFit, SendFits, AppFits
<1>2. tx[n].state = st /\ Length[app[n]] = tx[n].session.payload_len
  BY DEF Resumes
<1>3. TxFits(tx[n]) /\ tx[n] # TxIdle
  BY <1>2 DEF SendersFit, SendFits, TxIdle
<1> QED BY <1>1, <1>2, <1>3, PayloadFits DEF TxFits

(* It may send: unless callers give up, the session is of this message.    *)
MaySendOn(n) ==
    \/ Resumes(n, "Sending")
    \/ Resumes(n, "WaitingForFc") /\ tx[n].session.wait_count <= Cfg[n].wft_max

(* The session of such a call, and whose it is.                            *)
LEMMA OwnerKnown ==
    ASSUME SendersFit, NEW n \in Node, MaySendOn(n)
    PROVE  \E m \in Msg :
               /\ Source[m] = n
               /\ tx[n].session.owner = Payload(m) /\ tx[n].session.payload_len = Length[m]
               /\ Length[m] <= Cfg[n].max_payload_len
               /\ MayTimeOut \/ app[n] = m
<1>1. tx[n].state \in {"WaitingForFc", "Sending"} /\ OwnedBy(n, tx[n], app[n])
  BY DEF SendersFit, SendFits, MaySendOn, Resumes
<1>2. PICK m \in Msg :
          /\ Source[m] = n
          /\ tx[n].session.owner = Payload(m) /\ tx[n].session.payload_len = Length[m]
          /\ Length[m] <= Cfg[n].max_payload_len
          /\ \/ MayTimeOut
             \/ app[n] = m
             \/ tx[n].state = "WaitingForFc" /\ tx[n].session.wait_count > Cfg[n].wft_max
  BY <1>1 DEF OwnedBy
<1>3. ~(tx[n].state = "WaitingForFc" /\ tx[n].session.wait_count > Cfg[n].wft_max)
  <2>1. CASE Resumes(n, "Sending")
    BY <2>1 DEF Resumes
  <2>2. CASE Resumes(n, "WaitingForFc") /\ tx[n].session.wait_count <= Cfg[n].wft_max
    <3>1. tx[n].session \in Session
      BY <2>2, Resumed
    <3>2. tx[n].session.wait_count \in 0..255 /\ Cfg[n].wft_max \in Nat
      BY <3>1, CfgNumbers DEF Session
    <3> DEFINE w == tx[n].session.wait_count
               max == Cfg[n].wft_max
    <3>3. w \in Nat /\ max \in Nat /\ w <= max
      BY <2>2, <3>2
    <3> HIDE DEF w, max
    <3>4. ~(w > max)
      BY <3>3
    <3> QED BY <3>4 DEF w, max
  <2> QED BY <2>1, <2>2 DEF MaySendOn
<1> QED BY <1>2, <1>3

(* continue_send sends a frame, ends the session, or fails.                *)
LEMMA ContinueFits ==
    ASSUME SendersFit, NEW n \in Node, MaySendOn(n), NEW s \in Session, NEW rest,
           s.offset = tx[n].session.offset, s.payload_len = tx[n].session.payload_len,
           s.owner = tx[n].session.owner, ContinueSend(n, s, rest)
    PROVE  SendersFit'
<1>1. CASE Becomes(n, TxIdle) /\ Return(n, "LinkError")
  BY <1>1, IdleFits, SenderMoved DEF Return, Tells
<1>2. ASSUME NEW t, t = AfterFrame(Cfg[n], s, Payload(app[n])), Becomes(n, t),
             IF t.state = "Idle" THEN Return(n, "Completed") ELSE Continue
      PROVE  SendersFit'
  <2>1. /\ s.offset < s.payload_len /\ Payload(app[n]) \in Seq(Byte)
        /\ Len(Payload(app[n])) = s.payload_len
        /\ app[n] \in Msg /\ Source[app[n]] = n
    BY Resumed DEF MaySendOn
  <2>2. /\ TxFits(t)
        /\ t.state # "Idle" => /\ t.session.owner = s.owner
                               /\ t.session.payload_len = s.payload_len
    BY <1>2, <2>1, AfterFrameFits
  <2>3. OwnedBy(n, t, app[n])
    <3>1. PICK m \in Msg :
              /\ Source[m] = n
              /\ tx[n].session.owner = Payload(m) /\ tx[n].session.payload_len = Length[m]
              /\ Length[m] <= Cfg[n].max_payload_len
              /\ MayTimeOut \/ app[n] = m
      BY OwnerKnown
    <3> QED BY <2>2, <3>1 DEF OwnedBy
  <2>4. CASE t.state = "Idle"
    <3>1. SendFits(n, t, NoMsg) /\ Tells(n, t, NoMsg)
      BY <1>2, <2>2, <2>4 DEF SendFits, AppFits, OwnedBy, Tells, Return
    <3> QED BY <3>1, SenderMoved
  <2>5. CASE t.state # "Idle"
    <3>1. SendFits(n, t, app[n]) /\ Tells(n, t, app[n])
      BY <1>2, <2>1, <2>2, <2>3, <2>5 DEF SendFits, AppFits, Tells, Continue
    <3> QED BY <3>1, SenderMoved
  <2> QED BY <2>4, <2>5
<1> QED BY <1>1, <1>2 DEF ContinueSend

(* The frame poll_send stops at, while it waits.                           *)
LEMMA FcHeard ==
    ASSUME QueuesFit, NEW n \in Node, NEW status, GotFc(n, status)
    PROVE  /\ FcIndex(n) \in 1..Len(inbox[n]) /\ Len(inbox[n]) \in Nat
           /\ inbox[n][FcIndex(n)].kind = "FC" /\ FrameFits(inbox[n][FcIndex(n)])
           /\ inbox[n][FcIndex(n)].status = status
           /\ MaySendOn(n) /\ Resumes(n, "WaitingForFc")
<1>1. QueueFits(inbox[n]) /\ Len(inbox[n]) \in Nat
  BY QueueKept DEF QueuesFit
<1>2. FcIndex(n) \in 1..Len(inbox[n])
  BY <1>1, FcStopsAt DEF GotFc
<1>3. FrameFits(inbox[n][FcIndex(n)])
  <2> DEFINE k == FcIndex(n)
  <2>1. k \in 0..Len(inbox[n]) /\ k # 0
    BY <1>1, <1>2
  <2> HIDE DEF k
  <2>2. FrameFits(inbox[n][k])
    BY <1>1, <2>1, QueueKept
  <2> QED BY <2>2 DEF k
<1> QED BY <1>1, <1>2, <1>3 DEF GotFc, Awaits, MaySendOn

(* poll_send keeps the senders fit.                                        *)
LEMMA PollSendFits ==
    ASSUME SendersFit, QueuesFit, NEW n \in Node, PollSend(n)
    PROVE  SendersFit'
<1>1. SendFits(n, tx[n], app[n])
  BY DEF SendersFit
<1>2. CASE SendTooLong(n)
  <2>1. OwnedBy(n, tx[n], NoMsg)
    <3> SUFFICES ASSUME tx[n].state # "Idle" PROVE OwnedBy(n, tx[n], NoMsg)
      BY DEF OwnedBy
    <3>1. PICK m \in Msg :
              /\ Source[m] = n
              /\ tx[n].session.owner = Payload(m) /\ tx[n].session.payload_len = Length[m]
              /\ Length[m] <= Cfg[n].max_payload_len
              /\ \/ MayTimeOut
                 \/ app[n] = m
                 \/ tx[n].state = "WaitingForFc" /\ tx[n].session.wait_count > Cfg[n].wft_max
      BY <1>1 DEF SendFits, OwnedBy
    <3>2. app[n] # m
      BY <1>2, <3>1 DEF SendTooLong, Fits
    <3> QED BY <3>1, <3>2 DEF OwnedBy
  <2>2. SendFits(n, tx[n], NoMsg) /\ Tells(n, tx[n], NoMsg)
    BY <1>1, <1>2, <2>1 DEF SendFits, AppFits, Tells, SendTooLong, Return
  <2> QED BY <2>2, SenderMoved
<1>3. ASSUME tx[n].state = "Idle", UNCHANGED tx, NEW r, Return(n, r) PROVE SendersFit'
  <2>1. SendFits(n, tx[n], NoMsg) /\ Tells(n, tx[n], NoMsg)
    BY <1>1, <1>3 DEF SendFits, AppFits, OwnedBy, Tells, Return
  <2> QED BY <2>1, SenderMoved
<1>4. CASE SendSingle(n)
  BY <1>3, <1>4 DEF SendSingle
<1>5. CASE SendFirst(n)
  <2>1. CASE UNCHANGED tx /\ Return(n, "LinkError")
    BY <1>3, <1>5, <2>1 DEF SendFirst
  <2> DEFINE s == NewSession(Cfg[n], Payload(app[n]))
             t == WaitingForFc(s, Timer(Cfg[n].n_bs))
  <2>2. CASE Becomes(n, t) /\ Continue
    <3>1. app[n] \in Msg /\ Source[app[n]] = n /\ Length[app[n]] <= Cfg[n].max_payload_len
      BY <1>1, <1>5 DEF SendFirst, Sender, Fits, SendFits, AppFits
    <3>2. /\ Payload(app[n]) \in Seq(Byte) /\ Len(Payload(app[n])) = Length[app[n]]
          /\ Length[app[n]] > max_single_frame_payload(Cfg[n])
      BY <1>5, <3>1, PayloadFits DEF SendFirst
    <3>3. /\ s \in Session /\ s.offset < s.payload_len
          /\ s.payload_len = Length[app[n]] /\ s.owner = Payload(app[n])
      BY <3>2, NewSessionFits
    <3>4. Timer(Cfg[n].n_bs) \in Nat
      BY TimerFits, CfgNumbers
    <3> HIDE DEF s
    <3>5. t.state = "WaitingForFc" /\ t.session = s /\ TxFits(t)
      BY <3>3, <3>4 DEF WaitingForFc, TxFits
    <3> HIDE DEF t
    <3>6. OwnedBy(n, t, app[n])
      BY <3>1, <3>3, <3>5 DEF OwnedBy
    <3>7. SendFits(n, t, app[n]) /\ Tells(n, t, app[n])
      BY <2>2, <3>1, <3>5, <3>6 DEF SendFits, AppFits, Tells, Continue
    <3> QED BY <3>7, SenderMoved
  <2> QED BY <1>5, <2>1, <2>2 DEF SendFirst
<1>6. ASSUME Becomes(n, TxIdle), NEW r, Return(n, r) PROVE SendersFit'
  BY <1>6, IdleFits, SenderMoved DEF Return, Tells
<1>7. CASE SendMismatch(n) \/ FcTimeout(n) \/ WaitBroken(n) \/ GotOverflow(n)
  BY <1>6, <1>7 DEF SendMismatch, FcTimeout, WaitBroken, GotOverflow
<1>8. CASE NoFcYet(n)
  <2>1. Tells(n, tx[n], app[n])
    BY <1>8 DEF NoFcYet, Continue, Tells
  <2> QED BY <1>1, <2>1, SenderMoved
<1>9. CASE GotClearToSend(n)
  <2> DEFINE f == inbox[n][FcIndex(n)]
             s == Cleared(Cfg[n], tx[n].session, f)
  <2>1. /\ f.kind = "FC" /\ FrameFits(f) /\ MaySendOn(n)
        /\ tx[n].session \in Session
    BY <1>9, FcHeard, Resumed DEF GotClearToSend
  <2>2. ContinueSend(n, s, After(inbox[n], FcIndex(n)))
    BY <1>9 DEF GotClearToSend
  <2>3. /\ s \in Session /\ s.owner = tx[n].session.owner
        /\ s.offset = tx[n].session.offset /\ s.payload_len = tx[n].session.payload_len
    BY <2>1, ClearedFits
  <2> HIDE DEF s
  <2> QED BY <2>1, <2>2, <2>3, ContinueFits
<1>10. CASE SendConsecutive(n)
  <2>1. MaySendOn(n) /\ tx[n].session \in Session /\ ContinueSend(n, tx[n].session, inbox[n])
    BY <1>10, Resumed DEF SendConsecutive, MaySendOn
  <2> QED BY <2>1, ContinueFits
<1>11. CASE GotWait(n)
  <2> DEFINE s == Waited(tx[n].session)
             t == WaitingForFc(s, Timer(Cfg[n].n_bs))
  <2>1. /\ MaySendOn(n) /\ tx[n].session \in Session
        /\ tx[n].session.offset < tx[n].session.payload_len
        /\ app[n] \in Msg /\ Source[app[n]] = n
    BY <1>11, FcHeard, Resumed DEF GotWait
  <2>2. /\ s \in Session /\ s.owner = tx[n].session.owner
        /\ s.offset = tx[n].session.offset /\ s.payload_len = tx[n].session.payload_len
    BY <2>1, WaitedFits
  <2>3. Becomes(n, t) /\ IF s.wait_count > Cfg[n].wft_max THEN Return(n, "NBs") ELSE Continue
    BY <1>11 DEF GotWait
  <2>4. Timer(Cfg[n].n_bs) \in Nat
    BY TimerFits, CfgNumbers
  <2> HIDE DEF s
  <2>5. t.state = "WaitingForFc" /\ t.session = s /\ TxFits(t)
    BY <2>1, <2>2, <2>4 DEF WaitingForFc, TxFits
  <2> HIDE DEF t
  <2>6. PICK m \in Msg :
            /\ Source[m] = n
            /\ tx[n].session.owner = Payload(m) /\ tx[n].session.payload_len = Length[m]
            /\ Length[m] <= Cfg[n].max_payload_len
            /\ MayTimeOut \/ app[n] = m
    BY <2>1, OwnerKnown
  <2>7. CASE s.wait_count > Cfg[n].wft_max
    <3>1. OwnedBy(n, t, NoMsg)
      BY <2>2, <2>5, <2>6, <2>7 DEF OwnedBy
    <3>2. SendFits(n, t, NoMsg) /\ Tells(n, t, NoMsg)
      BY <2>3, <2>5, <2>7, <3>1 DEF SendFits, AppFits, Tells, Return
    <3> QED BY <3>2, SenderMoved
  <2>8. CASE ~(s.wait_count > Cfg[n].wft_max)
    <3>1. OwnedBy(n, t, app[n])
      BY <2>2, <2>5, <2>6 DEF OwnedBy
    <3>2. SendFits(n, t, app[n]) /\ Tells(n, t, app[n])
      BY <2>1, <2>3, <2>5, <2>8, <3>1 DEF SendFits, AppFits, Tells, Continue
    <3> QED BY <3>2, SenderMoved
  <2> QED BY <2>7, <2>8
<1> QED BY <1>2, <1>4, <1>5, <1>7, <1>8, <1>9, <1>10, <1>11 DEF PollSend

(* The steps that are not poll_send keep the senders fit.                  *)
LEMMA SendersKept ==
    ASSUME SendersFit, NEW n \in Node, Submit(n) \/ SendTimesOut(n)
    PROVE  SendersFit'
<1>1. SendFits(n, tx[n], app[n])
  BY DEF SendersFit
<1>2. CASE Submit(n)
  <2>1. PICK a \in Msg : Source[a] = n /\ app' = [app EXCEPT ![n] = a]
    BY <1>2 DEF Submit
  <2>2. app[n] = NoMsg /\ UNCHANGED tx
    BY <1>2 DEF Submit, Sender
  <2>3. OwnedBy(n, tx[n], a)
    <3> SUFFICES ASSUME tx[n].state # "Idle" PROVE OwnedBy(n, tx[n], a)
      BY DEF OwnedBy
    <3>1. PICK m \in Msg :
              /\ Source[m] = n
              /\ tx[n].session.owner = Payload(m) /\ tx[n].session.payload_len = Length[m]
              /\ Length[m] <= Cfg[n].max_payload_len
              /\ \/ MayTimeOut
                 \/ app[n] = m
                 \/ tx[n].state = "WaitingForFc" /\ tx[n].session.wait_count > Cfg[n].wft_max
      BY <1>1 DEF SendFits, OwnedBy
    <3>2. app[n] # m
      BY <2>2, <3>1, NodeAssumption
    <3> QED BY <3>1, <3>2 DEF OwnedBy
  <2>4. SendFits(n, tx[n], a) /\ Tells(n, tx[n], a)
    BY <1>1, <2>1, <2>2, <2>3 DEF SendFits, AppFits, Tells
  <2> QED BY <2>4, SenderMoved
<1>3. CASE SendTimesOut(n)
  <2>1. MayTimeOut /\ UNCHANGED tx /\ app' = [app EXCEPT ![n] = NoMsg]
    BY <1>3 DEF SendTimesOut, Return
  <2>2. OwnedBy(n, tx[n], NoMsg)
    BY <1>1, <2>1 DEF SendFits, OwnedBy
  <2>3. SendFits(n, tx[n], NoMsg) /\ Tells(n, tx[n], NoMsg)
    BY <1>1, <2>1, <2>2 DEF SendFits, AppFits, Tells
  <2> QED BY <2>3, SenderMoved
<1> QED BY <1>2, <1>3

(* A tick brings the deadlines closer and changes no session.              *)
LEMMA LaterFits ==
    ASSUME NEW t, TxFits(t)
    PROVE  /\ TxFits(Later(t)) /\ Later(t).state = t.state
           /\ t.state # "Idle" => Later(t).session = t.session
<1>1. CASE t.state = "Idle"
  BY <1>1 DEF Later
<1>2. CASE t.state # "Idle"
  <2> DEFINE left == Saturating(t.timer, 1)
             k == [t EXCEPT !.timer = left]
  <2>1. t # TxIdle
    BY <1>2 DEF TxIdle
  <2>2. Later(t) = k /\ left \in Nat
    BY <1>2, <2>1 DEF Later, Saturating, TxFits
  <2> HIDE DEF left
  <2>3. /\ DOMAIN k = {"state", "session", "timer"}
        /\ k.state = t.state /\ k.session = t.session /\ k.timer = left
    BY <2>1 DEF TxFits
  <2> HIDE DEF k
  <2> QED BY <2>1, <2>2, <2>3 DEF TxFits
<1> QED BY <1>1, <1>2

(* The clock keeps the senders fit.                                        *)
LEMMA AdvanceFits ==
    ASSUME SendersFit, Advance
    PROVE  SendersFit'
<1>1. DOMAIN tx' = Node /\ UNCHANGED app /\ \A n \in Node : tx'[n] = Later(tx[n])
  BY DEF Advance
<1>2. ASSUME NEW n \in Node PROVE SendFits(n, tx'[n], app[n])
  <2>1. AppFits(n, app[n]) /\ TxFits(tx[n]) /\ OwnedBy(n, tx[n], app[n])
    BY DEF SendersFit, SendFits
  <2>2. /\ TxFits(tx'[n]) /\ tx'[n].state = tx[n].state
        /\ tx[n].state # "Idle" => tx'[n].session = tx[n].session
    BY <1>1, <2>1, LaterFits
  <2>3. OwnedBy(n, tx'[n], app[n])
    BY <2>1, <2>2 DEF OwnedBy
  <2> QED BY <2>1, <2>2, <2>3 DEF SendFits
<1>3. \A n \in Node : SendFits(n, tx[n], app[n])'
  BY <1>1, <1>2 DEF SendFits, AppFits, TxFits, OwnedBy, TxIdle, Payload
<1> QED BY <1>1, <1>3 DEF SendersFit

-----------------------------------------------------------------------------
(* The queues.                                                             *)

(* One queue is cut down and a frame put in the other.                     *)
LEMMA QueuesMoved ==
    ASSUME QueuesFit, NEW n \in Node, NEW rest, QueueFits(rest), NEW f,
           \/ Consume(n, rest) \/ TransmitFails(n, rest)
           \/ Transmit(n, rest, f) /\ FrameFits(f)
    PROVE  QueuesFit'
<1>1. CASE inbox' = [inbox EXCEPT ![n] = rest]
  <2>1. DOMAIN inbox' = Node /\ \A k \in Node : inbox'[k] = IF k = n THEN rest ELSE inbox[k]
    BY <1>1 DEF QueuesFit
  <2> QED BY <2>1 DEF QueuesFit
<1>2. CASE Transmit(n, rest, f) /\ FrameFits(f)
  <2> DEFINE p == Peer[n]
             q == Append(inbox[p], f)
  <2>1. p \in Node /\ p # n
    BY NodeAssumption
  <2>2. /\ DOMAIN inbox' = Node
        /\ \A k \in Node : inbox'[k] = IF k = p THEN q ELSE IF k = n THEN rest ELSE inbox[k]
    BY <1>2, <2>1 DEF Transmit, QueuesFit
  <2>3. QueueFits(q)
    BY <1>2, <2>1, QueueKept DEF QueuesFit
  <2> HIDE DEF q
  <2> QED BY <2>2, <2>3 DEF QueuesFit
<1> QED BY <1>1, <1>2 DEF Consume, TransmitFails

(* What an endpoint sends.                                                 *)
LEMMA FramesFit ==
    ASSUME NEW n \in Node, NEW payload \in Seq(Byte)
    PROVE  /\ FrameFits(SingleFrame(payload))
           /\ Len(payload) > max_single_frame_payload(Cfg[n]) =>
                 FrameFits(FirstFrameOf(Cfg[n], payload))
           /\ \A s \in Session : s.offset < s.payload_len /\ s.payload_len = Len(payload) =>
                 FrameFits(NextFrame(Cfg[n], s, payload))
           /\ \A r : r.block_size \in Nat => FrameFits(Grant(Cfg[n], r))
           /\ FrameFits(OverflowFc(Cfg[n]))
<1>1. FrameFits(SingleFrame(payload))
  BY DEF FrameFits, SingleFrame
<1>2. ASSUME Len(payload) > max_single_frame_payload(Cfg[n])
      PROVE  FrameFits(FirstFrameOf(Cfg[n], payload))
  <2> DEFINE head == SubSeq(payload, 1, max_first_frame_payload(Cfg[n]))
  <2>1. max_first_frame_payload(Cfg[n]) \in 0..Len(payload) /\ Len(payload) \in Nat
    BY <1>2, FrameRoom, CfgNumbers
  <2>2. head \in Seq(Byte)
    BY <2>1, PrefixOf
  <2>3. FirstFrameOf(Cfg[n], payload) = FirstFrame(Len(payload), head)
    BY DEF FirstFrameOf
  <2> HIDE DEF head
  <2> QED BY <2>1, <2>2, <2>3 DEF FrameFits, FirstFrame
<1>3. ASSUME NEW s \in Session, s.offset < s.payload_len, s.payload_len = Len(payload)
      PROVE  FrameFits(NextFrame(Cfg[n], s, payload))
  <2> DEFINE chunk == NextChunk(Cfg[n], s, payload)
             pad == [i \in 1..(max_consecutive_frame_payload(Cfg[n]) - Len(chunk)) |-> Pad]
             data == Padded(Cfg[n], chunk)
  <2>1. s.offset \in Nat /\ s.offset < Len(payload) /\ SessionAt(s, s.offset, Len(payload))
    BY <1>3 DEF Session, SessionAt, SessionFields
  <2>2. /\ chunk \in Seq(Byte)
        /\ Reach(Cfg[n], s.offset, Len(payload)) \in s.offset..Len(payload)
        /\ Len(chunk) = Reach(Cfg[n], s.offset, Len(payload)) - s.offset
    BY <2>1, ChunkReach, CfgNumbers
  <2>3. max_consecutive_frame_payload(Cfg[n]) - Len(chunk) \in Nat
    <3>1. max_consecutive_frame_payload(Cfg[n]) \in Nat /\ Len(payload) \in Nat
      BY FrameRoom, CfgNumbers
    <3> HIDE DEF chunk
    <3> QED BY <2>1, <2>2, <3>1 DEF Reach, Lesser
  <2>4. pad \in [1..(max_consecutive_frame_payload(Cfg[n]) - Len(chunk)) -> Byte]
    BY DEF Byte
  <2>5. pad \in Seq(Byte)
    BY <2>3, <2>4
  <2>6. data = IF Cfg[n].padding THEN chunk \o pad ELSE chunk
    BY DEF Padded
  <2> HIDE DEF chunk, pad
  <2>7. chunk \o pad \in Seq(Byte)
    BY <2>2, <2>5
  <2>8. data \in Seq(Byte)
    BY <2>2, <2>6, <2>7
  <2>9. NextFrame(Cfg[n], s, payload) = ConsecutiveFrame(s.next_sn % SnMod, data)
    BY DEF NextFrame, chunk
  <2> HIDE DEF data
  <2> QED BY <2>8, <2>9 DEF FrameFits, ConsecutiveFrame
<1>4. \A r : r.block_size \in Nat => FrameFits(Grant(Cfg[n], r))
  BY DEF FrameFits, Grant, FlowControl
<1>5. FrameFits(OverflowFc(Cfg[n]))
  BY DEF FrameFits, OverflowFc, FlowControl
<1> QED BY <1>1, <1>2, <1>3, <1>4, <1>5

(* continue_send sends one frame of the payload of the call.               *)
LEMMA ContinueQueues ==
    ASSUME SendersFit, QueuesFit, NEW n \in Node, MaySendOn(n), NEW s \in Session, NEW rest,
           s.offset = tx[n].session.offset, s.payload_len = tx[n].session.payload_len,
           QueueFits(rest), ContinueSend(n, s, rest)
    PROVE  QueuesFit'
<1> DEFINE payload == Payload(app[n])
<1>1. payload \in Seq(Byte) /\ s.offset < s.payload_len /\ s.payload_len = Len(payload)
  BY Resumed DEF MaySendOn
<1>2. FrameFits(NextFrame(Cfg[n], s, payload))
  BY <1>1, FramesFit
<1> QED BY <1>2, QueuesMoved DEF ContinueSend

(* poll_send keeps the queues fit.                                         *)
LEMMA PollSendQueues ==
    ASSUME SendersFit, QueuesFit, NEW n \in Node, PollSend(n)
    PROVE  QueuesFit'
<1>1. /\ QueueFits(inbox[n]) /\ QueueFits(<<>>) /\ Len(inbox[n]) \in Nat
      /\ \A k \in 0..Len(inbox[n]) : QueueFits(After(inbox[n], k))
  BY QueueKept DEF QueuesFit
<1>2. UNCHANGED inbox => QueuesFit'
  BY DEF QueuesFit
<1>3. CASE SendTooLong(n) \/ SendMismatch(n) \/ FcTimeout(n)
  BY <1>2, <1>3 DEF SendTooLong, SendMismatch, FcTimeout
<1>4. CASE SendSingle(n) \/ SendFirst(n)
  <2>1. app[n] \in Msg
    BY <1>4 DEF SendSingle, SendFirst, Sender, SendersFit, SendFits, AppFits
  <2>2. Payload(app[n]) \in Seq(Byte) /\ Len(Payload(app[n])) = Length[app[n]]
    BY <2>1, PayloadFits
  <2>3. CASE SendSingle(n)
    BY <1>1, <2>2, <2>3, FramesFit, QueuesMoved DEF SendSingle
  <2>4. CASE SendFirst(n)
    BY <1>1, <2>2, <2>4, FramesFit, QueuesMoved DEF SendFirst
  <2> QED BY <1>4, <2>3, <2>4
<1>5. CASE NoFcYet(n)
  BY <1>1, <1>5, QueuesMoved DEF NoFcYet
<1>6. CASE WaitBroken(n) \/ GotWait(n) \/ GotOverflow(n)
  <2>1. FcIndex(n) \in 0..Len(inbox[n])
    BY <1>1, FcStopsAt
  <2>2. QueueFits(After(inbox[n], FcIndex(n)))
    BY <1>1, <2>1
  <2> QED BY <1>6, <2>2, QueuesMoved DEF WaitBroken, GotWait, GotOverflow
<1>7. CASE GotClearToSend(n)
  <2> DEFINE f == inbox[n][FcIndex(n)]
             s == Cleared(Cfg[n], tx[n].session, f)
             rest == After(inbox[n], FcIndex(n))
  <2>1. /\ f.kind = "FC" /\ FrameFits(f) /\ MaySendOn(n)
        /\ FcIndex(n) \in 0..Len(inbox[n]) /\ tx[n].session \in Session
    BY <1>7, FcHeard, Resumed DEF GotClearToSend
  <2>2. ContinueSend(n, s, rest)
    BY <1>7 DEF GotClearToSend
  <2>3. /\ s \in Session
        /\ s.offset = tx[n].session.offset /\ s.payload_len = tx[n].session.payload_len
    BY <2>1, ClearedFits
  <2>4. QueueFits(rest)
    BY <1>1, <2>1
  <2> HIDE DEF s, rest
  <2> QED BY <2>1, <2>2, <2>3, <2>4, ContinueQueues
<1>8. CASE SendConsecutive(n)
  <2>1. MaySendOn(n) /\ tx[n].session \in Session /\ ContinueSend(n, tx[n].session, inbox[n])
    BY <1>8, Resumed DEF SendConsecutive, MaySendOn
  <2> QED BY <1>1, <2>1, ContinueQueues
<1> QED BY <1>3, <1>4, <1>5, <1>6, <1>7, <1>8 DEF PollSend

(* poll_recv keeps the queues and the receivers fit.                       *)
LEMMA PollRecvFits ==
    ASSUME ReceiversFit, QueuesFit, NEW n \in Node, PollRecv(n)
    PROVE  ReceiversFit' /\ QueuesFit'
<1> DEFINE k == RecvIndex(n)
<1>1. /\ QueueFits(inbox[n]) /\ QueueFits(<<>>) /\ Len(inbox[n]) \in Nat
      /\ \A i \in 0..Len(inbox[n]) :
            QueueFits(After(inbox[n], i)) /\ (i # 0 => FrameFits(inbox[n][i]))
  BY QueueKept DEF QueuesFit
<1>2. k \in 0..Len(inbox[n])
  BY <1>1, RecvStopsAt
<1>3. QueueFits(RecvRest(n)) /\ (k # 0 => FrameFits(inbox[n][k]))
  BY <1>1, <1>2 DEF RecvRest
<1>4. UNCHANGED rx => ReceiversFit'
  BY DEF ReceiversFit
<1>5. CASE RecvNothing(n)
  BY <1>1, <1>4, <1>5, QueuesMoved DEF RecvNothing
<1>6. CASE RecvMalformed(n)
  BY <1>3, <1>4, <1>6, QueuesMoved DEF RecvMalformed
<1>7. ASSUME NEW out, RecvPdu(n, out)
      PROVE  ReceiversFit' /\ rx'[n].block_size \in Nat
  <2>1. k # 0 /\ rx' = [rx EXCEPT ![n] = on_pdu(Cfg[n], rx[n], inbox[n][k]).rx]
    BY <1>7 DEF RecvPdu, Response
  <2>2. RxFits(on_pdu(Cfg[n], rx[n], inbox[n][k]).rx)
    BY <1>3, <2>1, OnPduFits DEF ReceiversFit
  <2>3. /\ DOMAIN rx' = Node /\ RxFits(rx'[n])
        /\ \A m \in Node : rx'[m] = IF m = n THEN rx'[n] ELSE rx[m]
    BY <2>1, <2>2 DEF ReceiversFit
  <2>4. ReceiversFit'
    BY <2>3 DEF ReceiversFit
  <2> QED BY <2>3, <2>4 DEF RxFits
<1>8. CASE RecvQuiet(n)
  BY <1>3, <1>7, <1>8, QueuesMoved DEF RecvQuiet
<1>9. CASE RecvOverflow(n)
  <2>1. FrameFits(OverflowFc(Cfg[n]))
    BY FramesFit, PayloadFits DEF FrameFits, OverflowFc, FlowControl
  <2> QED BY <1>3, <1>7, <1>9, <2>1, QueuesMoved DEF RecvOverflow
<1>10. CASE RecvGrant(n)
  <2>1. RecvPdu(n, "SendFlowControl") /\ rx'[n].block_size \in Nat
    BY <1>7, <1>10 DEF RecvGrant
  <2>2. FrameFits(Grant(Cfg[n], rx'[n]))
    BY <2>1 DEF FrameFits, Grant, FlowControl
  <2> DEFINE f == Grant(Cfg[n], rx'[n])
  <2>3. Transmit(n, RecvRest(n), f) \/ TransmitFails(n, RecvRest(n))
    BY <1>10 DEF RecvGrant
  <2> HIDE DEF f
  <2>4. QueuesFit'
    BY <1>3, <2>2, <2>3, QueuesMoved DEF f
  <2> QED BY <1>7, <2>1, <2>4
<1>11. CASE RecvCompleted(n)
  BY <1>3, <1>7, <1>11, QueuesMoved DEF RecvCompleted
<1> QED BY <1>5, <1>6, <1>8, <1>9, <1>10, <1>11 DEF PollRecv

(* Faults are counted up to the bound.                                     *)
LEMMA FaultsCounted ==
    ASSUME FaultsFit, UNCHANGED faults \/ (faults < MaxFaults /\ faults' = faults + 1)
    PROVE  FaultsFit'
BY NodeAssumption DEF FaultsFit

-----------------------------------------------------------------------------
(* Idle endpoints and empty queues, at first.                              *)
LEMMA InitIInv == Init => IInv
<1> SUFFICES ASSUME Init PROVE IInv
  OBVIOUS
<1>1. SendersFit
  BY IdleFits DEF Init, SendersFit
<1>2. ReceiversFit
  <2>1. 0 \in 0..(SnMod - 1) /\ <<>> \in Seq(Byte)
    BY SnModAssumption
  <2>2. RxFits(RxNew)
    BY <2>1 DEF RxNew, RxFits, RxFields
  <2> QED BY <2>2 DEF Init, ReceiversFit
<1>3. QueuesFit
  <2>1. QueueFits(<<>>)
    <3> DEFINE S == {}
    <3>1. <<>> \in Seq(S) /\ \A f : f \notin S
      OBVIOUS
    <3> HIDE DEF S
    <3> QED BY <3>1 DEF QueueFits
  <2> QED BY <2>1 DEF Init, QueuesFit
<1>4. FaultsFit
  BY NodeAssumption DEF Init, FaultsFit
<1> QED BY <1>1, <1>2, <1>3, <1>4 DEF IInv

(* Every step keeps the invariant.                                         *)
LEMMA NextIInv == IInv /\ [Next]_vars => IInv'
<1> SUFFICES ASSUME IInv, [Next]_vars PROVE IInv'
  OBVIOUS
<1>1. SendersFit /\ ReceiversFit /\ QueuesFit /\ FaultsFit
  BY DEF IInv
<1>2. ASSUME UNCHANGED <<app, tx>> PROVE SendersFit'
  <2>1. \A n \in Node : SendFits(n, tx[n], app[n])'
    BY <1>1, <1>2 DEF SendersFit, SendFits, AppFits, TxFits, OwnedBy, TxIdle, Payload
  <2> QED BY <1>1, <1>2, <2>1 DEF SendersFit
<1>3. ASSUME UNCHANGED rx PROVE ReceiversFit'
  BY <1>1, <1>3 DEF ReceiversFit
<1>4. ASSUME UNCHANGED inbox PROVE QueuesFit'
  BY <1>1, <1>4 DEF QueuesFit
<1>5. ASSUME NEW n \in Node, Submit(n) \/ SendTimesOut(n) PROVE IInv'
  <2>1. UNCHANGED <<rx, inbox, faults>>
    BY <1>5 DEF Submit, SendTimesOut
  <2>2. SendersFit'
    BY <1>1, <1>5, SendersKept
  <2> QED BY <1>1, <1>3, <1>4, <2>1, <2>2, FaultsCounted DEF IInv
<1>6. ASSUME NEW n \in Node, PollSend(n) PROVE IInv'
  <2>1. SendersFit' /\ QueuesFit'
    BY <1>1, <1>6, PollSendFits, PollSendQueues
  <2>2. UNCHANGED faults \/ (faults < MaxFaults /\ faults' = faults + 1)
    BY <1>6 DEF PollSend, SendTooLong, SendSingle, SendFirst, SendMismatch, FcTimeout, NoFcYet,
                WaitBroken, GotClearToSend, GotWait, GotOverflow, SendConsecutive, ContinueSend,
                Transmit, TransmitFails, Consume, Fault
  <2> QED BY <1>1, <1>3, <1>6, <2>1, <2>2, FaultsCounted DEF IInv, PollSend
<1>7. ASSUME NEW n \in Node, PollRecv(n) PROVE IInv'
  <2>1. ReceiversFit' /\ QueuesFit'
    BY <1>1, <1>7, PollRecvFits
  <2>2. UNCHANGED faults \/ (faults < MaxFaults /\ faults' = faults + 1)
    BY <1>7 DEF PollRecv, RecvNothing, RecvMalformed, RecvQuiet, RecvOverflow, RecvGrant,
                RecvCompleted, Transmit, TransmitFails, Consume, Fault
  <2> QED BY <1>1, <1>2, <1>7, <2>1, <2>2, FaultsCounted DEF IInv, PollRecv
<1>8. ASSUME NEW n \in Node, Lose(n) \/ Interfere(n) PROVE IInv'
  <2>1. UNCHANGED <<app, tx, rx>> /\ faults < MaxFaults /\ faults' = faults + 1
    BY <1>8 DEF Lose, Interfere, Fault
  <2>2. \E q : QueueFits(q) /\ inbox' = [inbox EXCEPT ![n] = q]
    <3>1. QueueFits(inbox[n])
      BY <1>1 DEF QueuesFit
    <3>2. CASE Lose(n)
      <4>1. PICK i \in 1..Len(inbox[n]) : inbox' = [inbox EXCEPT ![n] = RemoveAt(@, i)]
        BY <3>2 DEF Lose
      <4>2. QueueFits(RemoveAt(inbox[n], i))
        BY <3>1, QueueKept
      <4> QED BY <4>1, <4>2
    <3>3. CASE Interfere(n)
      <4>1. PICK f \in Noise : inbox' = [inbox EXCEPT ![n] = Append(@, f)]
        BY <3>3 DEF Interfere
      <4>2. FrameFits(f)
        BY NoiseAssumption DEF FrameFits
      <4>3. QueueFits(Append(inbox[n], f))
        BY <3>1, <4>2, QueueKept
      <4> QED BY <4>1, <4>3
    <3> QED BY <1>8, <3>2, <3>3
  <2>3. QueuesFit'
    BY <1>1, <2>2 DEF QueuesFit
  <2> QED BY <1>1, <1>2, <1>3, <2>1, <2>3, FaultsCounted DEF IInv
<1>9. CASE Advance
  <2>1. UNCHANGED <<rx, inbox, faults>>
    BY <1>9 DEF Advance
  <2>2. SendersFit'
    BY <1>1, <1>9, AdvanceFits
  <2> QED BY <1>1, <1>3, <1>4, <2>1, <2>2, FaultsCounted DEF IInv
<1>10. CASE UNCHANGED vars
  BY <1>1, <1>2, <1>3, <1>4, <1>10, FaultsCounted DEF vars, IInv
<1> QED BY <1>5, <1>6, <1>7, <1>8, <1>9, <1>10 DEF Next

(* The inductive invariant: every session is of a message of its endpoint  *)
(* and, unless callers give up, of the one being sent.                     *)
THEOREM StaysFit == Spec => []IInv
<1> QED BY InitIInv, NextIInv, PTL DEF Spec

(* Every state has the types of the code's (TxState, TxSession, RxMachine, *)
(* wait_count a u8, sequence numbers a nibble).                            *)
THEOREM Typed == Spec => []TypeOK
<1>1. IInv => TypeOK
  <2> SUFFICES ASSUME IInv PROVE TypeOK
    OBVIOUS
  <2>1. app \in [Node -> Msg \cup {NoMsg}]
    BY DEF IInv, SendersFit, SendFits, AppFits
  <2> QED BY <2>1 DEF IInv, SendersFit, SendFits, TxFits, ReceiversFit, RxFits, FaultsFit, TypeOK
<1> QED BY <1>1, StaysFit, PTL

-----------------------------------------------------------------------------
(* Whose payload a Consecutive Frame carries.                              *)

(* The session a call sends from: its own, or as a grant changed it.       *)
SendsFrom(n, s) ==
    \/ s = tx[n].session /\ Resumes(n, "Sending")
    \/ GotFc(n, "ClearToSend") /\ s = Cleared(Cfg[n], tx[n].session, inbox[n][FcIndex(n)])

(* What such a session has in common with the one stored.                  *)
LEMMA SendsFromFits ==
    ASSUME IInv, NEW n \in Node, NEW s, SendsFrom(n, s)
    PROVE  /\ MaySendOn(n) /\ s \in Session
           /\ s.offset = tx[n].session.offset /\ s.owner = tx[n].session.owner
           /\ s.payload_len = tx[n].session.payload_len
           /\ TxFits(AfterFrame(Cfg[n], s, Payload(app[n])))
           /\ LET t == AfterFrame(Cfg[n], s, Payload(app[n]))
              IN  t.state = "Sending" =>
                      t.session.st_min = s.st_min /\ t.timer = Timer(s.st_min)
<1>1. /\ MaySendOn(n) /\ s \in Session
      /\ s.offset = tx[n].session.offset /\ s.owner = tx[n].session.owner
      /\ s.payload_len = tx[n].session.payload_len
  <2>1. CASE s = tx[n].session /\ Resumes(n, "Sending")
    BY <2>1, Resumed DEF MaySendOn, IInv
  <2>2. CASE /\ GotFc(n, "ClearToSend")
             /\ s = Cleared(Cfg[n], tx[n].session, inbox[n][FcIndex(n)])
    <3> DEFINE f == inbox[n][FcIndex(n)]
    <3>1. /\ f.kind = "FC" /\ FrameFits(f) /\ MaySendOn(n)
          /\ tx[n].session \in Session
      BY <2>2, FcHeard, Resumed DEF IInv
    <3> HIDE DEF f
    <3>2. s = Cleared(Cfg[n], tx[n].session, f)
      BY <2>2 DEF f
    <3> QED BY <3>1, <3>2, ClearedFits
  <2> QED BY <2>1, <2>2 DEF SendsFrom
<1>2. /\ s.offset < s.payload_len /\ Payload(app[n]) \in Seq(Byte)
      /\ Len(Payload(app[n])) = s.payload_len
  BY <1>1, Resumed DEF MaySendOn, IInv
<1> QED BY <1>1, <1>2, AfterFrameFits

(* A Consecutive Frame goes out only from there.                           *)
LEMMA SendsCfFrom ==
    ASSUME IInv, NEW n \in Node, Next, SendsCf(n)
    PROVE  \E s : SendsFrom(n, s) /\ tx'[n] = AfterFrame(Cfg[n], s, Payload(app[n]))
<1> DEFINE p == Peer[n]
<1>1. /\ p \in Node /\ p # n
      /\ tx'[n] # tx[n] /\ Last(inbox'[p]).kind = "CF"
      /\ QueueFits(inbox[p]) /\ Len(inbox[p]) \in Nat /\ Len(inbox'[p]) = Len(inbox[p]) + 1
  BY NodeAssumption, QueueKept DEF SendsCf, IInv, QueuesFit
<1>2. inbox'[p] # inbox[p]
  BY <1>1
<1>3. PICK k \in Node : PollSend(k)
  BY <1>1, <1>2 DEF Next, Submit, SendTimesOut, PollRecv, Lose, Interfere, Advance
<1>4. k = n
  <2>1. UNCHANGED tx \/ \E t : Becomes(k, t)
    BY <1>3 DEF PollSend, SendTooLong, SendSingle, SendFirst, SendMismatch, FcTimeout, NoFcYet,
                WaitBroken, GotClearToSend, GotWait, GotOverflow, SendConsecutive, ContinueSend
  <2>2. k # n => tx'[n] = tx[n]
    BY <2>1 DEF Becomes, IInv, SendersFit
  <2> QED BY <1>1, <2>2
<1>5. \A rest : inbox' # [inbox EXCEPT ![n] = rest]
  BY <1>1, <1>2 DEF IInv, QueuesFit
<1>6. ~(SendTooLong(n) \/ SendSingle(n) \/ SendMismatch(n) \/ FcTimeout(n))
  BY <1>1, <1>2 DEF SendTooLong, SendSingle, SendMismatch, FcTimeout
<1>7. ~(NoFcYet(n) \/ WaitBroken(n) \/ GotWait(n) \/ GotOverflow(n))
  BY <1>5 DEF NoFcYet, WaitBroken, GotWait, GotOverflow, Consume
<1>8. ASSUME NEW rest, NEW f, Transmit(n, rest, f) PROVE f.kind = "CF"
  <2>1. inbox'[p] = Append(inbox[p], f)
    BY <1>1, <1>8 DEF Transmit, IInv, QueuesFit
  <2>2. PICK S : inbox[p] \in Seq(S)
    BY <1>1 DEF QueueFits
  <2>3. Last(Append(inbox[p], f)) = f
    BY <2>2 DEF Last
  <2> QED BY <1>1, <2>1, <2>3
<1>9. ~SendFirst(n)
  <2> SUFFICES ASSUME SendFirst(n) PROVE FALSE
    OBVIOUS
  <2>1. Transmit(n, inbox[n], FirstFrameOf(Cfg[n], Payload(app[n])))
    BY <1>1 DEF SendFirst
  <2> QED BY <1>8, <2>1 DEF FirstFrameOf, FirstFrame
<1>10. ASSUME NEW s, NEW rest, ContinueSend(n, s, rest)
       PROVE  tx'[n] = AfterFrame(Cfg[n], s, Payload(app[n]))
  <2>1. ~TransmitFails(n, rest)
    BY <1>5 DEF TransmitFails
  <2> QED BY <1>10, <2>1 DEF ContinueSend, Becomes, IInv, SendersFit
<1>11. CASE GotClearToSend(n)
  <2> DEFINE s == Cleared(Cfg[n], tx[n].session, inbox[n][FcIndex(n)])
  <2>1. ContinueSend(n, s, After(inbox[n], FcIndex(n))) /\ GotFc(n, "ClearToSend")
    BY <1>11 DEF GotClearToSend
  <2> QED BY <1>10, <2>1 DEF SendsFrom
<1>12. CASE SendConsecutive(n)
  <2>1. ContinueSend(n, tx[n].session, inbox[n]) /\ Resumes(n, "Sending")
    BY <1>12 DEF SendConsecutive
  <2> QED BY <1>10, <2>1 DEF SendsFrom
<1> QED BY <1>3, <1>4, <1>6, <1>7, <1>9, <1>11, <1>12 DEF PollSend

(* Callers that give up a send do not send another payload of that length: *)
(* the length is all poll_send compares before it resumes a session. *)
LengthsTell ==
    MayTimeOut => \A m1, m2 \in Msg : Source[m1] = Source[m2] /\ Length[m1] = Length[m2] => m1 = m2

(* A Consecutive Frame continues the payload whose First Frame opened the  *)
(* session (start_send, continue_send), whatever is lost, refused or heard.*)
THEOREM OwnFirstFrame ==
    ASSUME LengthsTell
    PROVE  Spec => ContinuesOwnFirstFrame
<1>1. ASSUME IInv, Next, NEW n \in Node, SendsCf(n)
      PROVE  tx[n].session.owner = Payload(app[n])
  <2>1. MaySendOn(n)
    BY <1>1, SendsCfFrom, SendsFromFits
  <2>2. PICK m \in Msg :
            /\ Source[m] = n
            /\ tx[n].session.owner = Payload(m) /\ tx[n].session.payload_len = Length[m]
            /\ MayTimeOut \/ app[n] = m
    BY <1>1, <2>1, OwnerKnown DEF IInv
  <2>3. /\ app[n] \in Msg /\ Source[app[n]] = n
        /\ Length[app[n]] = tx[n].session.payload_len
    BY <1>1, <2>1, Resumed DEF IInv, MaySendOn, Resumes
  <2>4. app[n] = m
    BY <2>2, <2>3 DEF LengthsTell
  <2> QED BY <2>2, <2>4
<1>2. IInv /\ [Next]_vars =>
          [\A n \in Node : SendsCf(n) => tx[n].session.owner = Payload(app[n])]_vars
  BY <1>1
<1> QED BY <1>2, StaysFit, PTL DEF Spec, ContinuesOwnFirstFrame

-----------------------------------------------------------------------------
(* The distance between Consecutive Frames.                                *)

Asked(n) == Cfg[Peer[n]].st_min

InboxPaced == DOMAIN inbox = Node /\ \A n \in Node : GrantsName(inbox[n], Asked(n))

SessionsPaced ==
    \A n \in Node : tx[n].state = "Sending" => tx[n].session.st_min >= Asked(n)

PaceInv == IInv /\ InboxPaced /\ SessionsPaced

(* Every endpoint asks for a separation time that can be encoded, and no   *)
(* other station grants anything in its name. *)
PacesEncodable == \A n \in Node : Encodes(Cfg[n].st_min)
NoForeignGrants == \A f \in Noise : ~IsGrant(f)

GrantsOwn(n, f) == IsGrant(f) => f.st_min = duration_to_st_min(Cfg[n].st_min)

(* What is left of a queue grants no faster.                               *)
LEMMA RestNames ==
    ASSUME NEW q, NEW micros, GrantsName(q, micros)
    PROVE  /\ GrantsName(<<>>, micros)
           /\ \A k \in 0..Len(q) :
                 /\ GrantsName(After(q, k), micros)
                 /\ k # 0 /\ IsGrant(q[k]) => Names(q[k].st_min, micros)
<1>1. PICK S : q \in Seq(S) /\ \A f \in S : IsGrant(f) => Names(f.st_min, micros)
  BY DEF GrantsName
<1>2. <<>> \in Seq(S)
  OBVIOUS
<1>3. ASSUME NEW k \in 0..Len(q)
      PROVE  After(q, k) \in Seq(S) /\ (k # 0 => q[k] \in S)
  BY <1>1, Remains
<1> QED BY <1>1, <1>2, <1>3 DEF GrantsName

(* What a call of n does to the queues: its own is cut down, or a frame    *)
(* that grants at n's own pace goes to the peer.                           *)
QueueStep(n) ==
    \/ UNCHANGED inbox
    \/ \E rest \in {inbox[n], <<>>} \cup {After(inbox[n], k) : k \in 0..Len(inbox[n])} :
          \/ inbox' = [inbox EXCEPT ![n] = rest]
          \/ \E f : Transmit(n, rest, f) /\ GrantsOwn(n, f)

(* Both calls do that.                                                     *)
LEMMA CallQueues ==
    ASSUME IInv, NEW n \in Node, PollSend(n) \/ PollRecv(n)
    PROVE  QueueStep(n)
<1>1. Len(inbox[n]) \in Nat
  BY QueueKept DEF IInv, QueuesFit
<1>2. FcIndex(n) \in 0..Len(inbox[n]) /\ RecvIndex(n) \in 0..Len(inbox[n])
  BY <1>1, FcStopsAt, RecvStopsAt
<1>3. /\ After(inbox[n], FcIndex(n)) \in {After(inbox[n], k) : k \in 0..Len(inbox[n])}
      /\ RecvRest(n) \in {After(inbox[n], k) : k \in 0..Len(inbox[n])}
  BY <1>2 DEF RecvRest
<1>4. /\ \A d : GrantsOwn(n, SingleFrame(d))
      /\ \A d : GrantsOwn(n, FirstFrameOf(Cfg[n], d))
      /\ \A s, d : GrantsOwn(n, NextFrame(Cfg[n], s, d))
      /\ \A r : GrantsOwn(n, Grant(Cfg[n], r))
      /\ GrantsOwn(n, OverflowFc(Cfg[n]))
  BY DEF GrantsOwn, IsGrant, SingleFrame, FirstFrameOf, FirstFrame, NextFrame,
         ConsecutiveFrame, Grant, OverflowFc, FlowControl
<1>5. CASE SendTooLong(n) \/ SendMismatch(n) \/ FcTimeout(n)
  BY <1>5 DEF SendTooLong, SendMismatch, FcTimeout, QueueStep
<1>6. CASE SendSingle(n) \/ SendFirst(n)
  BY <1>4, <1>6 DEF SendSingle, SendFirst, TransmitFails, QueueStep
<1>7. CASE NoFcYet(n) \/ WaitBroken(n) \/ GotWait(n) \/ GotOverflow(n)
  BY <1>3, <1>7 DEF NoFcYet, WaitBroken, GotWait, GotOverflow, Consume, QueueStep
<1>8. CASE GotClearToSend(n)
  <2>1. PICK s : ContinueSend(n, s, After(inbox[n], FcIndex(n)))
    BY <1>8 DEF GotClearToSend
  <2> QED BY <1>3, <1>4, <2>1 DEF ContinueSend, TransmitFails, QueueStep
<1>9. CASE SendConsecutive(n)
  BY <1>4, <1>9 DEF SendConsecutive, ContinueSend, TransmitFails, QueueStep
<1>10. CASE RecvNothing(n) \/ RecvMalformed(n) \/ RecvQuiet(n) \/ RecvCompleted(n)
  BY <1>3, <1>10 DEF RecvNothing, RecvMalformed, RecvQuiet, RecvCompleted, Consume, QueueStep
<1>11. CASE RecvOverflow(n) \/ RecvGrant(n)
  <2> DEFINE f == Grant(Cfg[n], rx'[n])
  <2>1. GrantsOwn(n, f)
    BY <1>4
  <2>2. \/ Transmit(n, RecvRest(n), OverflowFc(Cfg[n])) \/ Transmit(n, RecvRest(n), f)
        \/ TransmitFails(n, RecvRest(n))
    BY <1>11 DEF RecvOverflow, RecvGrant
  <2> HIDE DEF f
  <2> QED BY <1>3, <1>4, <2>1, <2>2 DEF TransmitFails, QueueStep
<1> QED BY <1>5, <1>6, <1>7, <1>8, <1>9, <1>10, <1>11 DEF PollSend, PollRecv

(* So the grants in the queues stay at the pace asked for.                 *)
LEMMA InboxKept ==
    ASSUME PacesEncodable, InboxPaced, NEW n \in Node, QueueStep(n)
    PROVE  InboxPaced'
<1>1. CASE UNCHANGED inbox
  BY <1>1 DEF InboxPaced, Asked
<1>2. ASSUME NEW rest,
             rest \in {inbox[n], <<>>} \cup {After(inbox[n], k) : k \in 0..Len(inbox[n])}
      PROVE  GrantsName(rest, Asked(n))
  BY <1>2, RestNames DEF InboxPaced
<1>3. ASSUME NEW rest, GrantsName(rest, Asked(n)), inbox' = [inbox EXCEPT ![n] = rest]
      PROVE  InboxPaced'
  BY <1>3 DEF InboxPaced, Asked
<1>4. ASSUME NEW rest, GrantsName(rest, Asked(n)), NEW f, GrantsOwn(n, f), Transmit(n, rest, f)
      PROVE  InboxPaced'
  <2> DEFINE p == Peer[n]
             q == Append(inbox[p], f)
  <2>1. p \in Node /\ p # n /\ Peer[p] = n
    BY NodeAssumption
  <2>2. Names(duration_to_st_min(Cfg[n].st_min), Cfg[n].st_min)
    BY CfgNumbers, EncodedNames DEF PacesEncodable
  <2>3. GrantsName(q, Asked(p))
    BY <1>4, <2>1, <2>2, QueueNames DEF InboxPaced, Asked, GrantsOwn
  <2>4. /\ DOMAIN inbox' = Node
        /\ \A k \in Node : inbox'[k] = IF k = p THEN q ELSE IF k = n THEN rest ELSE inbox[k]
    BY <1>4, <2>1 DEF Transmit, InboxPaced
  <2> HIDE DEF q
  <2> QED BY <1>4, <2>3, <2>4 DEF InboxPaced, Asked
<1> QED BY <1>1, <1>2, <1>3, <1>4 DEF QueueStep

(* A session sends on at the pace of the last grant.                       *)
LEMMA FromPaced ==
    ASSUME PaceInv, NEW n \in Node, NEW s, SendsFrom(n, s)
    PROVE  s.st_min >= Asked(n)
<1>1. CASE s = tx[n].session /\ Resumes(n, "Sending")
  BY <1>1 DEF PaceInv, SessionsPaced, Resumes
<1>2. CASE /\ GotFc(n, "ClearToSend")
           /\ s = Cleared(Cfg[n], tx[n].session, inbox[n][FcIndex(n)])
  <2> DEFINE k == FcIndex(n)
             f == inbox[n][k]
  <2>1. /\ k \in 1..Len(inbox[n]) /\ Len(inbox[n]) \in Nat
        /\ f.kind = "FC" /\ f.status = "ClearToSend" /\ FrameFits(f)
        /\ tx[n].session \in Session
    BY <1>2, FcHeard, Resumed DEF PaceInv, IInv
  <2>2. k \in 0..Len(inbox[n]) /\ k # 0
    BY <2>1
  <2> HIDE DEF k
  <2>3. GrantsName(inbox[n], Asked(n))
    BY DEF PaceInv, InboxPaced
  <2>4. Names(f.st_min, Asked(n))
    BY <2>1, <2>2, <2>3, RestNames DEF IsGrant
  <2>5. s = Cleared(Cfg[n], tx[n].session, f)
    BY <1>2 DEF k
  <2> HIDE DEF f
  <2>6. s.st_min = st_min_to_duration(f.st_min, Cfg[n].st_min)
    BY <2>1, <2>5, ClearedFits
  <2> QED BY <2>4, <2>6, CfgNumbers DEF Names
<1> QED BY <1>1, <1>2 DEF SendsFrom

(* poll_send keeps the pace.                                               *)
LEMMA PollSendPaced ==
    ASSUME PaceInv, NEW n \in Node, PollSend(n)
    PROVE  SessionsPaced'
<1>1. SessionsPaced /\ IInv
  BY DEF PaceInv
<1>2. CASE UNCHANGED tx
  BY <1>1, <1>2 DEF SessionsPaced, Asked
<1>3. ASSUME NEW t, Becomes(n, t), t.state = "Sending" => t.session.st_min >= Asked(n)
      PROVE  SessionsPaced'
  <2>1. \A k \in Node : tx'[k] = IF k = n THEN t ELSE tx[k]
    BY <1>1, <1>3 DEF Becomes, IInv, SendersFit
  <2> QED BY <1>1, <1>3, <2>1 DEF SessionsPaced, Asked
<1>4. \A s, timer : WaitingForFc(s, timer).state # "Sending" /\ TxIdle.state # "Sending"
  BY DEF WaitingForFc, TxIdle
<1>5. CASE SendTooLong(n) \/ SendSingle(n) \/ NoFcYet(n)
  BY <1>2, <1>5 DEF SendTooLong, SendSingle, NoFcYet
<1>6. CASE SendFirst(n)
  BY <1>2, <1>3, <1>4, <1>6 DEF SendFirst
<1>7. CASE GotWait(n)
  BY <1>3, <1>4, <1>7 DEF GotWait
<1>8. CASE SendMismatch(n) \/ FcTimeout(n) \/ WaitBroken(n) \/ GotOverflow(n)
  BY <1>3, <1>4, <1>8 DEF SendMismatch, FcTimeout, WaitBroken, GotOverflow
<1>9. ASSUME NEW s, SendsFrom(n, s), NEW rest, ContinueSend(n, s, rest)
      PROVE  SessionsPaced'
  <2> DEFINE t == AfterFrame(Cfg[n], s, Payload(app[n]))
  <2>1. Becomes(n, TxIdle) \/ Becomes(n, t)
    BY <1>9 DEF ContinueSend
  <2>2. s.st_min >= Asked(n)
    BY <1>9, FromPaced
  <2>3. t.state = "Sending" => t.session.st_min = s.st_min
    BY <1>1, <1>9, SendsFromFits
  <2> HIDE DEF t
  <2> QED BY <1>3, <1>4, <2>1, <2>2, <2>3
<1>10. CASE GotClearToSend(n)
  <2> DEFINE s == Cleared(Cfg[n], tx[n].session, inbox[n][FcIndex(n)])
  <2>1. ContinueSend(n, s, After(inbox[n], FcIndex(n))) /\ GotFc(n, "ClearToSend")
    BY <1>10 DEF GotClearToSend
  <2> QED BY <1>9, <2>1 DEF SendsFrom
<1>11. CASE SendConsecutive(n)
  <2>1. ContinueSend(n, tx[n].session, inbox[n]) /\ Resumes(n, "Sending")
    BY <1>11 DEF SendConsecutive
  <2> QED BY <1>9, <2>1 DEF SendsFrom
<1> QED BY <1>5, <1>6, <1>7, <1>8, <1>10, <1>11 DEF PollSend

(* No sessions and no grants, at first.                                    *)
LEMMA InitPaced == Init => PaceInv
<1> SUFFICES ASSUME Init PROVE PaceInv
  OBVIOUS
<1>1. \A micros : GrantsName(<<>>, micros)
  <2> DEFINE S == {}
  <2>1. <<>> \in Seq(S) /\ \A f : f \notin S
    OBVIOUS
  <2> HIDE DEF S
  <2> QED BY <2>1 DEF GrantsName
<1>2. InboxPaced
  BY <1>1 DEF Init, InboxPaced
<1>3. SessionsPaced
  BY IdleFits DEF Init, SessionsPaced
<1> QED BY <1>2, <1>3, InitIInv DEF PaceInv

(* Every step keeps the pace.                                              *)
LEMMA NextPaced ==
    ASSUME PacesEncodable, NoForeignGrants, PaceInv, [Next]_vars
    PROVE  PaceInv'
<1>1. IInv /\ IInv' /\ InboxPaced
  BY NextIInv DEF PaceInv
<1> SUFFICES InboxPaced' /\ SessionsPaced'
  BY <1>1 DEF PaceInv
<1>2. ASSUME UNCHANGED tx PROVE SessionsPaced'
  BY <1>2 DEF PaceInv, SessionsPaced, Asked
<1>3. ASSUME UNCHANGED inbox PROVE InboxPaced'
  BY <1>1, <1>3 DEF InboxPaced, Asked
<1>4. ASSUME NEW n \in Node, PollSend(n) \/ PollRecv(n) PROVE InboxPaced' /\ SessionsPaced'
  <2>1. InboxPaced'
    BY <1>1, <1>4, CallQueues, InboxKept
  <2>2. SessionsPaced'
    BY <1>2, <1>4, PollSendPaced DEF PollRecv
  <2> QED BY <2>1, <2>2
<1>5. ASSUME NEW n \in Node, Submit(n) \/ SendTimesOut(n) PROVE InboxPaced' /\ SessionsPaced'
  BY <1>2, <1>3, <1>5 DEF Submit, SendTimesOut
<1>6. ASSUME NEW n \in Node, Lose(n) PROVE InboxPaced' /\ SessionsPaced'
  <2>1. PICK i \in 1..Len(inbox[n]) : inbox' = [inbox EXCEPT ![n] = RemoveAt(@, i)]
    BY <1>6 DEF Lose
  <2>2. InboxPaced'
    BY <1>1, <2>1, QueueNames DEF InboxPaced, Asked
  <2> QED BY <1>2, <1>6, <2>2 DEF Lose
<1>7. ASSUME NEW n \in Node, Interfere(n) PROVE InboxPaced' /\ SessionsPaced'
  <2>1. PICK f \in Noise : inbox' = [inbox EXCEPT ![n] = Append(@, f)]
    BY <1>7 DEF Interfere
  <2>2. ~IsGrant(f)
    BY DEF NoForeignGrants
  <2>3. InboxPaced'
    BY <1>1, <2>1, <2>2, QueueNames DEF InboxPaced, Asked
  <2> QED BY <1>2, <1>7, <2>3 DEF Interfere
<1>8. CASE Advance
  <2>1. \A n \in Node : tx'[n] = Later(tx[n]) /\ TxFits(tx[n])
    BY <1>1, <1>8 DEF Advance, IInv, SendersFit, SendFits
  <2>2. SessionsPaced'
    BY <2>1, LaterFits DEF PaceInv, SessionsPaced, Asked
  <2> QED BY <1>3, <1>8, <2>2 DEF Advance
<1>9. CASE UNCHANGED vars
  BY <1>2, <1>3, <1>9 DEF vars
<1> QED BY <1>4, <1>5, <1>6, <1>7, <1>8, <1>9 DEF Next

(* Behind each Consecutive Frame of a block the sender sets its timer to   *)
(* the separation time of the receiver or more, when every endpoint asks   *)
(* for a time that a byte can name and no other station grants in its name.*)
THEOREM SeparationKept ==
    ASSUME PacesEncodable, NoForeignGrants
    PROVE  Spec => SeparationTimeHonoured
<1>1. PaceInv /\ [Next]_vars => PaceInv'
  BY NextPaced
<1>2. ASSUME PaceInv, Next, NEW n \in Node, SendsCf(n), tx'[n].state = "Sending"
      PROVE  tx'[n].timer * Tick >= Cfg[Peer[n]].st_min
  <2>1. PICK s : SendsFrom(n, s) /\ tx'[n] = AfterFrame(Cfg[n], s, Payload(app[n]))
    BY <1>2, SendsCfFrom DEF PaceInv
  <2>2. tx'[n].timer = Timer(s.st_min) /\ s \in Session
    BY <1>2, <2>1, SendsFromFits DEF PaceInv
  <2>3. s.st_min >= Asked(n)
    BY <1>2, <2>1, FromPaced
  <2>4. s.st_min \in Nat
    BY <2>2 DEF Session
  <2>5. Timer(s.st_min) \in Nat /\ Timer(s.st_min) * Tick >= s.st_min
    BY <2>4, TimerFits
  <2>6. Asked(n) \in Nat /\ Timer(s.st_min) * Tick \in Nat
    BY <2>5, TickAssumption, NodeAssumption, CfgNumbers DEF Asked
  <2>7. Timer(s.st_min) * Tick >= Asked(n)
    BY <2>3, <2>4, <2>5, <2>6
  <2> QED BY <2>2, <2>7 DEF Asked
<1>3. PaceInv /\ [Next]_vars =>
          [\A n \in Node : SendsCf(n) /\ tx'[n].state = "Sending" =>
              tx'[n].timer * Tick >= Cfg[Peer[n]].st_min]_vars
  BY <1>2
<1> QED BY <1>1, <1>3, InitPaced, PTL DEF Spec, SeparationTimeHonoured

-----------------------------------------------------------------------------
(***************************************************************************)
(* Both directions of the link, for any losses.                            *)
(***************************************************************************)

(* How far a session is once k Consecutive Frames are out. *)
At(n, k) == max_first_frame_payload(Cfg[n]) + k * max_consecutive_frame_payload(Cfg[n])

Prefix(n, x, k) == SubSeq(Payload(x), 1, At(n, k))

(* The frames of message x. *)
Sf(n, f, x) ==
    f = SingleFrame(Payload(x)) /\ Length[x] <= max_single_frame_payload(Cfg[n])

Ff(n, f, x) ==
    f = FirstFrameOf(Cfg[n], Payload(x)) /\ Length[x] > max_single_frame_payload(Cfg[n])

Cf(n, f, x, k) ==
    /\ f.kind = "CF" /\ At(n, k) < Length[x]
    /\ f.data = Padded(Cfg[n], SubSeq(Payload(x), At(n, k) + 1, Lesser(At(n, k + 1), Length[x])))

(* The peer takes the Single Frames of n; if not, it takes no First Frame. *)
Fitting(n) == max_single_frame_payload(Cfg[n]) <= Room(Cfg[Peer[n]])

(* x was submitted before y. *)
Before(S, x, y) == \A i, j \in 1..Len(S) : S[i] = x /\ S[j] = y => i < j

(* Neither x nor a message after it was delivered. *)
Fresh(S, D, x) ==
    \A i, j \in 1..Len(S) : S[i] = x /\ i <= j => ~Contains(D, Payload(S[j]))

(* d is the payload of such a message. *)
IsNext(S, D, d) == \E x \in Msg : Contains(S, x) /\ Fresh(S, D, x) /\ d = Payload(x)

NoFc(g) == \A i \in 1..Len(g) : g[i].kind # "FC"
NoGrant(g) == \A i \in 1..Len(g) : g[i].kind = "FC" => g[i].status = "Overflow"

Waits(t) == t.state = "WaitingForFc" /\ t.timer > 0

Story(S, m, D) ==
    /\ S \in Seq(Msg) /\ D \in Seq(Seq(Byte))
    /\ \A i, j \in 1..Len(S) : S[i] = S[j] => i = j
    /\ \A d \in 1..Len(D) : \E x \in Msg : Contains(S, x) /\ D[d] = Payload(x)
    /\ m # NoMsg => Len(S) > 0 /\ m = S[Len(S)] /\ Fresh(S, D, m)

SessionOf(n, m, t, k) ==
    t.state # "Idle" =>
        /\ m # NoMsg
        /\ t.session.wait_count = 0
        /\ t.session.payload_len = Length[m]
        /\ t.session.offset = At(n, k)
        /\ Length[m] > max_single_frame_payload(Cfg[n])

AnswersAre(n, t, g) ==
    /\ \A i \in 1..Len(g) : g[i].kind = "FC" =>
          /\ g[i].status \in {"ClearToSend", "Overflow"}
          /\ g[i].status = "ClearToSend" => g[i].block_size = Cfg[Peer[n]].block_size
          /\ Fitting(n) => Waits(t)
    /\ \A i, j \in 1..Len(g) : Fitting(n) /\ g[i].kind = "FC" /\ g[j].kind = "FC" => i = j

SinglesAre(n, S, m, q, D) ==
    /\ \A i \in 1..Len(q) : q[i].kind = "SF" =>
          \E x \in Msg : Sf(n, q[i], x) /\ Contains(S, x) /\ x # m /\ Fresh(S, D, x)
    /\ \A i, j \in 1..Len(q) : i < j /\ q[i].kind = "SF" /\ q[j].kind = "SF" =>
          \A x, y \in Msg : Sf(n, q[i], x) /\ Sf(n, q[j], y) => Before(S, x, y)

FirstIs(n, m, t, k, q, g) ==
    \A i \in 1..Len(q) : q[i].kind = "FF" =>
        /\ \E x \in Msg : Ff(n, q[i], x)
        /\ Fitting(n) =>
              /\ Waits(t) /\ k = 0 /\ Ff(n, q[i], m) /\ NoFc(g)
              /\ \A j \in 1..Len(q) : q[j].kind = "FF" => i = j
              /\ \A j \in 1..Len(q) : q[j].kind = "SF" => j < i

NothingOpen(t, q, g) == NoCf(q) /\ t.state # "Sending" /\ NoGrant(g)

OpenFor(n, S, m, t, r, D, x, e) ==
    /\ Contains(S, x) /\ Fresh(S, D, x)
    /\ m = x => t.state # "Idle"
    /\ Length[x] > max_single_frame_payload(Cfg[n])
    /\ Length[x] <= Room(Cfg[Peer[n]])
    /\ r.expected_len = Length[x]
    /\ Len(r.content) < Length[x] /\ Len(r.content) <= At(n, e)
    /\ r.block_size = Cfg[Peer[n]].block_size
    /\ r.block_size > 0 => r.block_remaining \in 1..r.block_size

EndsBlock(n, m, t, k, q, g, x, no) ==
    \/ At(n, no + 1) >= Length[x]
    \/ Waits(t) /\ m = x /\ k = no + 1 /\ NoFc(g) /\ NoFf(q)

Continues(n, m, t, k, q, g, r, x, e, no) ==
    /\ e <= no
    /\ r.content = Prefix(n, x, e) \/ e < no
    /\ m = x => no < k
    /\ r.block_size > 0 =>
          \/ no + 1 < e + r.block_remaining
          \/ no + 1 = e + r.block_remaining /\ EndsBlock(n, m, t, k, q, g, x, no)

QueueFollows(n, S, m, t, k, q, g, r, x, e) ==
    /\ \A i \in 1..Len(q) : q[i].kind = "SF" =>
          \A y \in Msg : Sf(n, q[i], y) => Before(S, x, y)
    /\ \A i \in 1..Len(q) : q[i].kind = "CF" =>
          \E no \in Nat : Cf(n, q[i], x, no) /\ Continues(n, m, t, k, q, g, r, x, e, no)
    /\ \A i, j \in 1..Len(q) : i < j /\ q[i].kind = "CF" /\ q[j].kind = "CF" =>
          \A u, v \in Nat : Cf(n, q[i], x, u) /\ Cf(n, q[j], x, v) => u < v

SenderFollows(n, m, t, k, g, r, x, e) ==
    /\ t.state = "Sending" =>
          /\ m = x /\ e <= k
          /\ r.content = Prefix(n, x, e) \/ e < k
          /\ r.block_size > 0 =>
                /\ t.session.block_size = r.block_size
                /\ t.session.block_remaining > 0
                /\ r.block_remaining + e = t.session.block_remaining + k
    /\ ~NoGrant(g) =>
          /\ m = x /\ e = k /\ r.content = Prefix(n, x, e)
          /\ r.block_size > 0 => r.block_remaining = r.block_size

Opened(n, S, m, t, q, g, r, D, k, x, e) ==
    /\ OpenFor(n, S, m, t, r, D, x, e)
    /\ QueueFollows(n, S, m, t, k, q, g, r, x, e)
    /\ SenderFollows(n, m, t, k, g, r, x, e)

LinkAt(n, S, m, t, q, g, r, D, k) ==
    /\ Story(S, m, D) /\ SessionOf(n, m, t, k)
    /\ AnswersAre(n, t, g)
    /\ SinglesAre(n, S, m, q, D)
    /\ FirstIs(n, m, t, k, q, g)
    /\ IF r.state = "Idle" THEN NothingOpen(t, q, g)
       ELSE \E x \in Msg, e \in Nat : Opened(n, S, m, t, q, g, r, D, k, x, e)

Link(n, S, m, t, q, g, r, D) == \E k \in Nat : LinkAt(n, S, m, t, q, g, r, D, k)

-----------------------------------------------------------------------------
(* The distance of Consecutive Frames.                                     *)
LEMMA Steps ==
    ASSUME NEW n \in Node
    PROVE  /\ max_first_frame_payload(Cfg[n]) \in Nat \ {0}
           /\ max_consecutive_frame_payload(Cfg[n]) \in Nat \ {0}
           /\ max_single_frame_payload(Cfg[n]) \in Nat
           /\ max_first_frame_payload(Cfg[n]) <= max_single_frame_payload(Cfg[n])
           /\ At(n, 0) = max_first_frame_payload(Cfg[n])
           /\ \A k \in Nat : At(n, k) \in Nat \ {0}
           /\ \A k \in Nat : At(n, k + 1) = At(n, k) + max_consecutive_frame_payload(Cfg[n])
           /\ \A j, k \in Nat : j < k => At(n, j) < At(n, k) /\ At(n, j + 1) <= At(n, k)
<1> DEFINE a == max_first_frame_payload(Cfg[n])
           c == max_consecutive_frame_payload(Cfg[n])
<1>1. Cfg[n].frame_len \in Nat /\ Cfg[n].frame_len > 2
  BY CfgNumbers, CfgAssumption
<1>2. a \in Nat \ {0} /\ c \in Nat \ {0}
  BY <1>1 DEF max_first_frame_payload, max_consecutive_frame_payload, Saturating
<1>3. max_single_frame_payload(Cfg[n]) \in Nat /\ a <= max_single_frame_payload(Cfg[n])
  BY <1>1, FrameRoom
<1>4. \A k : At(n, k) = a + k * c
  BY DEF At
<1> HIDE DEF a, c
<1>5. At(n, 0) = a
  BY <1>2, <1>4
<1>6. ASSUME NEW k \in Nat PROVE At(n, k) \in Nat \ {0} /\ At(n, k + 1) = At(n, k) + c
  <2>1. k * c \in Nat /\ (k + 1) * c = k * c + c
    BY <1>2
  <2>2. At(n, k) = a + k * c /\ At(n, k + 1) = a + (k + 1) * c
    BY <1>4
  <2> DEFINE u == k * c
             v == (k + 1) * c
  <2>3. u \in Nat /\ v = u + c /\ At(n, k) = a + u /\ At(n, k + 1) = a + v
    BY <2>1, <2>2
  <2> HIDE DEF u, v
  <2>4. At(n, k) \in Nat \ {0}
    BY <1>2, <2>3
  <2>5. At(n, k + 1) = At(n, k) + c
    BY <1>2, <2>3
  <2> QED BY <2>4, <2>5
<1>7. ASSUME NEW j \in Nat, NEW k \in Nat, j < k
      PROVE  At(n, j) < At(n, k) /\ At(n, j + 1) <= At(n, k)
  <2>1. PICK d \in Nat : k = j + 1 + d
    <3>1. k - j - 1 \in Nat /\ k = j + 1 + (k - j - 1)
      BY <1>7
    <3> QED BY <3>1
  <2>2. k * c = (j + 1) * c + d * c /\ d * c \in Nat /\ (j + 1) * c \in Nat
    <3> DEFINE u == j + 1
    <3>1. u \in Nat /\ k = u + d
      BY <2>1
    <3> HIDE DEF u
    <3>2. u * c \in Nat /\ d * c \in Nat /\ (u + d) * c = u * c + d * c
      BY <1>2, <3>1
    <3> QED BY <3>1, <3>2 DEF u
  <2>3. At(n, j + 1) <= At(n, k)
    BY <1>2, <1>4, <2>2
  <2>4. At(n, j) < At(n, j + 1) /\ At(n, j) \in Nat /\ At(n, j + 1) \in Nat /\ At(n, k) \in Nat
    BY <1>2, <1>6
  <2> QED BY <2>3, <2>4
<1> QED BY <1>2, <1>3, <1>5, <1>6, <1>7 DEF a, c

(* Each byte of a payload tells the message and the place.                 *)
LEMMA PayloadByte ==
    ASSUME NEW x \in Msg
    PROVE  /\ Payload(x) \in Seq(Byte) /\ Len(Payload(x)) = Length[x] /\ Length[x] \in Nat
           /\ \A i \in 1..Length[x] : Payload(x)[i] = <<x, i>>
BY PayloadFits DEF Payload

(* No message is empty. *)
NonEmpty == \A x \in Msg : Length[x] > 0

(* A Single Frame tells its message.                                       *)
LEMMA SfKnown ==
    ASSUME NonEmpty, NEW n \in Node, NEW f, NEW x \in Msg, Sf(n, f, x)
    PROVE  /\ f.kind = "SF" /\ f.data = Payload(x)
           /\ \A y \in Msg : Sf(n, f, y) => x = y
<1>1. f.kind = "SF" /\ f.data = Payload(x)
  BY DEF Sf, SingleFrame
<1>2. ASSUME NEW y \in Msg, Sf(n, f, y) PROVE x = y
  <2>1. f.data = Payload(y)
    BY <1>2 DEF Sf, SingleFrame
  <2>2. 1 \in 1..Length[x] /\ 1 \in 1..Length[y]
    BY PayloadByte DEF NonEmpty
  <2>3. Payload(x)[1] = <<x, 1>> /\ Payload(y)[1] = <<y, 1>>
    BY <2>2, PayloadByte
  <2> QED BY <1>1, <2>1, <2>3
<1> QED BY <1>1, <1>2

(* A First Frame carries the beginning of its message.                     *)
LEMMA FfKnown ==
    ASSUME NEW n \in Node, NEW f, NEW x \in Msg, Ff(n, f, x)
    PROVE  /\ f.kind = "FF" /\ f.len = Length[x] /\ f.data = Prefix(n, x, 0)
           /\ f.data \in Seq(Byte) /\ Len(f.data) = At(n, 0)
           /\ At(n, 0) < Length[x]
<1>1. f.kind = "FF" /\ f.len = Length[x] /\ f.data = Prefix(n, x, 0)
  <2>1. /\ f.kind = "FF" /\ f.len = Len(Payload(x))
        /\ f.data = SubSeq(Payload(x), 1, max_first_frame_payload(Cfg[n]))
    BY DEF Ff, FirstFrameOf, FirstFrame
  <2>2. At(n, 0) = max_first_frame_payload(Cfg[n]) /\ Len(Payload(x)) = Length[x]
    BY Steps, PayloadByte
  <2> QED BY <2>1, <2>2 DEF Prefix
<1>2. At(n, 0) < Length[x] /\ At(n, 0) \in Nat
  <2> DEFINE u == At(n, 0)
             v == max_single_frame_payload(Cfg[n])
             l == Length[x]
  <2>1. u \in Nat /\ v \in Nat /\ u <= v
    BY Steps
  <2>2. l \in Nat /\ l > v
    BY PayloadByte DEF Ff
  <2> HIDE DEF u, v, l
  <2>3. u < l
    BY <2>1, <2>2
  <2> QED BY <2>1, <2>3 DEF u, l
<1>3. At(n, 0) \in 0..Len(Payload(x)) /\ Payload(x) \in Seq(Byte)
  BY <1>2, PayloadByte
<1>4. f.data \in Seq(Byte) /\ Len(f.data) = At(n, 0)
  BY <1>1, <1>3, PrefixOf DEF Prefix
<1> QED BY <1>1, <1>2, <1>4

(* Padding goes behind what a frame carries and fills it up.               *)
LEMMA PaddedFits ==
    ASSUME NEW n \in Node, NEW chunk \in Seq(Byte),
           Len(chunk) <= max_consecutive_frame_payload(Cfg[n])
    PROVE  LET data == Padded(Cfg[n], chunk)
           IN  /\ data \in Seq(Byte) /\ Len(data) \in Len(chunk)..max_consecutive_frame_payload(Cfg[n])
               /\ \A i \in 1..Len(chunk) : data[i] = chunk[i]
<1> DEFINE m == max_consecutive_frame_payload(Cfg[n])
           gap == m - Len(chunk)
           pad == [i \in 1..gap |-> Pad]
           data == Padded(Cfg[n], chunk)
<1>1. m \in Nat /\ Len(chunk) \in Nat /\ gap \in Nat /\ Len(chunk) + gap = m
  <2>1. m \in Nat /\ Len(chunk) \in Nat /\ Len(chunk) <= m
    BY Steps
  <2> HIDE DEF m
  <2> QED BY <2>1
<1>2. data = IF Cfg[n].padding THEN chunk \o pad ELSE chunk
  BY DEF Padded
<1> HIDE DEF m, data, gap
<1>3. pad \in [1..gap -> Byte]
  BY DEF Byte
<1>4. pad \in Seq(Byte) /\ Len(pad) = gap
  BY <1>1, <1>3
<1> HIDE DEF pad
<1>5. /\ chunk \o pad \in Seq(Byte) /\ Len(chunk \o pad) = Len(chunk) + Len(pad)
      /\ \A i \in 1..(Len(chunk) + Len(pad)) :
            (chunk \o pad)[i] = IF i <= Len(chunk) THEN chunk[i] ELSE pad[i - Len(chunk)]
  BY <1>4, ConcatProperties
<1>6. \A i \in 1..Len(chunk) : (chunk \o pad)[i] = chunk[i]
  <2>1. \A i \in 1..Len(chunk) : i \in 1..(Len(chunk) + Len(pad)) /\ i <= Len(chunk)
    BY <1>1, <1>4
  <2> QED BY <1>5, <2>1
<1>7. CASE Cfg[n].padding
  <2>1. data = chunk \o pad
    BY <1>2, <1>7
  <2>2. Len(data) = m /\ Len(chunk) <= m
    BY <1>1, <1>4, <1>5, <2>1
  <2>3. Len(data) \in Len(chunk)..m
    BY <1>1, <2>2
  <2> QED BY <1>5, <1>6, <2>1, <2>3 DEF data, m
<1>8. CASE ~Cfg[n].padding
  <2>1. data = chunk /\ Len(chunk) \in Len(chunk)..m
    BY <1>1, <1>2, <1>8 DEF gap
  <2> QED BY <2>1 DEF data, m
<1> QED BY <1>7, <1>8

(* A Consecutive Frame tells its number, and is no longer than a step.     *)
LEMMA CfKnown ==
    ASSUME NEW n \in Node, NEW f, NEW x \in Msg, NEW k \in Nat, Cf(n, f, x, k)
    PROVE  /\ f.data \in Seq(Byte) /\ Len(f.data) \in Nat
           /\ Len(f.data) <= max_consecutive_frame_payload(Cfg[n])
           /\ At(n, k) < Length[x]
           /\ \A j \in Nat : Cf(n, f, x, j) => k = j
<1> DEFINE c == max_consecutive_frame_payload(Cfg[n])
<1>1. ASSUME NEW j \in Nat, Cf(n, f, x, j)
      PROVE  /\ f.data \in Seq(Byte) /\ Len(f.data) \in Nat /\ Len(f.data) <= c
             /\ f.data[1] = <<x, At(n, j) + 1>>
  <2> DEFINE p == Payload(x)
             b == At(n, j)
             e == Lesser(At(n, j + 1), Length[x])
             chunk == SubSeq(p, b + 1, e)
  <2>1. b \in Nat /\ c \in Nat \ {0} /\ At(n, j + 1) = b + c /\ Length[x] \in Nat /\ b < Length[x]
    BY <1>1, Steps, PayloadByte DEF Cf
  <2>2. e \in Nat /\ b < e /\ e <= b + c /\ e <= Length[x]
    BY <2>1 DEF Lesser
  <2>3. p \in Seq(Byte) /\ Len(p) = Length[x] /\ p[b + 1] = <<x, b + 1>>
    <3>1. b + 1 \in 1..Length[x]
      BY <2>1
    <3> QED BY <3>1, PayloadByte
  <2> HIDE DEF p, b, e, c
  <2>4. \A i \in (b + 1)..e : p[i] \in Byte
    BY <2>1, <2>2, <2>3
  <2>5. /\ chunk \in Seq(Byte) /\ Len(chunk) = e - b
        /\ chunk[1] = p[b + 1]
    <3>1. /\ chunk \in Seq(Byte) /\ Len(chunk) = IF b + 1 <= e THEN e - (b + 1) + 1 ELSE 0
          /\ \A i \in 1..(e - (b + 1) + 1) : chunk[i] = p[b + 1 + i - 1]
      BY <2>1, <2>2, <2>4, SubSeqProperties
    <3>2. 1 \in 1..(e - (b + 1) + 1) /\ b + 1 + 1 - 1 = b + 1 /\ e - (b + 1) + 1 = e - b
      BY <2>1, <2>2
    <3>3. chunk[1] = p[b + 1 + 1 - 1]
      BY <3>1, <3>2
    <3>4. Len(chunk) = e - b
      BY <2>1, <2>2, <3>1
    <3> QED BY <3>1, <3>2, <3>3, <3>4
  <2>6. f.data = Padded(Cfg[n], chunk)
    BY <1>1 DEF Cf, chunk, p, b, e
  <2>7. Len(chunk) <= c /\ 1 \in 1..Len(chunk)
    BY <2>1, <2>2, <2>5
  <2> HIDE DEF chunk
  <2>8. /\ f.data \in Seq(Byte) /\ Len(f.data) \in Len(chunk)..c
        /\ f.data[1] = chunk[1]
    BY <2>5, <2>6, <2>7, PaddedFits DEF c
  <2>9. Len(f.data) \in Nat /\ Len(f.data) <= c
    BY <2>1, <2>7, <2>8
  <2> QED BY <2>3, <2>5, <2>8, <2>9 DEF b
<1>2. ASSUME NEW j \in Nat, Cf(n, f, x, j) PROVE k = j
  <2> DEFINE u == At(n, k)
             v == At(n, j)
  <2>1. f.data[1] = <<x, u + 1>> /\ f.data[1] = <<x, v + 1>>
    BY <1>1, <1>2
  <2>2. u \in Nat /\ v \in Nat /\ (k < j => u < v) /\ (j < k => v < u)
    BY Steps
  <2> HIDE DEF u, v
  <2>3. u + 1 = v + 1
    BY <2>1
  <2>4. u = v
    BY <2>2, <2>3
  <2> QED BY <2>2, <2>4
<1>3. At(n, k) < Length[x]
  BY DEF Cf
<1> QED BY <1>1, <1>2, <1>3 DEF c

(* continue_send sends the frame its session has come to.                  *)
LEMMA NextIsCf ==
    ASSUME NEW n \in Node, NEW x \in Msg, NEW s \in Session, NEW k \in Nat,
           s.offset = At(n, k), s.payload_len = Length[x], At(n, k) < Length[x]
    PROVE  Cf(n, NextFrame(Cfg[n], s, Payload(x)), x, k)
<1>1. At(n, k + 1) = At(n, k) + max_consecutive_frame_payload(Cfg[n])
  BY Steps
<1> DEFINE data == Padded(Cfg[n], SubSeq(Payload(x), At(n, k) + 1, Lesser(At(n, k + 1), Length[x])))
           f == NextFrame(Cfg[n], s, Payload(x))
<1>2. f = ConsecutiveFrame(s.next_sn % SnMod, data)
  BY <1>1 DEF NextFrame, NextChunk
<1> HIDE DEF data, f
<1>3. f.kind = "CF" /\ f.data = data
  BY <1>2 DEF ConsecutiveFrame
<1> QED BY <1>3 DEF Cf, data, f

-----------------------------------------------------------------------------
(* Queues that lost frames. *)

(* The frames left behind frame k.                                         *)
LEMMA RestAt ==
    ASSUME NEW q, QueueFits(q), NEW k \in 0..Len(q)
    PROVE  /\ Len(q) \in Nat /\ Len(After(q, k)) = Len(q) - k
           /\ \A j \in 1..Len(After(q, k)) : k + j \in 1..Len(q) /\ After(q, k)[j] = q[k + j]
BY QueueIs, TailAt DEF After, Beyond

(* A queue with frames taken or lost, or one of another kind added.        *)
LEMMA Withins ==
    ASSUME NEW q, QueueFits(q), NEW K
    PROVE  /\ Within(q, q, K) /\ Within(<<>>, q, K)
           /\ \A k \in 0..Len(q) : Within(After(q, k), q, K)
           /\ \A i \in 1..Len(q) : Within(RemoveAt(q, i), q, K)
           /\ \A f : f.kind \notin K => Within(Append(q, f), q, K)
BY QueueIs, WithinQueue DEF After, Beyond

(* Fewer frames, fewer answers.                                            *)
LEMMA AnswersKept ==
    ASSUME NEW g2, NEW g, Within(g2, g, {"FC"})
    PROVE  /\ NoFc(g) => NoFc(g2)
           /\ NoGrant(g) => NoGrant(g2)
           /\ \A n, t : AnswersAre(n, t, g) => AnswersAre(n, t, g2)
<1> DEFINE K == {"FC"}
<1>0. PICK h \in [1..Len(g2) -> Nat] :
        /\ \A i \in 1..Len(g2) : g2[i].kind \in K => h[i] \in 1..Len(g) /\ g2[i] = g[h[i]]
        /\ \A i, j \in 1..Len(g2) : g2[i].kind \in K /\ g2[j].kind \in K /\ h[i] = h[j] =>
              i = j
  <2> HIDE DEF K
  <2>1. Within(g2, g, K)
    BY DEF K
  <2> QED BY <2>1, FoundIn
<1>1. /\ \A i \in 1..Len(g2) : g2[i].kind = "FC" => h[i] \in 1..Len(g) /\ g2[i] = g[h[i]]
      /\ \A i, j \in 1..Len(g2) : g2[i].kind = "FC" /\ g2[j].kind = "FC" /\ h[i] = h[j] =>
            i = j
  BY <1>0
<1>2. NoFc(g) => NoFc(g2)
  BY <1>1 DEF NoFc
<1>3. NoGrant(g) => NoGrant(g2)
  BY <1>1 DEF NoGrant
<1>4. ASSUME NEW n, NEW t, AnswersAre(n, t, g) PROVE AnswersAre(n, t, g2)
  <2>1. ASSUME NEW i \in 1..Len(g2), g2[i].kind = "FC"
        PROVE  /\ g2[i].status \in {"ClearToSend", "Overflow"}
               /\ g2[i].status = "ClearToSend" => g2[i].block_size = Cfg[Peer[n]].block_size
               /\ Fitting(n) => Waits(t)
    BY <1>1, <1>4, <2>1 DEF AnswersAre
  <2>2. ASSUME NEW i \in 1..Len(g2), NEW j \in 1..Len(g2),
               Fitting(n), g2[i].kind = "FC", g2[j].kind = "FC"
        PROVE  i = j
    <3>1. /\ h[i] \in 1..Len(g) /\ h[j] \in 1..Len(g)
          /\ g[h[i]].kind = "FC" /\ g[h[j]].kind = "FC"
      BY <1>1, <2>2
    <3>2. h[i] = h[j]
      BY <1>4, <2>2, <3>1 DEF AnswersAre
    <3> QED BY <1>1, <2>2, <3>2
  <2> QED BY <2>1, <2>2 DEF AnswersAre
<1> QED BY <1>2, <1>3, <1>4

(* Fewer Single Frames.                                                    *)
LEMMA SinglesKept ==
    ASSUME NEW q2, NEW q, Within(q2, q, DataKinds),
           NEW n, NEW S, NEW m, NEW D, SinglesAre(n, S, m, q, D)
    PROVE  SinglesAre(n, S, m, q2, D)
<1>1. PICK h \in [1..Len(q2) -> Nat] :
        /\ \A i \in 1..Len(q2) : q2[i].kind \in DataKinds => h[i] \in 1..Len(q) /\ q2[i] = q[h[i]]
        /\ \A i, j \in 1..Len(q2) :
              i < j /\ q2[i].kind \in DataKinds /\ q2[j].kind \in DataKinds => h[i] < h[j]
  BY DEF Within
<1>2. ASSUME NEW i \in 1..Len(q2), q2[i].kind = "SF"
      PROVE  \E x \in Msg : Sf(n, q2[i], x) /\ Contains(S, x) /\ x # m /\ Fresh(S, D, x)
  <2>1. h[i] \in 1..Len(q) /\ q2[i] = q[h[i]]
    BY <1>1, <1>2 DEF DataKinds
  <2> QED BY <1>2, <2>1 DEF SinglesAre
<1>3. ASSUME NEW i \in 1..Len(q2), NEW j \in 1..Len(q2),
             i < j, q2[i].kind = "SF", q2[j].kind = "SF", NEW x \in Msg, NEW y \in Msg,
             Sf(n, q2[i], x), Sf(n, q2[j], y)
      PROVE  Before(S, x, y)
  <2>1. /\ h[i] \in 1..Len(q) /\ q2[i] = q[h[i]] /\ h[j] \in 1..Len(q) /\ q2[j] = q[h[j]]
        /\ h[i] < h[j]
    BY <1>1, <1>3 DEF DataKinds
  <2> QED BY <1>3, <2>1 DEF SinglesAre
<1> QED BY <1>2, <1>3 DEF SinglesAre

(* Fewer First Frames and answers.                                         *)
LEMMA FirstKept ==
    ASSUME NEW q2, NEW q, Within(q2, q, DataKinds), NEW g2, NEW g, Within(g2, g, {"FC"}),
           NEW n, NEW m, NEW t, NEW k, FirstIs(n, m, t, k, q, g)
    PROVE  FirstIs(n, m, t, k, q2, g2)
<1>1. PICK h \in [1..Len(q2) -> Nat] :
        /\ \A i \in 1..Len(q2) : q2[i].kind \in DataKinds => h[i] \in 1..Len(q) /\ q2[i] = q[h[i]]
        /\ \A i, j \in 1..Len(q2) :
              i < j /\ q2[i].kind \in DataKinds /\ q2[j].kind \in DataKinds => h[i] < h[j]
        /\ \A i, j \in 1..Len(q2) :
              q2[i].kind \in DataKinds /\ q2[j].kind \in DataKinds /\ h[i] = h[j] => i = j
  BY FoundIn
<1> SUFFICES ASSUME NEW i \in 1..Len(q2), q2[i].kind = "FF"
             PROVE  /\ \E x \in Msg : Ff(n, q2[i], x)
                    /\ Fitting(n) =>
                          /\ Waits(t) /\ k = 0 /\ Ff(n, q2[i], m) /\ NoFc(g2)
                          /\ \A j \in 1..Len(q2) : q2[j].kind = "FF" => i = j
                          /\ \A j \in 1..Len(q2) : q2[j].kind = "SF" => j < i
  BY DEF FirstIs
<1>2. h[i] \in 1..Len(q) /\ q2[i] = q[h[i]] /\ q[h[i]].kind = "FF"
  BY <1>1 DEF DataKinds
<1>3. \E x \in Msg : Ff(n, q2[i], x)
  BY <1>2 DEF FirstIs
<1>4. ASSUME Fitting(n)
      PROVE  /\ Waits(t) /\ k = 0 /\ Ff(n, q2[i], m) /\ NoFc(g2)
             /\ \A j \in 1..Len(q2) : q2[j].kind = "FF" => i = j
             /\ \A j \in 1..Len(q2) : q2[j].kind = "SF" => j < i
  <2>1. /\ Waits(t) /\ k = 0 /\ Ff(n, q[h[i]], m) /\ NoFc(g)
        /\ \A j \in 1..Len(q) : q[j].kind = "FF" => h[i] = j
        /\ \A j \in 1..Len(q) : q[j].kind = "SF" => j < h[i]
    BY <1>2, <1>4 DEF FirstIs
  <2>2. NoFc(g2)
    BY <2>1, AnswersKept
  <2>3. ASSUME NEW j \in 1..Len(q2), q2[j].kind = "FF" PROVE i = j
    <3>1. h[j] \in 1..Len(q) /\ q[h[j]].kind = "FF"
      BY <1>1, <2>3 DEF DataKinds
    <3> QED BY <1>1, <2>1, <2>3, <3>1 DEF DataKinds
  <2>4. ASSUME NEW j \in 1..Len(q2), q2[j].kind = "SF" PROVE j < i
    <3>1. h[j] \in 1..Len(q) /\ q[h[j]].kind = "SF"
      BY <1>1, <2>4 DEF DataKinds
    <3>2. h[j] < h[i] /\ h[i] \in Nat /\ h[j] \in Nat
      BY <1>2, <2>1, <3>1
    <3>3. ~(i < j)
      BY <1>1, <2>4, <3>2 DEF DataKinds
    <3>4. i # j
      BY <2>4
    <3> QED BY <3>3, <3>4
  <2> QED BY <1>2, <2>1, <2>2, <2>3, <2>4
<1> QED BY <1>3, <1>4

(* Fewer frames and answers behind the one the receiver has come to.       *)
LEMMA FollowsKept ==
    ASSUME NEW q2, NEW q, Within(q2, q, DataKinds), NEW g2, NEW g, Within(g2, g, {"FC"}),
           NEW n, NEW S, NEW m, NEW t, NEW k, NEW r, NEW x, NEW e,
           QueueFollows(n, S, m, t, k, q, g, r, x, e)
    PROVE  QueueFollows(n, S, m, t, k, q2, g2, r, x, e)
<1>1. PICK h \in [1..Len(q2) -> Nat] :
        /\ \A i \in 1..Len(q2) : q2[i].kind \in DataKinds => h[i] \in 1..Len(q) /\ q2[i] = q[h[i]]
        /\ \A i, j \in 1..Len(q2) :
              i < j /\ q2[i].kind \in DataKinds /\ q2[j].kind \in DataKinds => h[i] < h[j]
  BY DEF Within
<1>2. ASSUME NEW i \in 1..Len(q2), q2[i].kind = "SF", NEW y \in Msg, Sf(n, q2[i], y)
      PROVE  Before(S, x, y)
  <2>1. h[i] \in 1..Len(q) /\ q2[i] = q[h[i]]
    BY <1>1, <1>2 DEF DataKinds
  <2> QED BY <1>2, <2>1 DEF QueueFollows
<1>3. ASSUME NEW i \in 1..Len(q2), q2[i].kind = "CF"
      PROVE  \E no \in Nat : Cf(n, q2[i], x, no) /\ Continues(n, m, t, k, q2, g2, r, x, e, no)
  <2>1. h[i] \in 1..Len(q) /\ q2[i] = q[h[i]]
    BY <1>1, <1>3 DEF DataKinds
  <2>2. PICK no \in Nat : Cf(n, q2[i], x, no) /\ Continues(n, m, t, k, q, g, r, x, e, no)
    BY <1>3, <2>1 DEF QueueFollows
  <2>3. EndsBlock(n, m, t, k, q, g, x, no) => EndsBlock(n, m, t, k, q2, g2, x, no)
    BY AnswersKept, NonesKept DEF EndsBlock
  <2> QED BY <2>2, <2>3 DEF Continues
<1>4. ASSUME NEW i \in 1..Len(q2), NEW j \in 1..Len(q2),
             i < j, q2[i].kind = "CF", q2[j].kind = "CF", NEW u \in Nat, NEW v \in Nat,
             Cf(n, q2[i], x, u), Cf(n, q2[j], x, v)
      PROVE  u < v
  <2>1. /\ h[i] \in 1..Len(q) /\ q2[i] = q[h[i]] /\ h[j] \in 1..Len(q) /\ q2[j] = q[h[j]]
        /\ h[i] < h[j]
    BY <1>1, <1>4 DEF DataKinds
  <2> QED BY <1>4, <2>1 DEF QueueFollows
<1> QED BY <1>2, <1>3, <1>4 DEF QueueFollows

(* Frames may be lost or passed over, on both ways.                        *)
LEMMA SameLink ==
    ASSUME NEW q2, NEW q, Within(q2, q, DataKinds), NEW g2, NEW g, Within(g2, g, {"FC"}),
           NEW n, NEW S, NEW m, NEW t, NEW r, NEW D, NEW k, LinkAt(n, S, m, t, q, g, r, D, k)
    PROVE  LinkAt(n, S, m, t, q2, g2, r, D, k)
<1>1. Story(S, m, D) /\ SessionOf(n, m, t, k) /\ AnswersAre(n, t, g2)
  BY AnswersKept DEF LinkAt
<1>2. SinglesAre(n, S, m, q2, D) /\ FirstIs(n, m, t, k, q2, g2)
  BY SinglesKept, FirstKept DEF LinkAt
<1>3. CASE r.state = "Idle"
  <2>1. NothingOpen(t, q, g)
    BY <1>3 DEF LinkAt
  <2>2. NothingOpen(t, q2, g2)
    BY <2>1, NonesKept, AnswersKept DEF NothingOpen
  <2> QED BY <1>1, <1>2, <1>3, <2>2 DEF LinkAt
<1>4. CASE r.state # "Idle"
  <2>1. PICK x \in Msg, e \in Nat : Opened(n, S, m, t, q, g, r, D, k, x, e)
    BY <1>4 DEF LinkAt
  <2>2. OpenFor(n, S, m, t, r, D, x, e) /\ QueueFollows(n, S, m, t, k, q2, g2, r, x, e)
    BY <2>1, FollowsKept DEF Opened
  <2>3. SenderFollows(n, m, t, k, g2, r, x, e)
    <3>1. ~NoGrant(g2) => ~NoGrant(g)
      BY AnswersKept
    <3> QED BY <2>1, <3>1 DEF Opened, SenderFollows
  <2>4. Opened(n, S, m, t, q2, g2, r, D, k, x, e)
    BY <2>2, <2>3 DEF Opened
  <2> QED BY <1>1, <1>2, <1>4, <2>4 DEF LinkAt
<1> QED BY <1>3, <1>4

-----------------------------------------------------------------------------
(* The order of messages. *)

(* Messages have different payloads.                                       *)
LEMMA PayloadsDiffer ==
    ASSUME NonEmpty, NEW x \in Msg, NEW y \in Msg, Payload(x) = Payload(y)
    PROVE  x = y
<1>1. 1 \in 1..Length[x] /\ 1 \in 1..Length[y]
  BY PayloadByte DEF NonEmpty
<1>2. Payload(x)[1] = <<x, 1>> /\ Payload(y)[1] = <<y, 1>>
  BY <1>1, PayloadByte
<1> QED BY <1>2

(* The message being sent is the last one submitted.                       *)
LEMMA LastIs ==
    ASSUME NEW S, NEW m, NEW D, Story(S, m, D), m # NoMsg
    PROVE  /\ m \in Msg /\ Contains(S, m) /\ Fresh(S, D, m)
           /\ \A x : Contains(S, x) /\ x # m => Before(S, x, m)
<1>1. /\ S \in Seq(Msg) /\ Len(S) \in Nat /\ Len(S) > 0 /\ m = S[Len(S)] /\ Fresh(S, D, m)
      /\ \A i, j \in 1..Len(S) : S[i] = S[j] => i = j
  BY DEF Story
<1>2. m \in Msg /\ Contains(S, m)
  BY <1>1 DEF Contains
<1>3. ASSUME NEW x, Contains(S, x), x # m PROVE Before(S, x, m)
  <2> SUFFICES ASSUME NEW i \in 1..Len(S), NEW j \in 1..Len(S), S[i] = x, S[j] = m PROVE i < j
    BY DEF Before
  <2>1. Len(S) \in 1..Len(S)
    BY <1>1
  <2>2. j = Len(S) /\ i # j
    BY <1>1, <1>3, <2>1
  <2> QED BY <1>1, <2>2
<1> QED BY <1>1, <1>2, <1>3

(* A delivery leaves later messages undelivered.                           *)
LEMMA FreshKept ==
    ASSUME NonEmpty, NEW S \in Seq(Msg), NEW D, D \in Seq(Seq(Byte)), NEW x \in Msg,
           NEW y, Fresh(S, D, y), Before(S, x, y)
    PROVE  Fresh(S, Append(D, Payload(x)), y)
<1> SUFFICES ASSUME NEW i \in 1..Len(S), NEW j \in 1..Len(S), S[i] = y, i <= j,
                    Contains(Append(D, Payload(x)), Payload(S[j]))
             PROVE  FALSE
  BY DEF Fresh
<1>1. ~Contains(D, Payload(S[j])) /\ S[j] \in Msg
  BY DEF Fresh
<1>2. PICK d \in 1..Len(Append(D, Payload(x))) : Append(D, Payload(x))[d] = Payload(S[j])
  BY DEF Contains
<1>3. /\ Len(Append(D, Payload(x))) = Len(D) + 1 /\ Len(D) \in Nat
      /\ Append(D, Payload(x))[Len(D) + 1] = Payload(x)
      /\ \A c \in 1..Len(D) : Append(D, Payload(x))[c] = D[c]
  <2>1. Payload(x) \in Seq(Byte)
    BY PayloadByte
  <2> QED BY <2>1
<1>4. d \notin 1..Len(D)
  BY <1>1, <1>2, <1>3 DEF Contains
<1>5. d = Len(D) + 1
  BY <1>2, <1>3, <1>4
<1>6. Payload(x) = Payload(S[j])
  BY <1>2, <1>3, <1>5
<1>7. S[j] = x
  BY <1>1, <1>6, PayloadsDiffer
<1>8. j < i
  BY <1>7 DEF Before
<1> QED BY <1>8

(* A message submitted earlier is delivered.                               *)
LEMMA StoryGrows ==
    ASSUME NonEmpty, NEW S, NEW m, NEW D, Story(S, m, D),
           NEW x \in Msg, Contains(S, x), x # m
    PROVE  Story(S, m, Append(D, Payload(x)))
<1> DEFINE E == Append(D, Payload(x))
<1>1. S \in Seq(Msg) /\ D \in Seq(Seq(Byte)) /\ Payload(x) \in Seq(Byte)
  BY PayloadByte DEF Story
<1>2. /\ E \in Seq(Seq(Byte)) /\ Len(E) = Len(D) + 1 /\ Len(D) \in Nat
      /\ E[Len(D) + 1] = Payload(x) /\ \A d \in 1..Len(D) : E[d] = D[d]
  BY <1>1
<1> HIDE DEF E
<1>3. ASSUME NEW d \in 1..Len(E) PROVE \E y \in Msg : Contains(S, y) /\ E[d] = Payload(y)
  <2>1. CASE d \in 1..Len(D)
    BY <1>2, <2>1 DEF Story
  <2>2. CASE d = Len(D) + 1
    BY <1>2, <2>2
  <2> QED BY <1>2, <2>1, <2>2
<1>4. m # NoMsg => Fresh(S, E, m)
  BY <1>1, LastIs, FreshKept DEF E
<1>5. \A i, j \in 1..Len(S) : S[i] = S[j] => i = j
  BY DEF Story
<1>6. m # NoMsg => Len(S) > 0 /\ m = S[Len(S)]
  BY DEF Story
<1> QED BY <1>1, <1>2, <1>3, <1>4, <1>5, <1>6 DEF Story, E

(* A frame goes to the end of a queue.                                     *)
LEMMA AppendAt ==
    ASSUME NEW q, QueueFits(q), NEW f
    PROVE  /\ Len(q) \in Nat /\ Len(Append(q, f)) = Len(q) + 1
           /\ \A i \in 1..Len(q) : i \in 1..Len(Append(q, f)) /\ Append(q, f)[i] = q[i]
           /\ Append(q, f)[Len(q) + 1] = f
           /\ \A i \in 1..Len(Append(q, f)) : i \in 1..Len(q) \/ i = Len(q) + 1
BY QueueIs, EndAt

-----------------------------------------------------------------------------
(* The sender's steps. *)

(* Without a session there is nothing to answer, and nothing to open.      *)
LEMMA Alone ==
    ASSUME NEW n, NEW m, NEW t, ~Waits(t), Fitting(n), NEW q, NEW g, NEW k,
           AnswersAre(n, t, g), FirstIs(n, m, t, k, q, g)
    PROVE  NoFc(g) /\ NoFf(q)
BY DEF AnswersAre, FirstIs, NoFc, NoFf

(* A receiver with an open transfer takes the Single Frames of its peer.   *)
LEMMA OpenFits ==
    ASSUME NEW n \in Node, NEW S, NEW m, NEW t, NEW r, NEW D, NEW x \in Msg, NEW e,
           OpenFor(n, S, m, t, r, D, x, e)
    PROVE  Fitting(n)
<1> DEFINE u == max_single_frame_payload(Cfg[n])
           l == Length[x]
           v == Room(Cfg[Peer[n]])
<1>1. u \in Nat /\ l \in Nat /\ l > u /\ l <= v
  BY Steps, PayloadByte DEF OpenFor
<1>2. v \in Int
  <2>1. Peer[n] \in Node
    BY NodeAssumption
  <2>2. Cfg[Peer[n]].max_payload_len \in Nat /\ ValidConfig(Cfg[Peer[n]])
    BY <2>1, CfgAssumption DEF ValidConfig
  <2> QED BY <2>2 DEF Room, Lesser, ValidConfig
<1> HIDE DEF u, l, v
<1>3. u <= v
  BY <1>1, <1>2
<1> QED BY <1>3 DEF Fitting, u, v

(* The application submits its next message.                               *)
LEMMA LinkSubmit ==
    ASSUME NonEmpty, NEW n \in Node, NEW S, NEW t, NEW q, NEW g, NEW r, NEW D, NEW k \in Nat,
           LinkAt(n, S, NoMsg, t, q, g, r, D, k),
           NEW x \in Msg, ~Contains(S, x)
    PROVE  LinkAt(n, Append(S, x), x, t, q, g, r, D, k)
<1> DEFINE S2 == Append(S, x)
           l == Len(S)
<1>1. /\ S \in Seq(Msg) /\ D \in Seq(Seq(Byte)) /\ \A i, j \in 1..l : S[i] = S[j] => i = j
      /\ \A d \in 1..Len(D) : \E y \in Msg : Contains(S, y) /\ D[d] = Payload(y)
  BY DEF LinkAt, Story
<1>2. /\ S2 \in Seq(Msg) /\ Len(S2) = l + 1 /\ l \in Nat /\ S2[l + 1] = x
      /\ \A i \in 1..l : S2[i] = S[i]
      /\ \A i \in 1..Len(S2) : i \in 1..l \/ i = l + 1
  BY <1>1
<1>3. \A i \in 1..l : S[i] # x
  BY DEF Contains
<1>4. x # NoMsg /\ NoMsg \notin Msg
  BY NodeAssumption
<1>5. t.state = "Idle" /\ ~Waits(t)
  BY DEF LinkAt, SessionOf, Waits
<1> HIDE DEF S2, l
<1>6. \A y : Contains(S, y) => Contains(S2, y) /\ y # x
  <2> SUFFICES ASSUME NEW y, Contains(S, y) PROVE Contains(S2, y) /\ y # x
    OBVIOUS
  <2>1. PICK i \in 1..l : S[i] = y
    BY DEF Contains, l
  <2>2. i \in 1..Len(S2) /\ S2[i] = y
    BY <1>2, <2>1
  <2> QED BY <1>3, <2>1, <2>2 DEF Contains
<1>7. ~Contains(D, Payload(x))
  <2> SUFFICES ASSUME NEW d \in 1..Len(D), D[d] = Payload(x) PROVE FALSE
    BY DEF Contains
  <2>1. PICK y \in Msg : Contains(S, y) /\ D[d] = Payload(y)
    BY <1>1
  <2> QED BY <1>6, <2>1, PayloadsDiffer
<1>8. ASSUME NEW y, Contains(S, y), Fresh(S, D, y) PROVE Fresh(S2, D, y)
  <2> SUFFICES ASSUME NEW i \in 1..Len(S2), NEW j \in 1..Len(S2), S2[i] = y, i <= j
               PROVE  ~Contains(D, Payload(S2[j]))
    BY DEF Fresh
  <2>1. CASE j = l + 1
    BY <1>2, <1>7, <2>1
  <2>2. CASE j \in 1..l
    <3>1. i \in 1..l
      BY <1>2, <2>2
    <3>2. S[i] = y /\ S2[j] = S[j]
      BY <1>2, <2>2, <3>1
    <3> QED BY <1>8, <2>2, <3>1, <3>2 DEF Fresh, l
  <2> QED BY <1>2, <2>1, <2>2
<1>9. ASSUME NEW y, NEW z, Contains(S, y), Contains(S, z), Before(S, y, z) PROVE Before(S2, y, z)
  <2> SUFFICES ASSUME NEW i \in 1..Len(S2), NEW j \in 1..Len(S2), S2[i] = y, S2[j] = z PROVE i < j
    BY DEF Before
  <2>1. y # x /\ z # x
    BY <1>6, <1>9
  <2>2. i \in 1..l /\ j \in 1..l
    BY <1>2, <2>1
  <2> QED BY <1>2, <1>9, <2>2 DEF Before, l
<1>10. Fresh(S2, D, x)
  <2> SUFFICES ASSUME NEW i \in 1..Len(S2), NEW j \in 1..Len(S2), S2[i] = x, i <= j
               PROVE  ~Contains(D, Payload(S2[j]))
    BY DEF Fresh
  <2>1. i \notin 1..l
    BY <1>2, <1>3
  <2>2. j = l + 1
    BY <1>2, <2>1
  <2> QED BY <1>2, <1>7, <2>2
<1>11. Story(S2, x, D)
  <2>1. ASSUME NEW i \in 1..Len(S2), NEW j \in 1..Len(S2), S2[i] = S2[j] PROVE i = j
    <3>1. (i \in 1..l \/ i = l + 1) /\ (j \in 1..l \/ j = l + 1)
      BY <1>2
    <3>2. CASE i \in 1..l /\ j \in 1..l
      <4>1. S[i] = S[j]
        BY <1>2, <2>1, <3>2
      <4> QED BY <1>1, <3>2, <4>1
    <3>3. ASSUME NEW u \in 1..l PROVE S2[u] # S2[l + 1]
      BY <1>2, <1>3, <3>3
    <3> QED BY <2>1, <3>1, <3>2, <3>3
  <2>2. \A d \in 1..Len(D) : \E y \in Msg : Contains(S2, y) /\ D[d] = Payload(y)
    BY <1>1, <1>6
  <2>3. Len(S2) > 0 /\ x = S2[Len(S2)]
    BY <1>2
  <2> QED BY <1>1, <1>2, <1>10, <2>1, <2>2, <2>3 DEF Story
<1>12. SessionOf(n, x, t, k) /\ AnswersAre(n, t, g)
  BY <1>5 DEF SessionOf, LinkAt
<1>13. SinglesAre(n, S2, x, q, D)
  <2>1. ASSUME NEW i \in 1..Len(q), q[i].kind = "SF"
        PROVE  \E y \in Msg : Sf(n, q[i], y) /\ Contains(S2, y) /\ y # x /\ Fresh(S2, D, y)
    <3>1. PICK y \in Msg : Sf(n, q[i], y) /\ Contains(S, y) /\ Fresh(S, D, y)
      BY <2>1 DEF LinkAt, SinglesAre
    <3> QED BY <1>6, <1>8, <3>1
  <2>2. ASSUME NEW i \in 1..Len(q), q[i].kind = "SF", NEW y \in Msg, Sf(n, q[i], y)
        PROVE  Contains(S, y)
    <3>1. PICK z \in Msg : Sf(n, q[i], z) /\ Contains(S, z)
      BY <2>2 DEF LinkAt, SinglesAre
    <3> QED BY <2>2, <3>1, SfKnown
  <2>3. ASSUME NEW i \in 1..Len(q), NEW j \in 1..Len(q), i < j, q[i].kind = "SF", q[j].kind = "SF",
               NEW y \in Msg, NEW z \in Msg, Sf(n, q[i], y), Sf(n, q[j], z)
        PROVE  Before(S2, y, z)
    <3>1. Before(S, y, z)
      BY <2>3 DEF LinkAt, SinglesAre
    <3> QED BY <1>9, <2>2, <2>3, <3>1
  <2> QED BY <2>1, <2>3 DEF SinglesAre
<1>14. FirstIs(n, x, t, k, q, g)
  <2>1. FirstIs(n, NoMsg, t, k, q, g)
    BY DEF LinkAt
  <2> QED BY <1>5, <2>1 DEF FirstIs
<1>15. CASE r.state = "Idle"
  <2>1. NothingOpen(t, q, g)
    BY <1>15 DEF LinkAt
  <2> QED BY <1>11, <1>12, <1>13, <1>14, <1>15, <2>1 DEF LinkAt, S2
<1>16. CASE r.state # "Idle"
  <2>1. PICK y \in Msg, e \in Nat : Opened(n, S, NoMsg, t, q, g, r, D, k, y, e)
    BY <1>16 DEF LinkAt
  <2>2. OpenFor(n, S, NoMsg, t, r, D, y, e) /\ y # x /\ y # NoMsg /\ Contains(S, y)
    BY <1>4, <1>6, <2>1 DEF Opened, OpenFor
  <2>3. OpenFor(n, S2, x, t, r, D, y, e)
    BY <1>6, <1>8, <2>2 DEF OpenFor
  <2>4. QueueFollows(n, S, NoMsg, t, k, q, g, r, y, e)
    BY <2>1 DEF Opened
  <2>5. ASSUME NEW i \in 1..Len(q), q[i].kind = "SF", NEW z \in Msg, Sf(n, q[i], z)
        PROVE  Before(S2, y, z)
    <3>1. Before(S, y, z)
      BY <2>4, <2>5 DEF QueueFollows
    <3>2. PICK w \in Msg : Sf(n, q[i], w) /\ Contains(S, w)
      BY <2>5 DEF LinkAt, SinglesAre
    <3>3. Contains(S, z)
      BY <2>5, <3>2, SfKnown
    <3> QED BY <1>9, <2>2, <3>1, <3>3
  <2>6. \A no : /\ EndsBlock(n, NoMsg, t, k, q, g, y, no) => EndsBlock(n, x, t, k, q, g, y, no)
                /\ Continues(n, NoMsg, t, k, q, g, r, y, e, no) =>
                      Continues(n, x, t, k, q, g, r, y, e, no)
    BY <2>2 DEF EndsBlock, Continues
  <2>7. QueueFollows(n, S2, x, t, k, q, g, r, y, e)
    BY <2>4, <2>5, <2>6 DEF QueueFollows
  <2>8. SenderFollows(n, x, t, k, g, r, y, e)
    BY <1>5, <2>1, <2>2 DEF Opened, SenderFollows
  <2>9. Opened(n, S2, x, t, q, g, r, D, k, y, e)
    BY <2>3, <2>7, <2>8 DEF Opened
  <2> QED BY <1>11, <1>12, <1>13, <1>14, <1>16, <2>9 DEF LinkAt, S2
<1> QED BY <1>15, <1>16

(* The send is over, as a Flow Control says or because none came; or there *)
(* was nothing to wait for.                                                *)
LEMMA LinkStop ==
    ASSUME NEW n \in Node, NEW S, NEW m, NEW t, NEW q, NEW g, NEW g2, NEW r, NEW D, NEW k \in Nat,
           LinkAt(n, S, m, t, q, g, r, D, k), QueueFits(g),
           \/ ~Waits(t) /\ g2 = g
           \/ \E i \in 1..Len(g) : g[i].kind = "FC" /\ g2 = After(g, i)
    PROVE  LinkAt(n, S, NoMsg, TxIdle, q, g2, r, D, k)
<1>1. Within(g2, g, {"FC"})
  <2>1. Len(g) \in Nat
    BY RestAt
  <2>2. \A i \in 1..Len(g) : i \in 0..Len(g)
    BY <2>1
  <2> QED BY <2>2, Withins
<1>2. ~Waits(TxIdle) /\ TxIdle.state = "Idle"
  BY DEF Waits, TxIdle
<1>3. Fitting(n) => NoFc(g2) /\ NoFf(q) /\ (~Waits(t) \/ ~NoFc(g))
  <2> SUFFICES ASSUME Fitting(n) PROVE NoFc(g2) /\ NoFf(q) /\ (~Waits(t) \/ ~NoFc(g))
    OBVIOUS
  <2>1. CASE ~Waits(t) /\ g2 = g
    BY <2>1, Alone DEF LinkAt
  <2>2. ASSUME NEW i \in 1..Len(g), g[i].kind = "FC", g2 = After(g, i)
        PROVE  NoFc(g2) /\ NoFf(q) /\ ~NoFc(g)
    <3>1. ~NoFc(g)
      BY <2>2 DEF NoFc
    <3>2. NoFf(q)
      BY <3>1 DEF LinkAt, FirstIs, NoFf
    <3>3. ASSUME NEW j \in 1..Len(g2), g2[j].kind = "FC" PROVE FALSE
      <4>1. i \in 0..Len(g)
        BY RestAt
      <4>2. i + j \in 1..Len(g) /\ g2[j] = g[i + j]
        BY <2>2, <4>1, RestAt
      <4>3. i + j = i
        BY <2>2, <3>3, <4>2 DEF LinkAt, AnswersAre
      <4> QED BY <4>3
    <3> QED BY <3>1, <3>2, <3>3 DEF NoFc
  <2> QED BY <2>1, <2>2
<1>4. Story(S, NoMsg, D) /\ SessionOf(n, NoMsg, TxIdle, k)
  BY <1>2 DEF LinkAt, Story, SessionOf
<1>5. AnswersAre(n, TxIdle, g2)
  <2>1. AnswersAre(n, t, g2)
    BY <1>1, AnswersKept DEF LinkAt
  <2> QED BY <1>3, <2>1 DEF AnswersAre, NoFc
<1>6. SinglesAre(n, S, NoMsg, q, D)
  BY NodeAssumption DEF LinkAt, SinglesAre
<1>7. FirstIs(n, NoMsg, TxIdle, k, q, g2)
  BY <1>3 DEF LinkAt, FirstIs, NoFf
<1>8. CASE r.state = "Idle"
  <2>1. NothingOpen(t, q, g)
    BY <1>8 DEF LinkAt
  <2>2. NothingOpen(TxIdle, q, g2)
    BY <1>1, <1>2, <2>1, AnswersKept DEF NothingOpen
  <2> QED BY <1>4, <1>5, <1>6, <1>7, <1>8, <2>2 DEF LinkAt
<1>9. CASE r.state # "Idle"
  <2>1. PICK x \in Msg, e \in Nat : Opened(n, S, m, t, q, g, r, D, k, x, e)
    BY <1>9 DEF LinkAt
  <2>2. OpenFor(n, S, m, t, r, D, x, e) /\ QueueFollows(n, S, m, t, k, q, g, r, x, e)
    BY <2>1 DEF Opened
  <2>3. NoFc(g2) /\ NoFf(q) /\ (~Waits(t) \/ ~NoFc(g)) /\ x # NoMsg
    BY <1>3, <2>2, OpenFits, NodeAssumption
  <2>4. OpenFor(n, S, NoMsg, TxIdle, r, D, x, e)
    BY <2>2, <2>3 DEF OpenFor
  <2>5. \A no : /\ EndsBlock(n, m, t, k, q, g, x, no) =>
                      EndsBlock(n, NoMsg, TxIdle, k, q, g2, x, no)
                /\ Continues(n, m, t, k, q, g, r, x, e, no) =>
                      Continues(n, NoMsg, TxIdle, k, q, g2, r, x, e, no)
    BY <2>3 DEF EndsBlock, Continues
  <2>6. QueueFollows(n, S, NoMsg, TxIdle, k, q, g2, r, x, e)
    BY <2>2, <2>5 DEF QueueFollows
  <2>7. SenderFollows(n, NoMsg, TxIdle, k, g2, r, x, e)
    <3>1. NoGrant(g2)
      BY <2>3 DEF NoFc, NoGrant
    <3> QED BY <1>2, <3>1 DEF SenderFollows
  <2>8. Opened(n, S, NoMsg, TxIdle, q, g2, r, D, k, x, e)
    BY <2>4, <2>6, <2>7 DEF Opened
  <2> QED BY <1>4, <1>5, <1>6, <1>7, <1>9, <2>8 DEF LinkAt
<1> QED BY <1>8, <1>9

(* The Flow Control the sender waited for lets it send.                    *)
LEMMA LinkCleared ==
    ASSUME NEW n \in Node, NEW S, NEW m, NEW t, NEW q, NEW g, NEW r, NEW D, NEW k \in Nat,
           LinkAt(n, S, m, t, q, g, r, D, k), QueueFits(g), t.session \in Session,
           NEW i \in 1..Len(g), g[i].kind = "FC", g[i].status = "ClearToSend",
           NEW timer
    PROVE  LET s == Cleared(Cfg[n], t.session, g[i])
           IN  LinkAt(n, S, m, Sending(s, timer), q, After(g, i), r, D, k)
<1> DEFINE s == Cleared(Cfg[n], t.session, g[i])
           t2 == Sending(s, timer)
           g2 == After(g, i)
<1>1. ~NoGrant(g) /\ ~NoFc(g)
  BY DEF NoGrant, NoFc
<1>2. r.state # "Idle"
  BY <1>1 DEF LinkAt, NothingOpen
<1>3. PICK x \in Msg, e \in Nat : Opened(n, S, m, t, q, g, r, D, k, x, e)
  BY <1>2 DEF LinkAt
<1>4. /\ OpenFor(n, S, m, t, r, D, x, e)
      /\ QueueFollows(n, S, m, t, k, q, g, r, x, e)
      /\ SenderFollows(n, m, t, k, g, r, x, e)
  BY <1>3 DEF Opened
<1>5. Fitting(n)
  BY <1>4, OpenFits
<1>6. m = x /\ e = k /\ r.content = Prefix(n, x, e)
      /\ (r.block_size > 0 => r.block_remaining = r.block_size)
  BY <1>1, <1>4 DEF SenderFollows
<1>7. Waits(t) /\ t.state # "Idle" /\ NoFf(q)
  <2>1. Waits(t)
    BY <1>5 DEF LinkAt, AnswersAre
  <2>2. NoFf(q)
    BY <1>1, <1>5 DEF LinkAt, FirstIs, NoFf
  <2> QED BY <2>1, <2>2 DEF Waits
<1>8. NoFc(g2) /\ NoGrant(g2)
  <2>1. ASSUME NEW j \in 1..Len(g2), g2[j].kind = "FC" PROVE FALSE
    <3>1. i \in 0..Len(g)
      BY RestAt
    <3>2. i + j \in 1..Len(g) /\ g2[j] = g[i + j]
      BY <3>1, RestAt
    <3>3. i + j = i
      BY <1>5, <2>1, <3>2 DEF LinkAt, AnswersAre
    <3> QED BY <3>3
  <2> QED BY <2>1 DEF NoFc, NoGrant
<1>9. NoCf(q)
  <2> SUFFICES ASSUME NEW j \in 1..Len(q), q[j].kind = "CF" PROVE FALSE
    BY DEF NoCf
  <2>1. PICK no \in Nat : Continues(n, m, t, k, q, g, r, x, e, no)
    BY <1>4 DEF QueueFollows
  <2>2. e <= no /\ no < k
    BY <1>6, <2>1 DEF Continues
  <2> QED BY <1>6, <2>2
<1>10. /\ t2.state = "Sending" /\ t2.session = s
       /\ s.wait_count = 0 /\ s.payload_len = t.session.payload_len /\ s.offset = t.session.offset
  BY DEF Sending, Cleared, Session
<1>11. r.block_size > 0 => s.block_size = r.block_size /\ s.block_remaining = r.block_size
  <2>1. r.block_size = Cfg[Peer[n]].block_size /\ g[i].block_size = Cfg[Peer[n]].block_size
    BY <1>4 DEF OpenFor, LinkAt, AnswersAre
  <2> DEFINE b == IF g[i].block_size = 0 THEN Cfg[n].block_size ELSE g[i].block_size
  <2>2. s.block_size = b /\ s.block_remaining = b
    BY DEF Cleared, Session
  <2> HIDE DEF s, b
  <2>3. r.block_size > 0 => b = r.block_size
    BY <2>1 DEF b
  <2> QED BY <2>2, <2>3
<1> HIDE DEF s, t2, g2
<1>12. Story(S, m, D) /\ SinglesAre(n, S, m, q, D)
  BY DEF LinkAt
<1>13. SessionOf(n, m, t2, k)
  BY <1>7, <1>10 DEF LinkAt, SessionOf
<1>14. AnswersAre(n, t2, g2) /\ FirstIs(n, m, t2, k, q, g2)
  BY <1>7, <1>8 DEF AnswersAre, NoFc, FirstIs, NoFf
<1>15. OpenFor(n, S, m, t2, r, D, x, e)
  BY <1>4, <1>10 DEF OpenFor
<1>16. QueueFollows(n, S, m, t2, k, q, g2, r, x, e)
  BY <1>4, <1>9 DEF QueueFollows, NoCf
<1>17. SenderFollows(n, m, t2, k, g2, r, x, e)
  <2>1. r.block_size > 0 => r.block_remaining + e = s.block_remaining + k
    BY <1>6, <1>11
  <2> QED BY <1>6, <1>8, <1>10, <1>11, <2>1 DEF SenderFollows
<1>18. Opened(n, S, m, t2, q, g2, r, D, k, x, e)
  BY <1>15, <1>16, <1>17 DEF Opened
<1> QED BY <1>2, <1>12, <1>13, <1>14, <1>18 DEF LinkAt, s, t2, g2

(* Where continue_send leaves the session.                                 *)
LEMMA AfterFrameAt ==
    ASSUME NEW n \in Node, NEW x \in Msg, NEW s \in Session, NEW k \in Nat,
           s.offset = At(n, k), s.payload_len = Length[x], At(n, k) < Length[x]
    PROVE  LET t == AfterFrame(Cfg[n], s, Payload(x))
           IN  /\ At(n, k + 1) >= Length[x] => t = TxIdle
               /\ At(n, k + 1) < Length[x] =>
                     /\ t.session.wait_count = s.wait_count
                     /\ t.session.payload_len = Length[x]
                     /\ t.session.offset = At(n, k + 1)
                     /\ t.session.block_size = s.block_size
                     /\ IF s.block_size # 0 /\ s.block_remaining <= 1
                        THEN t.state = "WaitingForFc" /\ t.timer = Timer(Cfg[n].n_bs)
                        ELSE /\ t.state = "Sending"
                             /\ s.block_size # 0 =>
                                   t.session.block_remaining = s.block_remaining - 1
<1> DEFINE c == Cfg[n]
           p == Payload(x)
           chunk == NextChunk(c, s, p)
           left == Saturating(s.block_remaining, 1)
           sent == [s EXCEPT !.offset = @ + Len(chunk), !.next_sn = NextSn(@)]
           t == AfterFrame(c, s, p)
           u == At(n, k)
           v == At(n, k + 1)
           l == Length[x]
           w == max_consecutive_frame_payload(c)
<1>1. u \in Nat /\ v = u + w /\ w \in Nat /\ l \in Nat /\ u < l
  BY Steps, PayloadByte
<1>2. Len(chunk) = Reach(c, u, l) - u
  <2>1. DOMAIN s = SessionFields
    BY DEF Session, SessionFields
  <2>2. p \in Seq(Byte) /\ Len(p) = l /\ SessionAt(s, u, Len(p)) /\ c.frame_len \in Nat
    BY <2>1, PayloadByte, CfgNumbers DEF SessionAt
  <2> HIDE DEF p, u, l, c, chunk
  <2>3. Len(NextChunk(c, s, p)) = Reach(c, u, Len(p)) - u
    BY <1>1, <2>2, ChunkReach
  <2> QED BY <2>2, <2>3 DEF chunk
<1>3. Reach(c, u, l) = IF v <= l THEN v ELSE l
  BY <1>1 DEF Reach, Lesser
<1>4. s.offset + Len(chunk) = IF v <= l THEN v ELSE l
  <2>1. s.offset = u
    OBVIOUS
  <2> HIDE DEF u, v, l, w, c, chunk
  <2> QED BY <1>1, <1>2, <1>3, <2>1
<1>5. /\ sent.offset = s.offset + Len(chunk) /\ sent.wait_count = s.wait_count
      /\ sent.payload_len = s.payload_len /\ sent.block_size = s.block_size
      /\ DOMAIN sent = SessionFields
  BY DEF Session, SessionFields
<1>6. t = IF sent.offset >= s.payload_len THEN TxIdle
          ELSE IF s.block_size = 0 THEN Sending(sent, Timer(s.st_min))
          ELSE IF left = 0
          THEN WaitingForFc([sent EXCEPT !.block_remaining = s.block_size], Timer(c.n_bs))
          ELSE Sending([sent EXCEPT !.block_remaining = left], Timer(s.st_min))
  BY DEF AfterFrame
<1>7. s.payload_len = l /\ s.block_remaining \in Nat /\ s.block_size \in Nat
  BY DEF Session
<1>8. left = IF s.block_remaining <= 1 THEN 0 ELSE s.block_remaining - 1
  BY DEF Saturating
<1> DEFINE full == [sent EXCEPT !.block_remaining = s.block_size]
           less == [sent EXCEPT !.block_remaining = left]
<1> HIDE DEF c, p, u, v, l, w, t, sent, left, chunk
<1>9. /\ less.block_remaining = left
      /\ \A z \in {full, less} :
            /\ z.offset = sent.offset /\ z.wait_count = sent.wait_count
            /\ z.payload_len = sent.payload_len /\ z.block_size = sent.block_size
  BY <1>5 DEF SessionFields
<1> HIDE DEF full, less
<1>10. CASE v >= l
  <2>1. sent.offset >= s.payload_len
    BY <1>1, <1>4, <1>5, <1>7, <1>10
  <2>2. t = TxIdle
    BY <1>6, <2>1
  <2>3. ~(v < l)
    BY <1>1, <1>10
  <2> QED BY <2>2, <2>3 DEF t, c, p, v, l
<1>11. CASE v < l
  <2>1. sent.offset = v /\ ~(sent.offset >= s.payload_len) /\ ~(v >= l)
    BY <1>1, <1>4, <1>5, <1>7, <1>11
  <2>2. CASE s.block_size = 0
    <3>1. t = Sending(sent, Timer(s.st_min))
      BY <1>6, <2>1, <2>2
    <3>2. t.state = "Sending" /\ t.session = sent
      BY <3>1 DEF Sending
    <3> QED BY <1>5, <1>7, <2>1, <2>2, <3>2 DEF t, c, p, v, l
  <2>3. CASE s.block_size # 0 /\ s.block_remaining <= 1
    <3>1. left = 0
      BY <1>8, <2>3
    <3>2. t = WaitingForFc(full, Timer(c.n_bs))
      BY <1>6, <2>1, <2>3, <3>1 DEF full
    <3>3. t.state = "WaitingForFc" /\ t.session = full /\ t.timer = Timer(c.n_bs)
      BY <3>2 DEF WaitingForFc
    <3> QED BY <1>5, <1>7, <1>9, <2>1, <2>3, <3>3 DEF t, c, p, v, l
  <2>4. CASE s.block_size # 0 /\ ~(s.block_remaining <= 1)
    <3>1. left # 0 /\ left = s.block_remaining - 1
      BY <1>7, <1>8, <2>4
    <3>2. t = Sending(less, Timer(s.st_min))
      BY <1>6, <2>1, <2>4, <3>1 DEF less
    <3>3. t.state = "Sending" /\ t.session = less
      BY <3>2 DEF Sending
    <3> QED BY <1>5, <1>7, <1>9, <2>1, <2>4, <3>1, <3>3 DEF t, c, p, v, l
  <2> QED BY <2>2, <2>3, <2>4
<1> QED BY <1>1, <1>10, <1>11

(* continue_send sends a Consecutive Frame.                                *)
LEMMA LinkConsecutive ==
    ASSUME NEW n \in Node, Cfg[n].n_bs > 0, NEW S, NEW m \in Msg, NEW t, NEW q, NEW g, NEW r, NEW D,
           NEW k \in Nat, LinkAt(n, S, m, t, q, g, r, D, k),
           t.state = "Sending", t.session \in Session, t.session.offset < t.session.payload_len,
           QueueFits(q)
    PROVE  LET t2 == AfterFrame(Cfg[n], t.session, Payload(m))
           IN  LinkAt(n, S, IF t2.state = "Idle" THEN NoMsg ELSE m, t2,
                      Append(q, NextFrame(Cfg[n], t.session, Payload(m))), g, r, D, k + 1)
<1> DEFINE s == t.session
           f == NextFrame(Cfg[n], s, Payload(m))
           t2 == AfterFrame(Cfg[n], s, Payload(m))
           m2 == IF t2.state = "Idle" THEN NoMsg ELSE m
           q2 == Append(q, f)
           l == Len(q)
<1>1. /\ Story(S, m, D) /\ SessionOf(n, m, t, k) /\ AnswersAre(n, t, g)
      /\ SinglesAre(n, S, m, q, D) /\ FirstIs(n, m, t, k, q, g) /\ r.state # "Idle"
  BY DEF LinkAt, NothingOpen
<1>2. PICK x \in Msg, e \in Nat : Opened(n, S, m, t, q, g, r, D, k, x, e)
  BY <1>1 DEF LinkAt
<1>3. /\ OpenFor(n, S, m, t, r, D, x, e)
      /\ QueueFollows(n, S, m, t, k, q, g, r, x, e)
      /\ m = x /\ e <= k /\ (r.content = Prefix(n, x, e) \/ e < k)
      /\ r.block_size > 0 =>
             /\ s.block_size = r.block_size /\ s.block_remaining > 0
             /\ r.block_remaining + e = s.block_remaining + k
  BY <1>2 DEF Opened, SenderFollows
<1>4. ~Waits(t) /\ Fitting(n) /\ NoFc(g) /\ NoFf(q) /\ NoGrant(g)
  <2>1. ~Waits(t) /\ Fitting(n)
    BY <1>3, OpenFits DEF Waits
  <2>2. NoFc(g) /\ NoFf(q)
    BY <1>1, <2>1, Alone
  <2> QED BY <2>1, <2>2 DEF NoFc, NoGrant
<1>5. /\ s.wait_count = 0 /\ s.payload_len = Length[m] /\ s.offset = At(n, k)
      /\ Length[m] > max_single_frame_payload(Cfg[n]) /\ At(n, k) < Length[m]
  BY <1>1 DEF SessionOf
<1>6. Cf(n, f, m, k) /\ f.kind = "CF"
  BY <1>5, NextIsCf DEF Cf
<1>7. /\ At(n, k + 1) >= Length[m] => t2 = TxIdle
      /\ At(n, k + 1) < Length[m] =>
            /\ t2.session.wait_count = 0
            /\ t2.session.payload_len = Length[m]
            /\ t2.session.offset = At(n, k + 1)
            /\ t2.session.block_size = s.block_size
            /\ IF s.block_size # 0 /\ s.block_remaining <= 1
               THEN t2.state = "WaitingForFc" /\ t2.timer = Timer(Cfg[n].n_bs)
               ELSE /\ t2.state = "Sending"
                    /\ s.block_size # 0 => t2.session.block_remaining = s.block_remaining - 1
  BY <1>5, AfterFrameAt
<1>8. /\ At(n, k + 1) \in Nat /\ Length[m] \in Nat /\ k + 1 \in Nat
      /\ s.block_remaining \in Nat /\ s.block_size \in Nat
  <2>1. k + 1 \in Nat
    OBVIOUS
  <2>2. At(n, k + 1) \in Nat /\ Length[m] \in Nat
    BY <2>1, Steps, PayloadByte
  <2>3. s.block_remaining \in Nat /\ s.block_size \in Nat
    BY DEF Session
  <2> QED BY <2>1, <2>2, <2>3
<1>9. Timer(Cfg[n].n_bs) > 0
  BY TimerRuns, CfgNumbers
<1>10. /\ Len(q2) = l + 1 /\ l \in Nat /\ q2[l + 1] = f
       /\ \A i \in 1..l : i \in 1..Len(q2) /\ q2[i] = q[i]
       /\ \A i \in 1..Len(q2) : i \in 1..l \/ i = l + 1
  BY AppendAt
<1> HIDE DEF s, f, t2, q2, l
<1>11. TxIdle.state = "Idle"
  BY DEF TxIdle
<1>12. t2.state # "Idle" => At(n, k + 1) < Length[m] /\ m2 = m
  BY <1>7, <1>8, <1>11
<1>13. m2 = NoMsg \/ (m2 = m /\ t2.state # "Idle")
  OBVIOUS
<1> HIDE DEF m2
<1>14. NoFf(q2)
  BY <1>4, <1>6, <1>10 DEF NoFf, l
<1>15. Story(S, m2, D) /\ SessionOf(n, m2, t2, k + 1)
  <2>1. Story(S, m2, D)
    BY <1>1, <1>13 DEF Story
  <2>2. SessionOf(n, m2, t2, k + 1)
    BY <1>5, <1>7, <1>12, NodeAssumption DEF SessionOf
  <2> QED BY <2>1, <2>2
<1>16. AnswersAre(n, t2, g)
  BY <1>1, <1>4 DEF AnswersAre, NoFc
<1>17. SinglesAre(n, S, m2, q2, D)
  <2>1. \A i \in 1..Len(q2) : q2[i].kind = "SF" => i \in 1..l /\ q2[i] = q[i]
    BY <1>6, <1>10
  <2>2. \A y \in Msg : y # m => y # m2
    BY <1>13, NodeAssumption
  <2>3. ASSUME NEW i \in 1..Len(q2), q2[i].kind = "SF"
        PROVE  \E y \in Msg : Sf(n, q2[i], y) /\ Contains(S, y) /\ y # m2 /\ Fresh(S, D, y)
    BY <1>1, <2>1, <2>2, <2>3 DEF SinglesAre, l
  <2>4. ASSUME NEW i \in 1..Len(q2), NEW j \in 1..Len(q2), i < j,
               q2[i].kind = "SF", q2[j].kind = "SF",
               NEW y \in Msg, NEW z \in Msg, Sf(n, q2[i], y), Sf(n, q2[j], z)
        PROVE  Before(S, y, z)
    BY <1>1, <2>1, <2>4 DEF SinglesAre, l
  <2> QED BY <2>3, <2>4 DEF SinglesAre
<1>18. FirstIs(n, m2, t2, k + 1, q2, g)
  BY <1>14 DEF FirstIs, NoFf
<1>19. OpenFor(n, S, m2, t2, r, D, x, e)
  <2>1. m2 = x => t2.state # "Idle"
    BY <1>13, NodeAssumption
  <2> QED BY <1>3, <2>1 DEF OpenFor
<1>20. ASSUME NEW no \in Nat, Continues(n, m, t, k, q, g, r, x, e, no)
       PROVE  Continues(n, m2, t2, k + 1, q2, g, r, x, e, no)
  <2>1. EndsBlock(n, m, t, k, q, g, x, no) => EndsBlock(n, m2, t2, k + 1, q2, g, x, no)
    BY <1>4 DEF EndsBlock
  <2>2. no < k /\ no < k + 1
    BY <1>3, <1>20 DEF Continues
  <2> QED BY <1>20, <2>1, <2>2 DEF Continues
<1>21. Continues(n, m2, t2, k + 1, q2, g, r, x, e, k)
  <2>1. k < k + 1 /\ e <= k /\ (r.content = Prefix(n, x, e) \/ e < k)
    BY <1>3
  <2>2. ASSUME r.block_size > 0
        PROVE  \/ k + 1 < e + r.block_remaining
               \/ k + 1 = e + r.block_remaining /\ EndsBlock(n, m2, t2, k + 1, q2, g, x, k)
    <3>1. /\ s.block_size = r.block_size /\ s.block_remaining > 0
          /\ r.block_remaining + e = s.block_remaining + k
      BY <1>3, <2>2
    <3>2. CASE s.block_remaining > 1
      <4>1. r.block_remaining \in Int
        BY <1>3, <2>2 DEF OpenFor
      <4> QED BY <1>8, <3>1, <3>2, <4>1
    <3>3. CASE s.block_remaining <= 1
      <4>1. k + 1 = e + r.block_remaining
        <5>1. r.block_remaining \in Int /\ s.block_remaining = 1
          BY <1>3, <1>8, <2>2, <3>1, <3>3 DEF OpenFor
        <5> QED BY <3>1, <5>1
      <4>2. CASE At(n, k + 1) >= Length[x]
        BY <4>1, <4>2 DEF EndsBlock
      <4>3. CASE ~(At(n, k + 1) >= Length[x])
        <5>1. At(n, k + 1) < Length[m]
          BY <1>3, <1>8, <4>3
        <5>2. s.block_size # 0
          BY <1>8, <2>2, <3>1
        <5>3. t2.state = "WaitingForFc" /\ t2.timer = Timer(Cfg[n].n_bs)
          BY <1>7, <3>3, <5>1, <5>2
        <5>4. Waits(t2) /\ m2 = x
          BY <1>3, <1>9, <1>12, <5>3 DEF Waits
        <5> QED BY <1>4, <1>14, <4>1, <5>4 DEF EndsBlock
      <4> QED BY <4>2, <4>3
    <3> QED BY <1>8, <3>2, <3>3
  <2> QED BY <2>1, <2>2 DEF Continues
<1>22. QueueFollows(n, S, m2, t2, k + 1, q2, g, r, x, e)
  <2>1. ASSUME NEW i \in 1..Len(q2), q2[i].kind = "SF", NEW y \in Msg, Sf(n, q2[i], y)
        PROVE  Before(S, x, y)
    <3>1. i \in 1..l /\ q2[i] = q[i]
      BY <1>6, <1>10, <2>1
    <3> QED BY <1>3, <2>1, <3>1 DEF QueueFollows, l
  <2>2. ASSUME NEW i \in 1..l, q[i].kind = "CF"
        PROVE  \E no \in Nat : Cf(n, q[i], x, no) /\ Continues(n, m, t, k, q, g, r, x, e, no)
    BY <1>3, <2>2 DEF QueueFollows, l
  <2>3. ASSUME NEW i \in 1..Len(q2), q2[i].kind = "CF"
        PROVE  \E no \in Nat : Cf(n, q2[i], x, no) /\ Continues(n, m2, t2, k + 1, q2, g, r, x, e, no)
    <3>1. CASE i \in 1..l
      BY <1>10, <1>20, <2>2, <2>3, <3>1
    <3>2. CASE i = l + 1
      BY <1>3, <1>6, <1>10, <1>21, <3>2
    <3> QED BY <1>10, <3>1, <3>2
  <2>4. ASSUME NEW i \in 1..Len(q2), NEW j \in 1..Len(q2), i < j,
               q2[i].kind = "CF", q2[j].kind = "CF",
               NEW u \in Nat, NEW v \in Nat, Cf(n, q2[i], x, u), Cf(n, q2[j], x, v)
        PROVE  u < v
    <3>1. i \in 1..l /\ q2[i] = q[i]
      <4>1. i # l + 1
        BY <1>10, <2>4
      <4> QED BY <1>10, <4>1
    <3>2. CASE j \in 1..l
      <4>1. q2[j] = q[j]
        BY <1>10, <3>2
      <4> QED BY <1>3, <2>4, <3>1, <3>2, <4>1 DEF QueueFollows, l
    <3>3. CASE j = l + 1
      <4>1. q2[j] = f
        BY <1>10, <3>3
      <4>2. v = k
        BY <1>3, <1>6, <2>4, <4>1, CfKnown
      <4>3. PICK no \in Nat : Cf(n, q[i], x, no) /\ Continues(n, m, t, k, q, g, r, x, e, no)
        BY <2>2, <2>4, <3>1
      <4>4. u = no
        BY <2>4, <3>1, <4>3, CfKnown
      <4>5. no < k
        BY <1>3, <4>3 DEF Continues
      <4> QED BY <4>2, <4>4, <4>5
    <3> QED BY <1>10, <3>2, <3>3
  <2> QED BY <2>1, <2>3, <2>4 DEF QueueFollows
<1>23. SenderFollows(n, m2, t2, k + 1, g, r, x, e)
  <2>1. ASSUME t2.state = "Sending"
        PROVE  /\ m2 = x /\ e <= k + 1
               /\ r.content = Prefix(n, x, e) \/ e < k + 1
               /\ r.block_size > 0 =>
                     /\ t2.session.block_size = r.block_size
                     /\ t2.session.block_remaining > 0
                     /\ r.block_remaining + e = t2.session.block_remaining + (k + 1)
    <3>1. At(n, k + 1) < Length[m] /\ m2 = x
      BY <1>3, <1>12, <2>1
    <3>2. e <= k + 1 /\ e < k + 1
      BY <1>3
    <3>3. ASSUME r.block_size > 0
          PROVE  /\ t2.session.block_size = r.block_size
                 /\ t2.session.block_remaining > 0
                 /\ r.block_remaining + e = t2.session.block_remaining + (k + 1)
      <4>1. /\ s.block_size = r.block_size /\ s.block_size # 0
            /\ r.block_remaining + e = s.block_remaining + k
        BY <1>3, <1>8, <3>3
      <4>2. ~(s.block_remaining <= 1) /\ t2.session.block_remaining = s.block_remaining - 1
        BY <1>7, <2>1, <3>1, <4>1
      <4>3. t2.session.block_size = r.block_size
        BY <1>7, <3>1, <4>1
      <4>4. r.block_remaining \in Int
        BY <1>3, <3>3 DEF OpenFor
      <4> QED BY <1>8, <4>1, <4>2, <4>3, <4>4
    <3> QED BY <3>1, <3>2, <3>3
  <2> QED BY <1>4, <2>1 DEF SenderFollows
<1>24. Opened(n, S, m2, t2, q2, g, r, D, k + 1, x, e)
  BY <1>19, <1>22, <1>23 DEF Opened
<1>25. LinkAt(n, S, m2, t2, q2, g, r, D, k + 1)
  BY <1>1, <1>15, <1>16, <1>17, <1>18, <1>24 DEF LinkAt
<1> QED BY <1>25 DEF m2, t2, q2, f, s

(* start_send sends a Single Frame: the send is over.                      *)
LEMMA LinkSingle ==
    ASSUME NonEmpty, NEW n \in Node, NEW S, NEW m \in Msg, NEW t, NEW q, NEW g, NEW r, NEW D,
           NEW k \in Nat, LinkAt(n, S, m, t, q, g, r, D, k), t.state = "Idle",
           Length[m] <= max_single_frame_payload(Cfg[n]), QueueFits(q)
    PROVE  LinkAt(n, S, NoMsg, t, Append(q, SingleFrame(Payload(m))), g, r, D, k)
<1> DEFINE f == SingleFrame(Payload(m))
           q2 == Append(q, f)
           l == Len(q)
<1>1. /\ Story(S, m, D) /\ AnswersAre(n, t, g)
      /\ SinglesAre(n, S, m, q, D) /\ FirstIs(n, m, t, k, q, g)
  BY DEF LinkAt
<1>2. m # NoMsg /\ NoMsg \notin Msg
  BY NodeAssumption
<1>3. Sf(n, f, m) /\ f.kind = "SF"
  BY DEF Sf, SingleFrame
<1>4. /\ Len(q2) = l + 1 /\ l \in Nat /\ q2[l + 1] = f
      /\ \A i \in 1..l : i \in 1..Len(q2) /\ q2[i] = q[i]
      /\ \A i \in 1..Len(q2) : i \in 1..l \/ i = l + 1
  BY AppendAt
<1> HIDE DEF f, q2, l
<1>5. Contains(S, m) /\ Fresh(S, D, m) /\ \A x : Contains(S, x) /\ x # m => Before(S, x, m)
  BY <1>1, <1>2, LastIs
<1>6. ~Waits(t)
  BY DEF Waits
<1>7. \A i \in 1..Len(q2) : q2[i].kind # "SF" => i \in 1..l /\ q2[i] = q[i]
  BY <1>3, <1>4
<1>8. Story(S, NoMsg, D) /\ SessionOf(n, NoMsg, t, k)
  BY <1>1 DEF Story, SessionOf
<1>9. SinglesAre(n, S, NoMsg, q2, D)
  <2>1. ASSUME NEW i \in 1..Len(q2), q2[i].kind = "SF"
        PROVE  \E y \in Msg : Sf(n, q2[i], y) /\ Contains(S, y) /\ y # NoMsg /\ Fresh(S, D, y)
    <3>1. CASE i \in 1..l
      BY <1>1, <1>2, <1>4, <2>1, <3>1 DEF SinglesAre, l
    <3>2. CASE i = l + 1
      BY <1>2, <1>3, <1>4, <1>5, <3>2
    <3> QED BY <1>4, <3>1, <3>2
  <2>2. ASSUME NEW i \in 1..Len(q2), NEW j \in 1..Len(q2), i < j,
               q2[i].kind = "SF", q2[j].kind = "SF",
               NEW y \in Msg, NEW z \in Msg, Sf(n, q2[i], y), Sf(n, q2[j], z)
        PROVE  Before(S, y, z)
    <3>1. i \in 1..l /\ q2[i] = q[i]
      <4>1. i # l + 1
        BY <1>4, <2>2
      <4> QED BY <1>4, <4>1
    <3>2. CASE j \in 1..l
      <4>1. q2[j] = q[j]
        BY <1>4, <3>2
      <4> QED BY <1>1, <2>2, <3>1, <3>2, <4>1 DEF SinglesAre, l
    <3>3. CASE j = l + 1
      <4>1. z = m
        BY <1>3, <1>4, <2>2, <3>3, SfKnown
      <4>2. PICK w \in Msg : Sf(n, q[i], w) /\ Contains(S, w) /\ w # m
        BY <1>1, <2>2, <3>1 DEF SinglesAre, l
      <4>3. y = w
        BY <2>2, <3>1, <4>2, SfKnown
      <4> QED BY <1>5, <4>1, <4>2, <4>3
    <3> QED BY <1>4, <3>2, <3>3
  <2> QED BY <2>1, <2>2 DEF SinglesAre
<1>10. FirstIs(n, NoMsg, t, k, q2, g)
  <2>1. Fitting(n) => NoFf(q)
    BY <1>1, <1>6, Alone
  <2>2. ASSUME NEW i \in 1..Len(q2), q2[i].kind = "FF"
        PROVE  ~Fitting(n) /\ \E x \in Msg : Ff(n, q2[i], x)
    <3>1. i \in 1..l /\ q2[i] = q[i] /\ q[i].kind = "FF"
      BY <1>7, <2>2
    <3> QED BY <1>1, <2>1, <3>1 DEF FirstIs, NoFf, l
  <2> QED BY <2>2 DEF FirstIs
<1>11. CASE r.state = "Idle"
  <2>1. NothingOpen(t, q, g)
    BY <1>11 DEF LinkAt
  <2>2. NothingOpen(t, q2, g)
    BY <1>7, <2>1 DEF NothingOpen, NoCf, l
  <2> QED BY <1>1, <1>8, <1>9, <1>10, <1>11, <2>2 DEF LinkAt, q2, f
<1>12. CASE r.state # "Idle"
  <2>1. PICK x \in Msg, e \in Nat : Opened(n, S, m, t, q, g, r, D, k, x, e)
    BY <1>12 DEF LinkAt
  <2>2. /\ OpenFor(n, S, m, t, r, D, x, e)
        /\ QueueFollows(n, S, m, t, k, q, g, r, x, e)
    BY <2>1 DEF Opened
  <2>3. m # x /\ Contains(S, x) /\ x # NoMsg
    BY <1>2, <2>2 DEF OpenFor
  <2>4. NoFc(g)
    BY <1>1, <1>6, <2>2, OpenFits, Alone
  <2>5. OpenFor(n, S, NoMsg, t, r, D, x, e)
    BY <2>2, <2>3 DEF OpenFor
  <2>6. ASSUME NEW i \in 1..Len(q2), q2[i].kind = "SF", NEW y \in Msg, Sf(n, q2[i], y)
        PROVE  Before(S, x, y)
    <3>1. CASE i \in 1..l
      <4>1. q2[i] = q[i]
        BY <1>4, <3>1
      <4> QED BY <2>2, <2>6, <3>1, <4>1 DEF QueueFollows, l
    <3>2. CASE i = l + 1
      <4>1. y = m
        BY <1>3, <1>4, <2>6, <3>2, SfKnown
      <4> QED BY <1>5, <2>3, <4>1
    <3> QED BY <1>4, <3>1, <3>2
  <2>7. \A no : Continues(n, m, t, k, q, g, r, x, e, no) =>
                   Continues(n, NoMsg, t, k, q2, g, r, x, e, no)
    BY <1>6, <2>3 DEF EndsBlock, Continues
  <2>8. ASSUME NEW i \in 1..Len(q2), q2[i].kind = "CF"
        PROVE  \E no \in Nat : Cf(n, q2[i], x, no) /\ Continues(n, NoMsg, t, k, q2, g, r, x, e, no)
    <3>1. i \in 1..l /\ q2[i] = q[i]
      BY <1>7, <2>8
    <3> QED BY <2>2, <2>7, <2>8, <3>1 DEF QueueFollows, l
  <2>9. ASSUME NEW i \in 1..Len(q2), NEW j \in 1..Len(q2), i < j,
               q2[i].kind = "CF", q2[j].kind = "CF",
               NEW u \in Nat, NEW v \in Nat, Cf(n, q2[i], x, u), Cf(n, q2[j], x, v)
        PROVE  u < v
    <3>1. i \in 1..l /\ q2[i] = q[i] /\ j \in 1..l /\ q2[j] = q[j]
      BY <1>7, <2>9
    <3> QED BY <2>2, <2>9, <3>1 DEF QueueFollows, l
  <2>10. QueueFollows(n, S, NoMsg, t, k, q2, g, r, x, e)
    BY <2>6, <2>8, <2>9 DEF QueueFollows
  <2>11. SenderFollows(n, NoMsg, t, k, g, r, x, e)
    BY <2>4 DEF SenderFollows, NoFc, NoGrant
  <2>12. Opened(n, S, NoMsg, t, q2, g, r, D, k, x, e)
    BY <2>5, <2>10, <2>11 DEF Opened
  <2> QED BY <1>1, <1>8, <1>9, <1>10, <1>12, <2>12 DEF LinkAt, q2, f
<1> QED BY <1>11, <1>12

(* start_send sends a First Frame and waits.                               *)
LEMMA LinkFirst ==
    ASSUME NEW n \in Node, NEW S, NEW m \in Msg, NEW t, NEW q, NEW g, NEW r, NEW D,
           NEW k \in Nat, LinkAt(n, S, m, t, q, g, r, D, k), t.state = "Idle",
           Length[m] > max_single_frame_payload(Cfg[n]), QueueFits(q),
           NEW timer, timer > 0
    PROVE  LinkAt(n, S, m, WaitingForFc(NewSession(Cfg[n], Payload(m)), timer),
                  Append(q, FirstFrameOf(Cfg[n], Payload(m))), g, r, D, 0)
<1> DEFINE f == FirstFrameOf(Cfg[n], Payload(m))
           t2 == WaitingForFc(NewSession(Cfg[n], Payload(m)), timer)
           q2 == Append(q, f)
           l == Len(q)
<1>1. /\ Story(S, m, D) /\ AnswersAre(n, t, g)
      /\ SinglesAre(n, S, m, q, D) /\ FirstIs(n, m, t, k, q, g)
  BY DEF LinkAt
<1>2. m # NoMsg
  BY NodeAssumption
<1>3. Ff(n, f, m) /\ f.kind = "FF"
  BY DEF Ff, FirstFrameOf, FirstFrame
<1>4. /\ Len(q2) = l + 1 /\ l \in Nat /\ q2[l + 1] = f
      /\ \A i \in 1..l : i \in 1..Len(q2) /\ q2[i] = q[i]
      /\ \A i \in 1..Len(q2) : i \in 1..l \/ i = l + 1
  BY AppendAt
<1>5. Waits(t2) /\ t2.state = "WaitingForFc"
  BY DEF Waits, WaitingForFc
<1>6. SessionOf(n, m, t2, 0)
  <2>1. Len(Payload(m)) = Length[m] /\ At(n, 0) = max_first_frame_payload(Cfg[n])
    BY PayloadByte, Steps
  <2> QED BY <1>2, <2>1 DEF SessionOf, NewSession, WaitingForFc
<1> HIDE DEF f, t2, q2, l
<1>7. ~Waits(t)
  BY DEF Waits
<1>8. \A i \in 1..Len(q2) : q2[i].kind # "FF" => i \in 1..l /\ q2[i] = q[i]
  BY <1>3, <1>4
<1>9. AnswersAre(n, t2, g)
  BY <1>1, <1>5 DEF AnswersAre
<1>10. SinglesAre(n, S, m, q2, D)
  <2>1. ASSUME NEW i \in 1..Len(q2), q2[i].kind = "SF"
        PROVE  \E y \in Msg : Sf(n, q2[i], y) /\ Contains(S, y) /\ y # m /\ Fresh(S, D, y)
    <3>1. i \in 1..l /\ q2[i] = q[i]
      BY <1>8, <2>1
    <3> QED BY <1>1, <2>1, <3>1 DEF SinglesAre, l
  <2>2. ASSUME NEW i \in 1..Len(q2), NEW j \in 1..Len(q2), i < j,
               q2[i].kind = "SF", q2[j].kind = "SF",
               NEW y \in Msg, NEW z \in Msg, Sf(n, q2[i], y), Sf(n, q2[j], z)
        PROVE  Before(S, y, z)
    <3>1. i \in 1..l /\ q2[i] = q[i] /\ j \in 1..l /\ q2[j] = q[j]
      BY <1>8, <2>2
    <3> QED BY <1>1, <2>2, <3>1 DEF SinglesAre, l
  <2> QED BY <2>1, <2>2 DEF SinglesAre
<1>11. Fitting(n) => NoFc(g) /\ NoFf(q)
  BY <1>1, <1>7, Alone
<1>12. FirstIs(n, m, t2, 0, q2, g)
  <2> SUFFICES ASSUME NEW i \in 1..Len(q2), q2[i].kind = "FF"
               PROVE  /\ \E x \in Msg : Ff(n, q2[i], x)
                      /\ Fitting(n) =>
                            /\ Waits(t2) /\ 0 = 0 /\ Ff(n, q2[i], m) /\ NoFc(g)
                            /\ \A j \in 1..Len(q2) : q2[j].kind = "FF" => i = j
                            /\ \A j \in 1..Len(q2) : q2[j].kind = "SF" => j < i
    BY DEF FirstIs
  <2>1. CASE i \in 1..l
    <3>1. q2[i] = q[i] /\ q[i].kind = "FF"
      BY <1>4, <2>1
    <3>2. ~Fitting(n)
      BY <1>11, <2>1, <3>1 DEF NoFf, l
    <3> QED BY <1>1, <2>1, <3>1, <3>2 DEF FirstIs, l
  <2>2. CASE i = l + 1
    <3>1. q2[i] = f
      BY <1>4, <2>2
    <3>2. ASSUME Fitting(n), NEW j \in 1..Len(q2), q2[j].kind = "FF" PROVE i = j
      <4>1. j \notin 1..l
        BY <1>4, <1>11, <3>2 DEF NoFf, l
      <4> QED BY <1>4, <2>2, <4>1
    <3>3. ASSUME NEW j \in 1..Len(q2), q2[j].kind = "SF" PROVE j < i
      <4>1. j \in 1..l
        BY <1>8, <3>3
      <4> QED BY <1>4, <2>2, <4>1
    <3> QED BY <1>3, <1>5, <1>11, <3>1, <3>2, <3>3
  <2> QED BY <1>4, <2>1, <2>2
<1>13. CASE r.state = "Idle"
  <2>1. NothingOpen(t, q, g)
    BY <1>13 DEF LinkAt
  <2>2. NothingOpen(t2, q2, g)
    BY <1>5, <1>8, <2>1 DEF NothingOpen, NoCf, l
  <2> QED BY <1>1, <1>6, <1>9, <1>10, <1>12, <1>13, <2>2 DEF LinkAt, q2, f, t2
<1>14. CASE r.state # "Idle"
  <2>1. PICK x \in Msg, e \in Nat : Opened(n, S, m, t, q, g, r, D, k, x, e)
    BY <1>14 DEF LinkAt
  <2>2. /\ OpenFor(n, S, m, t, r, D, x, e)
        /\ QueueFollows(n, S, m, t, k, q, g, r, x, e)
    BY <2>1 DEF Opened
  <2>3. m # x
    BY <2>2 DEF OpenFor
  <2>4. NoFc(g)
    BY <1>11, <2>2, OpenFits
  <2>5. OpenFor(n, S, m, t2, r, D, x, e)
    BY <2>2, <2>3 DEF OpenFor
  <2>6. ASSUME NEW i \in 1..Len(q2), q2[i].kind = "SF", NEW y \in Msg, Sf(n, q2[i], y)
        PROVE  Before(S, x, y)
    <3>1. i \in 1..l /\ q2[i] = q[i]
      BY <1>8, <2>6
    <3> QED BY <2>2, <2>6, <3>1 DEF QueueFollows, l
  <2>7. \A no : Continues(n, m, t, k, q, g, r, x, e, no) =>
                   Continues(n, m, t2, 0, q2, g, r, x, e, no)
    BY <1>7, <2>3 DEF EndsBlock, Continues
  <2>8. ASSUME NEW i \in 1..Len(q2), q2[i].kind = "CF"
        PROVE  \E no \in Nat : Cf(n, q2[i], x, no) /\ Continues(n, m, t2, 0, q2, g, r, x, e, no)
    <3>1. i \in 1..l /\ q2[i] = q[i]
      BY <1>8, <2>8
    <3> QED BY <2>2, <2>7, <2>8, <3>1 DEF QueueFollows, l
  <2>9. ASSUME NEW i \in 1..Len(q2), NEW j \in 1..Len(q2), i < j,
               q2[i].kind = "CF", q2[j].kind = "CF",
               NEW u \in Nat, NEW v \in Nat, Cf(n, q2[i], x, u), Cf(n, q2[j], x, v)
        PROVE  u < v
    <3>1. i \in 1..l /\ q2[i] = q[i] /\ j \in 1..l /\ q2[j] = q[j]
      BY <1>8, <2>9
    <3> QED BY <2>2, <2>9, <3>1 DEF QueueFollows, l
  <2>10. QueueFollows(n, S, m, t2, 0, q2, g, r, x, e)
    BY <2>6, <2>8, <2>9 DEF QueueFollows
  <2>11. SenderFollows(n, m, t2, 0, g, r, x, e)
    BY <1>5, <2>4 DEF SenderFollows, NoFc, NoGrant
  <2>12. Opened(n, S, m, t2, q2, g, r, D, 0, x, e)
    BY <2>5, <2>10, <2>11 DEF Opened
  <2> QED BY <1>1, <1>6, <1>9, <1>10, <1>12, <1>14, <2>12 DEF LinkAt, q2, f, t2
<1> QED BY <1>13, <1>14

(* Time passes: when it is up, nothing is on the way any more.             *)
LEMMA LinkTick ==
    ASSUME NEW n \in Node, NEW S, NEW m, NEW t, NEW q, NEW g, NEW r, NEW D,
           NEW k \in Nat, LinkAt(n, S, m, t, q, g, r, D, k), TxFits(t),
           Waits(t) /\ t.timer = 1 => q = <<>> /\ g = <<>>
    PROVE  LinkAt(n, S, m, Later(t), q, g, r, D, k)
<1> DEFINE t2 == Later(t)
<1>1. CASE t.state = "Idle"
  BY <1>1 DEF Later
<1>2. CASE t.state # "Idle"
  <2>1. /\ t.timer \in Nat /\ t.state \in {"WaitingForFc", "Sending"}
        /\ DOMAIN t = {"state", "session", "timer"}
    BY <1>2 DEF TxFits, TxIdle
  <2>2. /\ t2.state = t.state /\ t2.session = t.session
        /\ t2.timer = IF t.timer <= 1 THEN 0 ELSE t.timer - 1
    BY <1>2, <2>1 DEF Later, Saturating
  <2>3. Waits(t2) => Waits(t)
    BY <2>1, <2>2 DEF Waits
  <2>4. Waits(t) /\ ~Waits(t2) => q = <<>> /\ g = <<>>
    <3> SUFFICES ASSUME Waits(t), ~Waits(t2) PROVE t.timer = 1
      OBVIOUS
    <3> QED BY <2>1, <2>2 DEF Waits
  <2> HIDE DEF t2
  <2>5. CASE Waits(t2) <=> Waits(t)
    <3>1. SessionOf(n, m, t2, k) /\ AnswersAre(n, t2, g) /\ FirstIs(n, m, t2, k, q, g)
      BY <2>2, <2>5 DEF LinkAt, SessionOf, AnswersAre, FirstIs
    <3>2. NothingOpen(t, q, g) => NothingOpen(t2, q, g)
      BY <2>2 DEF NothingOpen
    <3>3. ASSUME NEW x, NEW e, Opened(n, S, m, t, q, g, r, D, k, x, e)
          PROVE  Opened(n, S, m, t2, q, g, r, D, k, x, e)
      <4>1. OpenFor(n, S, m, t2, r, D, x, e) /\ SenderFollows(n, m, t2, k, g, r, x, e)
        BY <2>2, <3>3 DEF Opened, OpenFor, SenderFollows
      <4>2. \A no : Continues(n, m, t, k, q, g, r, x, e, no) =>
                       Continues(n, m, t2, k, q, g, r, x, e, no)
        BY <2>5 DEF EndsBlock, Continues
      <4>3. QueueFollows(n, S, m, t2, k, q, g, r, x, e)
        BY <3>3, <4>2 DEF Opened, QueueFollows
      <4> QED BY <4>1, <4>3 DEF Opened
    <3> QED BY <3>1, <3>2, <3>3 DEF LinkAt, t2
  <2>6. CASE q = <<>> /\ g = <<>>
    <3>1. \A i : i \notin 1..Len(q) /\ i \notin 1..Len(g)
      BY <2>6
    <3>2. SessionOf(n, m, t2, k) /\ AnswersAre(n, t2, g) /\ FirstIs(n, m, t2, k, q, g)
      BY <2>2, <3>1 DEF LinkAt, SessionOf, AnswersAre, FirstIs
    <3>3. NothingOpen(t, q, g) => NothingOpen(t2, q, g)
      BY <2>2 DEF NothingOpen
    <3>4. ASSUME NEW x, NEW e, Opened(n, S, m, t, q, g, r, D, k, x, e)
          PROVE  Opened(n, S, m, t2, q, g, r, D, k, x, e)
      <4>1. OpenFor(n, S, m, t2, r, D, x, e) /\ SenderFollows(n, m, t2, k, g, r, x, e)
        BY <2>2, <3>4 DEF Opened, OpenFor, SenderFollows
      <4>2. QueueFollows(n, S, m, t2, k, q, g, r, x, e)
        BY <3>1 DEF QueueFollows
      <4> QED BY <4>1, <4>2 DEF Opened
    <3> QED BY <3>2, <3>3, <3>4 DEF LinkAt, t2
  <2> QED BY <2>3, <2>4, <2>5, <2>6
<1> QED BY <1>1, <1>2

-----------------------------------------------------------------------------
(* The receiver's steps. *)

(* What a Consecutive Frame behind e others makes of the buffer. *)
Heard(n, x, e, no, content, all) ==
    /\ all \in Seq(Byte) /\ Len(all) \in Nat
    /\ Len(all) <= Length[x] /\ Len(all) <= At(n, e + 1)
    /\ e = no /\ content = Prefix(n, x, e) =>
          /\ Len(all) = Lesser(At(n, e + 1), Length[x])
          /\ all = SubSeq(Payload(x), 1, Lesser(At(n, e + 1), Length[x]))

(* handle_consecutive appends what belongs to the payload.                 *)
LEMMA ChunkHeard ==
    ASSUME NEW n \in Node, NEW x \in Msg, NEW no \in Nat, NEW f, Cf(n, f, x, no),
           NEW r, r.content \in Seq(Byte), r.expected_len = Length[x],
           Len(r.content) < Length[x], NEW e \in Nat, Len(r.content) <= At(n, e)
    PROVE  Heard(n, x, e, no, r.content, r.content \o Chunk(r, f.data))
<1> DEFINE l == Length[x]
           h == Len(r.content)
           d == f.data
           w == max_consecutive_frame_payload(Cfg[n])
           u == At(n, e)
           v == At(n, e + 1)
           chunk == Chunk(r, d)
           all == r.content \o chunk
<1>1. l \in Nat /\ h \in Nat /\ h < l /\ h <= u /\ u \in Nat /\ v = u + w /\ w \in Nat
  <2>1. l \in Nat /\ h \in Nat
    BY PayloadByte
  <2>2. u \in Nat /\ v = u + w /\ w \in Nat
    BY Steps
  <2>3. h < l /\ h <= u
    OBVIOUS
  <2> QED BY <2>1, <2>2, <2>3
<1>2. d \in Seq(Byte) /\ Len(d) \in Nat /\ Len(d) <= w
  BY CfKnown
<1>3. h <= l /\ chunk = SubSeq(d, 1, Lesser(Len(d), l - h))
  BY <1>1 DEF Chunk
<1>4. /\ chunk \in Seq(Byte) /\ Len(chunk) = Lesser(Len(d), l - h)
      /\ all = SubSeq(r.content \o d, 1, Lesser(Len(r.content \o d), l))
  <2> DEFINE old == r.content
             cut == SubSeq(d, 1, Lesser(Len(d), l - Len(old)))
  <2> HIDE DEF l, d, chunk, old
  <2>1. l \in Nat /\ Len(old) <= l /\ d \in Seq(Byte) /\ old \in Seq(Byte)
    BY <1>1, <1>2 DEF old
  <2>2. /\ cut \in Seq(Byte) /\ Len(cut) = Lesser(Len(d), l - Len(old))
        /\ old \o cut = SubSeq(old \o d, 1, Lesser(Len(old \o d), l))
    <3> HIDE DEF cut
    <3>1. Trims(Byte, old, d, l, cut)
      BY <2>1, ConcatTrim DEF cut
    <3> QED BY <3>1 DEF Trims
  <2>3. chunk = cut
    BY <1>3 DEF old
  <2> QED BY <2>2, <2>3 DEF old
<1> HIDE DEF chunk, l, h, d, w, u, v
<1>5. all \in Seq(Byte) /\ Len(all) = h + Len(chunk)
  BY <1>4, ConcatProperties DEF h
<1>6. /\ Len(chunk) \in Nat /\ Len(chunk) <= Len(d) /\ Len(chunk) <= l - h
  BY <1>1, <1>2, <1>4 DEF Lesser
<1>7. Len(all) \in Nat /\ Len(all) <= l /\ Len(all) <= v
  BY <1>1, <1>2, <1>5, <1>6
<1>8. ASSUME e = no, r.content = Prefix(n, x, e)
      PROVE  Len(all) = Lesser(v, l) /\ all = SubSeq(Payload(x), 1, Lesser(v, l))
  <2> DEFINE p == Payload(x)
             s == [NewSession(Cfg[n], p) EXCEPT !.offset = u]
             z == Reach(Cfg[n], u, l)
  <2>1. p \in Seq(Byte) /\ Len(p) = l /\ u < l
    BY <1>8, PayloadByte DEF Cf, u, l
  <2>2. SessionAt(s, u, Len(p))
    BY DEF SessionAt, SessionFields, NewSession
  <2>3. r.content = SubSeq(p, 1, u) /\ Cfg[n].frame_len \in Nat /\ Pad \in Byte
    BY <1>8, CfgNumbers DEF Prefix, Byte, u
  <2>4. z = Lesser(v, l)
    BY <1>1 DEF Reach, w
  <2>5. d = Padded(Cfg[n], NextChunk(Cfg[n], s, p))
    <3>1. s.offset = u /\ s.payload_len = l
      BY <2>1 DEF NewSession
    <3>2. d = Padded(Cfg[n], SubSeq(p, u + 1, Lesser(v, l)))
      BY <1>8 DEF Cf, d, u, v, l
    <3> HIDE DEF s
    <3>3. NextChunk(Cfg[n], s, p) = SubSeq(p, u + 1, Lesser(v, l))
      BY <1>1, <3>1 DEF NextChunk, w
    <3> QED BY <3>2, <3>3
  <2> HIDE DEF p, s, z
  <2>6. SubSeq(r.content \o d, 1, Lesser(Len(r.content \o d), l)) = SubSeq(p, 1, z)
    <3> DEFINE c == Cfg[n]
               data == Padded(c, NextChunk(c, s, p))
               said == r.content
    <3>1. /\ c.frame_len \in Nat /\ Pad \in Byte /\ p \in Seq(Byte) /\ u \in Nat /\ u < Len(p)
          /\ SessionAt(s, u, Len(p)) /\ said = SubSeq(p, 1, u)
      BY <1>1, <2>1, <2>2, <2>3
    <3>2. data = d /\ Reach(c, u, Len(p)) = z
      BY <2>1, <2>5 DEF z
    <3> HIDE DEF c, said
    <3>3. SubSeq(said \o data, 1, Lesser(Len(said \o data), Len(p))) =
              SubSeq(p, 1, Reach(c, u, Len(p)))
      BY <3>1, HeardSoFar
    <3> HIDE DEF data
    <3> QED BY <2>1, <3>2, <3>3 DEF said
  <2>7. z \in 0..l
    BY <1>1, <2>4 DEF Lesser
  <2>8. Len(SubSeq(p, 1, z)) = z
    BY <2>1, <2>7, PrefixOf
  <2>9. all = SubSeq(p, 1, z)
    BY <1>4, <2>6
  <2> QED BY <2>4, <2>8, <2>9 DEF p
<1> QED BY <1>5, <1>7, <1>8 DEF Heard, chunk, l, h, d, w, u, v

(* An Overflow of the receiver is on its way.                              *)
LEMMA LinkRefused ==
    ASSUME NEW n \in Node, NEW S, NEW m, NEW t, NEW q, NEW g, NEW r, NEW D, NEW k \in Nat,
           LinkAt(n, S, m, t, q, g, r, D, k), r.state = "Idle", QueueFits(g),
           Fitting(n) => Waits(t) /\ NoFc(g) /\ NoFf(q),
           NEW f, f.kind = "FC", f.status = "Overflow"
    PROVE  LinkAt(n, S, m, t, q, Append(g, f), r, D, k)
<1> DEFINE g2 == Append(g, f)
           l == Len(g)
<1>1. /\ Story(S, m, D) /\ SessionOf(n, m, t, k) /\ AnswersAre(n, t, g)
      /\ SinglesAre(n, S, m, q, D) /\ FirstIs(n, m, t, k, q, g) /\ NothingOpen(t, q, g)
  BY DEF LinkAt
<1>2. /\ Len(g2) = l + 1 /\ l \in Nat /\ g2[l + 1] = f
      /\ \A i \in 1..l : i \in 1..Len(g2) /\ g2[i] = g[i]
      /\ \A i \in 1..Len(g2) : i \in 1..l \/ i = l + 1
  BY AppendAt
<1> HIDE DEF g2, l
<1>3. NoGrant(g2)
  BY <1>1, <1>2 DEF NothingOpen, NoGrant, l
<1>4. AnswersAre(n, t, g2)
  <2>1. ASSUME NEW i \in 1..Len(g2), g2[i].kind = "FC"
        PROVE  /\ g2[i].status \in {"ClearToSend", "Overflow"}
               /\ g2[i].status = "ClearToSend" => g2[i].block_size = Cfg[Peer[n]].block_size
               /\ Fitting(n) => Waits(t)
    <3>1. CASE i \in 1..l
      BY <1>1, <1>2, <2>1, <3>1 DEF AnswersAre, l
    <3>2. CASE i = l + 1
      BY <1>2, <3>2
    <3> QED BY <1>2, <3>1, <3>2
  <2>2. ASSUME NEW i \in 1..Len(g2), NEW j \in 1..Len(g2),
               Fitting(n), g2[i].kind = "FC", g2[j].kind = "FC"
        PROVE  i = j
    <3>1. \A z \in 1..l : g2[z].kind # "FC"
      BY <1>2, <2>2 DEF NoFc, l
    <3> QED BY <1>2, <2>2, <3>1
  <2> QED BY <2>1, <2>2 DEF AnswersAre
<1>5. FirstIs(n, m, t, k, q, g2)
  BY <1>1 DEF FirstIs, NoFf
<1>6. NothingOpen(t, q, g2)
  BY <1>1, <1>3 DEF NothingOpen
<1> QED BY <1>1, <1>4, <1>5, <1>6 DEF LinkAt, g2

(* A receiver that asks for the next block, whose sender waits for it. *)
Asks(n, S, m, t, q, g, r, D, k) ==
    /\ Waits(t) /\ NoFc(g) /\ NoFf(q) /\ NoCf(q)
    /\ \E x \in Msg :
          /\ Opened(n, S, m, t, q, g, r, D, k, x, k)
          /\ m = x /\ r.content = Prefix(n, x, k)
          /\ r.block_size > 0 => r.block_remaining = r.block_size

(* Its Flow Control is on its way.                                         *)
LEMMA LinkGranted ==
    ASSUME NEW n \in Node, NEW S, NEW m, NEW t, NEW q, NEW g, NEW r, NEW D, NEW k \in Nat,
           LinkAt(n, S, m, t, q, g, r, D, k), r.state = "Receiving", QueueFits(g),
           Asks(n, S, m, t, q, g, r, D, k), NEW f,
           f.kind = "FC", f.status = "ClearToSend", f.block_size = Cfg[Peer[n]].block_size
    PROVE  LinkAt(n, S, m, t, q, Append(g, f), r, D, k)
<1> DEFINE g2 == Append(g, f)
           l == Len(g)
<1>1. /\ Story(S, m, D) /\ SessionOf(n, m, t, k) /\ AnswersAre(n, t, g)
      /\ SinglesAre(n, S, m, q, D) /\ FirstIs(n, m, t, k, q, g)
  BY DEF LinkAt
<1>2. /\ Len(g2) = l + 1 /\ l \in Nat /\ g2[l + 1] = f
      /\ \A i \in 1..l : i \in 1..Len(g2) /\ g2[i] = g[i]
      /\ \A i \in 1..Len(g2) : i \in 1..l \/ i = l + 1
  BY AppendAt
<1>3. Waits(t) /\ NoFc(g) /\ NoFf(q) /\ NoCf(q)
  BY DEF Asks
<1>4. PICK x \in Msg : /\ Opened(n, S, m, t, q, g, r, D, k, x, k)
                       /\ m = x /\ r.content = Prefix(n, x, k)
                       /\ r.block_size > 0 => r.block_remaining = r.block_size
  BY DEF Asks
<1> HIDE DEF g2, l
<1>5. AnswersAre(n, t, g2)
  <2>1. ASSUME NEW i \in 1..Len(g2), g2[i].kind = "FC" PROVE i = l + 1 /\ g2[i] = f
    <3>1. i \notin 1..l
      BY <1>2, <1>3, <2>1 DEF NoFc, l
    <3> QED BY <1>2, <3>1
  <2> QED BY <1>3, <2>1 DEF AnswersAre
<1>6. FirstIs(n, m, t, k, q, g2)
  BY <1>3 DEF FirstIs, NoFf
<1>7. OpenFor(n, S, m, t, r, D, x, k)
  BY <1>4 DEF Opened
<1>8. QueueFollows(n, S, m, t, k, q, g2, r, x, k)
  BY <1>3, <1>4 DEF Opened, QueueFollows, NoCf
<1>9. SenderFollows(n, m, t, k, g2, r, x, k)
  BY <1>3, <1>4 DEF SenderFollows, Waits
<1>10. Opened(n, S, m, t, q, g2, r, D, k, x, k)
  BY <1>7, <1>8, <1>9 DEF Opened
<1> QED BY <1>1, <1>5, <1>6, <1>10 DEF LinkAt, g2

(* Behind a frame come later frames.                                       *)
LEMMA Behind ==
    ASSUME NEW q, QueueFits(q), NEW i \in 1..Len(q)
    PROVE  /\ Within(After(q, i), q, DataKinds) /\ Within(After(q, i), q, {"FC"})
           /\ \A j \in 1..Len(After(q, i)) :
                 i + j \in 1..Len(q) /\ i < i + j /\ After(q, i)[j] = q[i + j]
<1>1. Len(q) \in Nat
  BY RestAt
<1>2. i \in 0..Len(q)
  BY <1>1
<1>3. Within(After(q, i), q, DataKinds) /\ Within(After(q, i), q, {"FC"})
  BY <1>2, Withins
<1>4. \A j \in 1..Len(After(q, i)) : i + j \in 1..Len(q) /\ After(q, i)[j] = q[i + j]
  BY <1>2, RestAt
<1>5. \A j \in 1..Len(After(q, i)) : i < i + j
  OBVIOUS
<1> QED BY <1>3, <1>4, <1>5

(* A Single Frame is delivered (handle_single).                            *)
LEMMA LinkSingleHeard ==
    ASSUME NonEmpty, NEW n \in Node, NEW S, NEW m, NEW t, NEW q, NEW g, NEW r, NEW D, NEW k \in Nat,
           LinkAt(n, S, m, t, q, g, r, D, k), r.state = "Idle", QueueFits(q),
           NEW i \in 1..Len(q), q[i].kind = "SF", NEW r2, r2.state = "Idle"
    PROVE  /\ LinkAt(n, S, m, t, After(q, i), g, r2, Append(D, q[i].data), k)
           /\ IsNext(S, D, q[i].data)
<1> DEFINE q2 == After(q, i)
<1>1. /\ Story(S, m, D) /\ SessionOf(n, m, t, k) /\ AnswersAre(n, t, g)
      /\ SinglesAre(n, S, m, q, D) /\ FirstIs(n, m, t, k, q, g) /\ NothingOpen(t, q, g)
  BY DEF LinkAt
<1>2. PICK x \in Msg : Sf(n, q[i], x) /\ Contains(S, x) /\ x # m /\ Fresh(S, D, x)
  BY <1>1 DEF SinglesAre
<1>3. q[i].data = Payload(x)
  BY <1>2, SfKnown
<1> DEFINE E == Append(D, Payload(x))
<1>4. /\ Within(q2, q, DataKinds) /\ S \in Seq(Msg) /\ D \in Seq(Seq(Byte))
      /\ \A j \in 1..Len(q2) : i + j \in 1..Len(q) /\ i < i + j /\ q2[j] = q[i + j]
  BY <1>1, Behind DEF Story
<1>5. Story(S, m, E)
  BY <1>1, <1>2, StoryGrows
<1>6. SinglesAre(n, S, m, q2, D)
  BY <1>1, <1>4, SinglesKept
<1> HIDE DEF q2, E
<1>7. SinglesAre(n, S, m, q2, E)
  <2>1. ASSUME NEW j \in 1..Len(q2), q2[j].kind = "SF"
        PROVE  \E y \in Msg : Sf(n, q2[j], y) /\ Contains(S, y) /\ y # m /\ Fresh(S, E, y)
    <3>1. PICK y \in Msg : Sf(n, q2[j], y) /\ Contains(S, y) /\ y # m /\ Fresh(S, D, y)
      BY <1>6, <2>1 DEF SinglesAre
    <3> DEFINE z == i + j
    <3>2. z \in 1..Len(q) /\ i < z /\ q[z] = q2[j]
      BY <1>4
    <3> HIDE DEF z
    <3>3. Before(S, x, y)
      BY <1>1, <1>2, <2>1, <3>1, <3>2 DEF SinglesAre
    <3>4. Fresh(S, E, y)
      BY <1>4, <3>1, <3>3, FreshKept DEF E
    <3> QED BY <3>1, <3>4
  <2> QED BY <1>6, <2>1 DEF SinglesAre
<1>8. Within(g, g, {"FC"})
  <2>1. g = g
    OBVIOUS
  <2> DEFINE h == [j \in 1..Len(g) |-> j]
  <2>2. h \in [1..Len(g) -> Nat] /\ \A j \in 1..Len(g) : h[j] = j
    OBVIOUS
  <2> HIDE DEF h
  <2> QED BY <2>2, Maps
<1>9. FirstIs(n, m, t, k, q2, g)
  BY <1>1, <1>4, <1>8, FirstKept
<1>10. NothingOpen(t, q2, g)
  BY <1>1, <1>4, NonesKept DEF NothingOpen
<1>11. LinkAt(n, S, m, t, q2, g, r2, E, k)
  BY <1>1, <1>5, <1>7, <1>9, <1>10 DEF LinkAt
<1>12. IsNext(S, D, q[i].data)
  BY <1>2, <1>3 DEF IsNext
<1> QED BY <1>3, <1>11, <1>12 DEF q2, E

(* A Single Frame too long for the receiver.                               *)
LEMMA SingleTooLong ==
    ASSUME NonEmpty, NEW n \in Node, NEW S, NEW m, NEW t, NEW q, NEW g, NEW r, NEW D, NEW k,
           LinkAt(n, S, m, t, q, g, r, D, k),
           NEW i \in 1..Len(q), q[i].kind = "SF", Len(q[i].data) > Room(Cfg[Peer[n]])
    PROVE  ~Fitting(n)
<1>1. PICK x \in Msg : Sf(n, q[i], x)
  BY DEF LinkAt, SinglesAre
<1>2. Len(q[i].data) = Length[x] /\ Length[x] <= max_single_frame_payload(Cfg[n])
  BY <1>1, SfKnown, PayloadByte DEF Sf
<1> DEFINE u == max_single_frame_payload(Cfg[n])
           l == Length[x]
           v == Room(Cfg[Peer[n]])
<1>3. u \in Nat /\ l \in Nat /\ v \in Int
  <2>1. Peer[n] \in Node
    BY NodeAssumption
  <2>2. Cfg[Peer[n]].max_payload_len \in Nat /\ ValidConfig(Cfg[Peer[n]])
    BY <2>1, CfgAssumption DEF ValidConfig
  <2>3. v \in Int
    BY <2>2 DEF Room, Lesser, ValidConfig
  <2> QED BY <2>3, Steps, PayloadByte
<1>4. l <= u /\ l > v
  BY <1>2
<1> HIDE DEF u, l, v
<1>5. ~(u <= v)
  BY <1>3, <1>4
<1> QED BY <1>5 DEF Fitting, u, v

(* Without a transfer the receiver drops the frames up to one that fits    *)
(* no more of it: the sender waits for the answer, if one can come.        *)
LEMMA RefusedWaits ==
    ASSUME NonEmpty, NEW n \in Node, NEW S, NEW m, NEW t, NEW q, NEW g, NEW r, NEW D, NEW k,
           LinkAt(n, S, m, t, q, g, r, D, k), QueueFits(q), NEW i \in 1..Len(q),
           \/ q[i].kind = "SF" /\ Len(q[i].data) > Room(Cfg[Peer[n]])
           \/ q[i].kind = "FF"
    PROVE  Fitting(n) => Waits(t) /\ NoFc(g) /\ NoFf(After(q, i))
<1>1. CASE q[i].kind = "SF" /\ Len(q[i].data) > Room(Cfg[Peer[n]])
  BY <1>1, SingleTooLong
<1>2. CASE q[i].kind = "FF"
  <2> SUFFICES ASSUME Fitting(n) PROVE Waits(t) /\ NoFc(g) /\ NoFf(After(q, i))
    OBVIOUS
  <2>1. Waits(t) /\ NoFc(g) /\ \A j \in 1..Len(q) : q[j].kind = "FF" => i = j
    BY <1>2 DEF LinkAt, FirstIs
  <2>2. ASSUME NEW j \in 1..Len(After(q, i)), After(q, i)[j].kind = "FF" PROVE FALSE
    <3>1. i + j \in 1..Len(q) /\ i < i + j /\ q[i + j].kind = "FF"
      BY <2>2, Behind
    <3>2. i = i + j
      BY <2>1, <3>1
    <3> QED BY <3>1, <3>2
  <2> QED BY <2>1, <2>2 DEF NoFf
<1> QED BY <1>1, <1>2

(* A First Frame opens a transfer (handle_first).                          *)
LEMMA LinkFirstHeard ==
    ASSUME NEW n \in Node, NEW S, NEW m, NEW t, NEW q, NEW g, NEW r, NEW D, NEW k \in Nat,
           LinkAt(n, S, m, t, q, g, r, D, k), r.state = "Idle", QueueFits(q),
           NEW i \in 1..Len(q), q[i].kind = "FF", q[i].len <= Room(Cfg[Peer[n]]),
           NEW r2, r2.state = "Receiving", r2.expected_len = q[i].len,
           r2.content = SubSeq(q[i].data, 1, Lesser(Len(q[i].data), q[i].len)),
           r2.block_size = Cfg[Peer[n]].block_size, r2.block_remaining = r2.block_size
    PROVE  /\ LinkAt(n, S, m, t, After(q, i), g, r2, D, k)
           /\ Asks(n, S, m, t, After(q, i), g, r2, D, k)
<1> DEFINE q2 == After(q, i)
           f == q[i]
<1>1. /\ Story(S, m, D) /\ SessionOf(n, m, t, k) /\ AnswersAre(n, t, g)
      /\ SinglesAre(n, S, m, q, D) /\ FirstIs(n, m, t, k, q, g) /\ NothingOpen(t, q, g)
  BY DEF LinkAt
<1>2. PICK y \in Msg : Ff(n, f, y)
  BY <1>1 DEF FirstIs
<1>3. Fitting(n)
  <2> DEFINE u == max_single_frame_payload(Cfg[n])
             l == Length[y]
             v == Room(Cfg[Peer[n]])
  <2>1. u \in Nat /\ l \in Nat /\ l > u /\ l <= v
    <3>1. f.len = l
      BY <1>2, FfKnown
    <3> QED BY <1>2, <3>1, Steps, PayloadByte DEF Ff
  <2>2. v \in Int
    <3>1. Peer[n] \in Node
      BY NodeAssumption
    <3>2. Cfg[Peer[n]].max_payload_len \in Nat /\ ValidConfig(Cfg[Peer[n]])
      BY <3>1, CfgAssumption DEF ValidConfig
    <3> QED BY <3>2 DEF Room, Lesser, ValidConfig
  <2> HIDE DEF u, l, v
  <2>3. u <= v
    BY <2>1, <2>2
  <2> QED BY <2>3 DEF Fitting, u, v
<1>4. /\ Waits(t) /\ k = 0 /\ Ff(n, f, m) /\ NoFc(g)
      /\ \A j \in 1..Len(q) : q[j].kind = "FF" => i = j
      /\ \A j \in 1..Len(q) : q[j].kind = "SF" => j < i
  BY <1>1, <1>3 DEF FirstIs
<1>5. t.state = "WaitingForFc" /\ m # NoMsg
  BY <1>1, <1>4 DEF Waits, SessionOf
<1>6. m \in Msg /\ Contains(S, m) /\ Fresh(S, D, m)
  BY <1>1, <1>5, LastIs
<1>7. /\ f.len = Length[m] /\ f.data = Prefix(n, m, 0)
      /\ f.data \in Seq(Byte) /\ Len(f.data) = At(n, 0) /\ At(n, 0) < Length[m]
  BY <1>4, <1>6, FfKnown
<1>8. At(n, 0) \in Nat /\ Length[m] \in Nat /\ Length[m] > max_single_frame_payload(Cfg[n])
  BY <1>4, <1>6, Steps, PayloadByte DEF Ff
<1>9. r2.content = f.data
  <2>1. Lesser(Len(f.data), f.len) = Len(f.data)
    BY <1>7, <1>8 DEF Lesser
  <2>2. SubSeq(f.data, 1, Len(f.data)) = f.data
    BY <1>7
  <2> QED BY <2>1, <2>2
<1>10. /\ Within(q2, q, DataKinds)
       /\ \A j \in 1..Len(q2) : i + j \in 1..Len(q) /\ i < i + j /\ q2[j] = q[i + j]
  BY Behind
<1>11. NoFf(q2)
  <2> SUFFICES ASSUME NEW j \in 1..Len(q2), q2[j].kind = "FF" PROVE FALSE
    BY DEF NoFf
  <2>1. i = i + j
    BY <1>4, <1>10
  <2> QED BY <1>10, <2>1
<1>12. \A j \in 1..Len(q2) : q2[j].kind # "SF"
  <2> SUFFICES ASSUME NEW j \in 1..Len(q2), q2[j].kind = "SF" PROVE FALSE
    OBVIOUS
  <2>1. i + j < i
    BY <1>4, <1>10
  <2> QED BY <1>10, <2>1
<1>13. NoCf(q2)
  BY <1>1, <1>10, NonesKept DEF NothingOpen
<1>14. Cfg[Peer[n]].block_size \in Nat /\ Peer[n] \in Node
  BY NodeAssumption, CfgNumbers
<1> HIDE DEF q2
<1>15. OpenFor(n, S, m, t, r2, D, m, 0)
  <2>1. r2.expected_len = Length[m] /\ Len(r2.content) = At(n, 0) /\ Length[m] <= Room(Cfg[Peer[n]])
    BY <1>7, <1>9
  <2>2. r2.block_size > 0 => r2.block_remaining \in 1..r2.block_size
    BY <1>14
  <2>3. Len(r2.content) < Length[m] /\ Len(r2.content) <= At(n, 0)
    <3>1. At(n, 0) < Length[m] /\ At(n, 0) <= At(n, 0)
      BY <1>7, <1>8
    <3> QED BY <2>1, <3>1
  <2> QED BY <1>5, <1>6, <1>8, <2>1, <2>2, <2>3 DEF OpenFor
<1>16. QueueFollows(n, S, m, t, 0, q2, g, r2, m, 0)
  BY <1>12, <1>13 DEF QueueFollows, NoCf
<1>17. NoGrant(g)
  BY <1>4 DEF NoFc, NoGrant
<1>18. SenderFollows(n, m, t, 0, g, r2, m, 0)
  BY <1>5, <1>17 DEF SenderFollows
<1>19. Opened(n, S, m, t, q2, g, r2, D, 0, m, 0)
  BY <1>15, <1>16, <1>18 DEF Opened
<1>20. Asks(n, S, m, t, q2, g, r2, D, k)
  BY <1>4, <1>6, <1>7, <1>9, <1>11, <1>13, <1>19 DEF Asks
<1>21. SinglesAre(n, S, m, q2, D) /\ FirstIs(n, m, t, k, q2, g)
  BY <1>11, <1>12 DEF SinglesAre, FirstIs, NoFf
<1>22. LinkAt(n, S, m, t, q2, g, r2, D, k)
  BY <1>1, <1>4, <1>6, <1>19, <1>21 DEF LinkAt
<1> QED BY <1>20, <1>22 DEF q2

(* The transfer a Consecutive Frame belongs to, and what it adds. *)
ComesNext(n, S, m, t, q, g, r, D, k, i, x, e, no) ==
    /\ Opened(n, S, m, t, q, g, r, D, k, x, e)
    /\ Cf(n, q[i], x, no) /\ Continues(n, m, t, k, q, g, r, x, e, no)
    /\ r.expected_len = Length[x] /\ Len(r.content) < Length[x]
    /\ Heard(n, x, e, no, r.content, r.content \o Chunk(r, q[i].data))
    /\ \A j \in 1..Len(After(q, i)) : After(q, i)[j].kind = "CF" =>
          \E v \in Nat : /\ Cf(n, After(q, i)[j], x, v) /\ no < v
                         /\ Continues(n, m, t, k, After(q, i), g, r, x, e, v)

(* handle_consecutive gets one of these.                                   *)
LEMMA NextHeard ==
    ASSUME NEW n \in Node, NEW S, NEW m, NEW t, NEW q, NEW g, NEW r, NEW D, NEW k \in Nat,
           LinkAt(n, S, m, t, q, g, r, D, k), r.state # "Idle", r.content \in Seq(Byte),
           QueueFits(q), NEW i \in 1..Len(q), q[i].kind = "CF"
    PROVE  \E x \in Msg, e \in Nat, no \in Nat : ComesNext(n, S, m, t, q, g, r, D, k, i, x, e, no)
<1> DEFINE q2 == After(q, i)
           all == r.content \o Chunk(r, q[i].data)
<1>1. PICK x \in Msg, e \in Nat : Opened(n, S, m, t, q, g, r, D, k, x, e)
  BY DEF LinkAt
<1>2. OpenFor(n, S, m, t, r, D, x, e) /\ QueueFollows(n, S, m, t, k, q, g, r, x, e)
  BY <1>1 DEF Opened
<1>3. PICK no \in Nat : Cf(n, q[i], x, no) /\ Continues(n, m, t, k, q, g, r, x, e, no)
  BY <1>2 DEF QueueFollows
<1>4. r.expected_len = Length[x] /\ Len(r.content) < Length[x] /\ Len(r.content) <= At(n, e)
  BY <1>2 DEF OpenFor
<1>5. Heard(n, x, e, no, r.content, all)
  BY <1>3, <1>4, ChunkHeard
<1>6. /\ Within(q2, q, DataKinds)
      /\ \A j \in 1..Len(q2) : i + j \in 1..Len(q) /\ i < i + j /\ q2[j] = q[i + j]
  BY Behind
<1>7. Within(g, g, {"FC"})
  <2> DEFINE h == [j \in 1..Len(g) |-> j]
  <2>1. h \in [1..Len(g) -> Nat] /\ \A j \in 1..Len(g) : h[j] = j
    OBVIOUS
  <2> HIDE DEF h
  <2> QED BY <2>1, Maps
<1>8. QueueFollows(n, S, m, t, k, q2, g, r, x, e)
  BY <1>2, <1>6, <1>7, FollowsKept
<1> HIDE DEF q2, all
<1>9. ASSUME NEW j \in 1..Len(q2), q2[j].kind = "CF"
      PROVE  \E v \in Nat : /\ Cf(n, q2[j], x, v) /\ no < v
                            /\ Continues(n, m, t, k, q2, g, r, x, e, v)
  <2>1. PICK v \in Nat : Cf(n, q2[j], x, v) /\ Continues(n, m, t, k, q2, g, r, x, e, v)
    BY <1>8, <1>9 DEF QueueFollows
  <2> DEFINE z == i + j
  <2>2. z \in 1..Len(q) /\ i < z /\ q[z] = q2[j]
    BY <1>6
  <2> HIDE DEF z
  <2>3. no < v
    BY <1>2, <1>3, <1>9, <2>1, <2>2 DEF QueueFollows
  <2> QED BY <2>1, <2>3
<1>10. ComesNext(n, S, m, t, q, g, r, D, k, i, x, e, no)
  BY <1>1, <1>3, <1>4, <1>5, <1>9 DEF ComesNext, q2, all
<1> QED BY <1>10

(* The last Consecutive Frame completes the payload.                       *)
LEMMA LinkCompleted ==
    ASSUME NonEmpty, NEW n \in Node, NEW S, NEW m, NEW t, NEW q, NEW g, NEW r, NEW D, NEW k \in Nat,
           LinkAt(n, S, m, t, q, g, r, D, k), TxFits(t), QueueFits(q),
           NEW i \in 1..Len(q), NEW x \in Msg, NEW e \in Nat, NEW no \in Nat,
           ComesNext(n, S, m, t, q, g, r, D, k, i, x, e, no), NEW all,
           all = r.content \o Chunk(r, q[i].data), Len(all) >= Length[x],
           NEW r2, r2.state = "Idle"
    PROVE  LinkAt(n, S, m, t, After(q, i), g, r2, Append(D, all), k) /\ IsNext(S, D, all)
<1> DEFINE q2 == After(q, i)
           u == At(n, e + 1)
           l == Length[x]
<1>1. /\ Story(S, m, D) /\ SessionOf(n, m, t, k) /\ AnswersAre(n, t, g)
      /\ SinglesAre(n, S, m, q, D) /\ FirstIs(n, m, t, k, q, g)
  BY DEF LinkAt
<1>2. /\ OpenFor(n, S, m, t, r, D, x, e)
      /\ QueueFollows(n, S, m, t, k, q, g, r, x, e)
      /\ SenderFollows(n, m, t, k, g, r, x, e)
      /\ Cf(n, q[i], x, no) /\ Continues(n, m, t, k, q, g, r, x, e, no)
  BY DEF ComesNext, Opened
<1>3. /\ u \in Nat /\ l \in Nat /\ Len(all) \in Nat /\ Len(all) <= u /\ Len(all) <= l
      /\ u >= l
  <2>1. u \in Nat /\ l \in Nat
    <3>1. e + 1 \in Nat
      OBVIOUS
    <3> QED BY <3>1, Steps, PayloadByte
  <2>2. Len(all) \in Nat /\ Len(all) <= u /\ Len(all) <= l
    BY DEF ComesNext, Heard
  <2> DEFINE h == Len(all)
  <2>3. h \in Nat /\ h <= u /\ h <= l /\ h >= l
    BY <2>2
  <2> HIDE DEF u, l, h
  <2>4. u >= l
    BY <2>1, <2>3
  <2> QED BY <2>1, <2>2, <2>4
<1>4. \A v \in Nat : e < v => At(n, v) >= l
  <2> SUFFICES ASSUME NEW v \in Nat, e < v PROVE At(n, v) >= l
    OBVIOUS
  <2>1. u <= At(n, v) /\ At(n, v) \in Nat
    BY Steps
  <2> HIDE DEF u, l
  <2> QED BY <1>3, <2>1
<1>5. e = no /\ r.content = Prefix(n, x, e)
  <2>1. At(n, no) < l /\ At(n, no) \in Nat
    BY <1>2, Steps DEF Cf
  <2>2. ~(e < no)
    BY <1>3, <1>4, <2>1
  <2>3. e <= no /\ (r.content = Prefix(n, x, e) \/ e < no)
    BY <1>2 DEF Continues
  <2> QED BY <2>2, <2>3
<1>6. all = Payload(x)
  <2>1. all = SubSeq(Payload(x), 1, Lesser(u, l))
    BY <1>5 DEF ComesNext, Heard
  <2>2. Lesser(u, l) = l
    <3> HIDE DEF u, l
    <3> QED BY <1>3 DEF Lesser
  <2>3. Payload(x) \in Seq(Byte) /\ Len(Payload(x)) = l
    BY PayloadByte
  <2>4. SubSeq(Payload(x), 1, Len(Payload(x))) = Payload(x)
    BY <2>3
  <2> QED BY <2>1, <2>2, <2>3, <2>4
<1>7. m # x
  <2> SUFFICES ASSUME m = x PROVE FALSE
    OBVIOUS
  <2>1. no < k /\ t.state # "Idle"
    BY <1>2 DEF Continues, OpenFor
  <2>2. t.session.offset = At(n, k) /\ t.session.payload_len = l
    BY <1>1, <2>1 DEF SessionOf
  <2>3. t.session.offset < t.session.payload_len
    BY <2>1 DEF TxFits, TxIdle
  <2>4. At(n, k) >= l /\ At(n, k) \in Nat
    BY <1>4, <1>5, <2>1, Steps
  <2> QED BY <1>3, <2>2, <2>3, <2>4
<1>8. t.state # "Sending" /\ NoGrant(g)
  BY <1>2, <1>7 DEF SenderFollows
<1>9. NoCf(q2)
  <2> SUFFICES ASSUME NEW j \in 1..Len(q2), q2[j].kind = "CF" PROVE FALSE
    BY DEF NoCf
  <2>1. PICK v \in Nat : Cf(n, q2[j], x, v) /\ no < v
    BY DEF ComesNext
  <2>2. At(n, v) >= l /\ At(n, v) < l /\ At(n, v) \in Nat
    BY <1>4, <1>5, <2>1, Steps DEF Cf
  <2> QED BY <1>3, <2>2
<1> DEFINE E == Append(D, Payload(x))
<1>10. Contains(S, x) /\ S \in Seq(Msg) /\ D \in Seq(Seq(Byte))
  BY <1>1, <1>2 DEF OpenFor, Story
<1>11. Story(S, m, E)
  BY <1>1, <1>7, <1>10, StoryGrows
<1>12. /\ Within(q2, q, DataKinds)
       /\ \A j \in 1..Len(q2) : i + j \in 1..Len(q) /\ q2[j] = q[i + j]
  BY Behind
<1>13. SinglesAre(n, S, m, q2, D)
  BY <1>1, <1>12, SinglesKept
<1>14. Within(g, g, {"FC"})
  <2> DEFINE h == [j \in 1..Len(g) |-> j]
  <2>1. h \in [1..Len(g) -> Nat] /\ \A j \in 1..Len(g) : h[j] = j
    OBVIOUS
  <2> HIDE DEF h
  <2> QED BY <2>1, Maps
<1>15. FirstIs(n, m, t, k, q2, g)
  BY <1>1, <1>12, <1>14, FirstKept
<1> HIDE DEF q2, E
<1>16. SinglesAre(n, S, m, q2, E)
  <2>1. ASSUME NEW j \in 1..Len(q2), q2[j].kind = "SF"
        PROVE  \E y \in Msg : Sf(n, q2[j], y) /\ Contains(S, y) /\ y # m /\ Fresh(S, E, y)
    <3>1. PICK y \in Msg : Sf(n, q2[j], y) /\ Contains(S, y) /\ y # m /\ Fresh(S, D, y)
      BY <1>13, <2>1 DEF SinglesAre
    <3> DEFINE z == i + j
    <3>2. z \in 1..Len(q) /\ q[z] = q2[j]
      BY <1>12
    <3> HIDE DEF z
    <3>3. Before(S, x, y)
      BY <1>2, <2>1, <3>1, <3>2 DEF QueueFollows
    <3>4. Fresh(S, E, y)
      BY <1>10, <3>1, <3>3, FreshKept DEF E
    <3> QED BY <3>1, <3>4
  <2> QED BY <1>13, <2>1 DEF SinglesAre
<1>17. NothingOpen(t, q2, g)
  BY <1>8, <1>9 DEF NothingOpen
<1>18. LinkAt(n, S, m, t, q2, g, r2, E, k)
  BY <1>1, <1>11, <1>15, <1>16, <1>17 DEF LinkAt
<1>19. IsNext(S, D, all)
  BY <1>2, <1>6 DEF IsNext, OpenFor
<1> QED BY <1>6, <1>18, <1>19 DEF q2, E

(* The machine has taken in the data of a frame, and is not done. *)
More(r, r2, data, x) ==
    /\ r2.state = "Receiving"
    /\ r2.content = r.content \o Chunk(r, data) /\ Len(r2.content) < Length[x]
    /\ r2.expected_len = r.expected_len /\ r2.block_size = r.block_size

(* What such a frame leaves. *)
Progress(n, S, m, t, k, q, g, r, D, x, e, no) ==
    /\ Story(S, m, D) /\ SessionOf(n, m, t, k) /\ AnswersAre(n, t, g)
    /\ SinglesAre(n, S, m, q, D) /\ FirstIs(n, m, t, k, q, g)
    /\ OpenFor(n, S, m, t, r, D, x, e + 1)
    /\ \A j \in 1..Len(q) : q[j].kind = "SF" =>
          \A y \in Msg : Sf(n, q[j], y) => Before(S, x, y)
    /\ \A i, j \in 1..Len(q) : i < j /\ q[i].kind = "CF" /\ q[j].kind = "CF" =>
          \A u, v \in Nat : Cf(n, q[i], x, u) /\ Cf(n, q[j], x, v) => u < v
    /\ e <= no /\ (m = x => no < k) /\ (e = no => r.content = Prefix(n, x, e + 1))

(* A Consecutive Frame that does not complete the payload.                 *)
LEMMA MoreHeard ==
    ASSUME NEW n \in Node, NEW S, NEW m, NEW t, NEW q, NEW g, NEW r, NEW D, NEW k \in Nat,
           LinkAt(n, S, m, t, q, g, r, D, k), QueueFits(q),
           NEW i \in 1..Len(q), NEW x \in Msg, NEW e \in Nat, NEW no \in Nat,
           ComesNext(n, S, m, t, q, g, r, D, k, i, x, e, no),
           NEW r2, More(r, r2, q[i].data, x),
           r2.block_size > 0 => r2.block_remaining \in 1..r2.block_size
    PROVE  Progress(n, S, m, t, k, After(q, i), g, r2, D, x, e, no)
<1> DEFINE q2 == After(q, i)
           u == At(n, e + 1)
           l == Length[x]
<1>1. /\ Story(S, m, D) /\ SessionOf(n, m, t, k) /\ AnswersAre(n, t, g)
      /\ SinglesAre(n, S, m, q, D) /\ FirstIs(n, m, t, k, q, g)
  BY DEF LinkAt
<1>2. /\ OpenFor(n, S, m, t, r, D, x, e)
      /\ QueueFollows(n, S, m, t, k, q, g, r, x, e)
      /\ Continues(n, m, t, k, q, g, r, x, e, no)
      /\ Heard(n, x, e, no, r.content, r2.content)
  BY DEF ComesNext, Opened, More
<1>3. /\ Within(q2, q, DataKinds)
      /\ \A j \in 1..Len(q2) : i + j \in 1..Len(q) /\ q2[j] = q[i + j]
  BY Behind
<1>4. Within(g, g, {"FC"})
  <2> DEFINE h == [j \in 1..Len(g) |-> j]
  <2>1. h \in [1..Len(g) -> Nat] /\ \A j \in 1..Len(g) : h[j] = j
    OBVIOUS
  <2> HIDE DEF h
  <2> QED BY <2>1, Maps
<1>5. SinglesAre(n, S, m, q2, D) /\ FirstIs(n, m, t, k, q2, g)
  BY <1>1, <1>3, <1>4, SinglesKept, FirstKept
<1>6. QueueFollows(n, S, m, t, k, q2, g, r, x, e)
  BY <1>2, <1>3, <1>4, FollowsKept
<1>7. /\ u \in Nat /\ l \in Nat /\ Len(r2.content) \in Nat
      /\ Len(r2.content) <= u /\ Len(r2.content) < l
  <2>1. e + 1 \in Nat
    OBVIOUS
  <2>2. u \in Nat /\ l \in Nat
    BY <2>1, Steps, PayloadByte
  <2> QED BY <1>2, <2>2 DEF Heard, More
<1>8. OpenFor(n, S, m, t, r2, D, x, e + 1)
  <2>1. r2.expected_len = l /\ Len(r2.content) < l /\ Len(r2.content) <= At(n, e + 1)
    BY <1>2, <1>7 DEF OpenFor, More
  <2>2. r2.block_size = Cfg[Peer[n]].block_size
    BY <1>2 DEF OpenFor, More
  <2> HIDE DEF u, l
  <2> QED BY <1>2, <2>1, <2>2 DEF OpenFor, l
<1>9. e <= no /\ (m = x => no < k) /\ (r.content = Prefix(n, x, e) \/ e < no)
  BY <1>2 DEF Continues
<1>10. ASSUME e = no PROVE r2.content = Prefix(n, x, e + 1)
  <2>1. r.content = Prefix(n, x, e)
    BY <1>9, <1>10
  <2>2. Len(r2.content) = Lesser(u, l) /\ r2.content = SubSeq(Payload(x), 1, Lesser(u, l))
    BY <1>2, <1>10, <2>1 DEF Heard
  <2>3. Lesser(u, l) = u
    <3> DEFINE h == Len(r2.content)
    <3>1. h = Lesser(u, l) /\ h < l
      BY <1>7, <2>2
    <3> HIDE DEF h, u, l
    <3> QED BY <1>7, <3>1 DEF Lesser
  <2> QED BY <2>2, <2>3 DEF Prefix
<1> HIDE DEF q2
<1>11. \A j \in 1..Len(q2) : q2[j].kind = "SF" =>
          \A y \in Msg : Sf(n, q2[j], y) => Before(S, x, y)
  BY <1>6 DEF QueueFollows
<1>12. \A j, h \in 1..Len(q2) : j < h /\ q2[j].kind = "CF" /\ q2[h].kind = "CF" =>
          \A z, v \in Nat : Cf(n, q2[j], x, z) /\ Cf(n, q2[h], x, v) => z < v
  BY <1>6 DEF QueueFollows
<1>13. Progress(n, S, m, t, k, q2, g, r2, D, x, e, no)
  BY <1>1, <1>5, <1>8, <1>9, <1>10, <1>11, <1>12 DEF Progress
<1> QED BY <1>13 DEF q2

(* Inside a block, the receiver goes on.                                   *)
LEMMA LinkContinues ==
    ASSUME NEW n \in Node, NEW S, NEW m, NEW t, NEW q, NEW g, NEW r, NEW D, NEW k \in Nat,
           LinkAt(n, S, m, t, q, g, r, D, k), QueueFits(q),
           NEW i \in 1..Len(q), NEW x \in Msg, NEW e \in Nat, NEW no \in Nat,
           ComesNext(n, S, m, t, q, g, r, D, k, i, x, e, no),
           NEW r2, More(r, r2, q[i].data, x),
           r.block_size > 0 => /\ r.block_remaining > 1
                               /\ r2.block_remaining = r.block_remaining - 1
    PROVE  LinkAt(n, S, m, t, After(q, i), g, r2, D, k)
<1> DEFINE q2 == After(q, i)
<1>1. r.block_size \in Nat /\ (r.block_size > 0 => r.block_remaining \in 1..r.block_size)
  <2>1. Peer[n] \in Node
    BY NodeAssumption
  <2> QED BY <2>1, CfgNumbers DEF ComesNext, Opened, OpenFor
<1>2. r2.block_size = r.block_size /\ r2.state = "Receiving"
  BY DEF More
<1>20. r2.block_size > 0 => r2.block_remaining \in 1..r2.block_size
  <2> SUFFICES ASSUME r2.block_size > 0 PROVE r2.block_remaining \in 1..r2.block_size
    OBVIOUS
  <2> DEFINE u == r.block_remaining
             v == r2.block_remaining
             b == r.block_size
  <2>1. u \in 1..b /\ u > 1 /\ v = u - 1 /\ b \in Nat
    BY <1>1, <1>2
  <2> HIDE DEF u, v, b
  <2>2. v \in 1..b
    BY <2>1
  <2> QED BY <1>2, <2>2 DEF v, b
<1>21. Progress(n, S, m, t, k, q2, g, r2, D, x, e, no)
  BY <1>20, MoreHeard
<1>3. /\ Story(S, m, D) /\ SessionOf(n, m, t, k) /\ AnswersAre(n, t, g)
      /\ SinglesAre(n, S, m, q2, D) /\ FirstIs(n, m, t, k, q2, g)
      /\ OpenFor(n, S, m, t, r2, D, x, e + 1)
      /\ \A j \in 1..Len(q2) : q2[j].kind = "SF" =>
            \A y \in Msg : Sf(n, q2[j], y) => Before(S, x, y)
      /\ \A j, h \in 1..Len(q2) : j < h /\ q2[j].kind = "CF" /\ q2[h].kind = "CF" =>
            \A u, v \in Nat : Cf(n, q2[j], x, u) /\ Cf(n, q2[h], x, v) => u < v
      /\ e <= no /\ (m = x => no < k) /\ (e = no => r2.content = Prefix(n, x, e + 1))
  BY <1>21 DEF Progress
<1>4. /\ \A j \in 1..Len(q2) : q2[j].kind = "CF" =>
            \E v \in Nat : /\ Cf(n, q2[j], x, v) /\ no < v
                           /\ Continues(n, m, t, k, q2, g, r, x, e, v)
      /\ SenderFollows(n, m, t, k, g, r, x, e)
  BY DEF ComesNext, Opened
<1> HIDE DEF q2
<1>5. ASSUME NEW v \in Nat, no < v, Continues(n, m, t, k, q2, g, r, x, e, v)
      PROVE  Continues(n, m, t, k, q2, g, r2, x, e + 1, v)
  <2>1. e + 1 <= v /\ (r2.content = Prefix(n, x, e + 1) \/ e + 1 < v)
    <3>1. CASE e = no
      BY <1>3, <1>5, <3>1
    <3>2. CASE e # no
      BY <1>3, <1>5, <3>2
    <3> QED BY <3>1, <3>2
  <2>2. m = x => v < k
    BY <1>5 DEF Continues
  <2>3. ASSUME r2.block_size > 0
        PROVE  \/ v + 1 < (e + 1) + r2.block_remaining
               \/ v + 1 = (e + 1) + r2.block_remaining /\ EndsBlock(n, m, t, k, q2, g, x, v)
    <3>1. /\ r.block_remaining \in Int /\ r2.block_remaining = r.block_remaining - 1
          /\ r.block_size > 0
      BY <1>1, <1>2, <2>3
    <3>2. (e + 1) + r2.block_remaining = e + r.block_remaining
      <4> DEFINE u == r.block_remaining
                 w == r2.block_remaining
      <4>1. u \in Int /\ w = u - 1
        BY <3>1
      <4> HIDE DEF u, w
      <4>2. (e + 1) + w = e + u
        BY <4>1
      <4> QED BY <4>2 DEF u, w
    <3>3. \/ v + 1 < e + r.block_remaining
          \/ v + 1 = e + r.block_remaining /\ EndsBlock(n, m, t, k, q2, g, x, v)
      BY <1>5, <3>1 DEF Continues
    <3> QED BY <3>2, <3>3
  <2> QED BY <2>1, <2>2, <2>3 DEF Continues
<1>6. QueueFollows(n, S, m, t, k, q2, g, r2, x, e + 1)
  <2>1. \A j \in 1..Len(q2) : q2[j].kind = "CF" =>
           \E v \in Nat : Cf(n, q2[j], x, v) /\ Continues(n, m, t, k, q2, g, r2, x, e + 1, v)
    BY <1>4, <1>5
  <2> QED BY <1>3, <2>1 DEF QueueFollows
<1>7. SenderFollows(n, m, t, k, g, r2, x, e + 1)
  <2>1. ASSUME t.state = "Sending"
        PROVE  /\ m = x /\ e + 1 <= k
               /\ r2.content = Prefix(n, x, e + 1) \/ e + 1 < k
               /\ r2.block_size > 0 =>
                     /\ t.session.block_size = r2.block_size
                     /\ t.session.block_remaining > 0
                     /\ r2.block_remaining + (e + 1) = t.session.block_remaining + k
    <3>1. m = x /\ no < k
      BY <1>3, <1>4, <2>1 DEF SenderFollows
    <3>2. e + 1 <= k /\ (r2.content = Prefix(n, x, e + 1) \/ e + 1 < k)
      <4>1. CASE e = no
        BY <1>3, <3>1, <4>1
      <4>2. CASE e # no
        BY <1>3, <3>1, <4>2
      <4> QED BY <4>1, <4>2
    <3>3. ASSUME r2.block_size > 0
          PROVE  /\ t.session.block_size = r2.block_size
                 /\ t.session.block_remaining > 0
                 /\ r2.block_remaining + (e + 1) = t.session.block_remaining + k
      <4>1. /\ t.session.block_size = r.block_size /\ t.session.block_remaining > 0
            /\ r.block_remaining + e = t.session.block_remaining + k
            /\ r.block_remaining \in Int /\ r2.block_remaining = r.block_remaining - 1
        BY <1>1, <1>2, <1>4, <2>1, <3>3 DEF SenderFollows
      <4>2. r2.block_remaining + (e + 1) = r.block_remaining + e
        <5> DEFINE u == r.block_remaining
                   w == r2.block_remaining
        <5>1. u \in Int /\ w = u - 1
          BY <4>1
        <5> HIDE DEF u, w
        <5>2. w + (e + 1) = u + e
          BY <5>1
        <5> QED BY <5>2 DEF u, w
      <4> QED BY <1>2, <4>1, <4>2
    <3> QED BY <3>1, <3>2, <3>3
  <2>2. NoGrant(g)
    <3> SUFFICES ASSUME ~NoGrant(g) PROVE FALSE
      OBVIOUS
    <3>1. m = x /\ e = k
      BY <1>4 DEF SenderFollows
    <3> QED BY <1>3, <3>1
  <2> QED BY <2>1, <2>2 DEF SenderFollows
<1>8. Opened(n, S, m, t, q2, g, r2, D, k, x, e + 1)
  BY <1>3, <1>6, <1>7 DEF Opened
<1>9. e + 1 \in Nat
  OBVIOUS
<1>10. LinkAt(n, S, m, t, q2, g, r2, D, k)
  BY <1>2, <1>3, <1>8, <1>9 DEF LinkAt
<1> QED BY <1>10 DEF q2

(* At the end of a block, the sender waits and the receiver asks for more. *)
LEMMA LinkAsks ==
    ASSUME NEW n \in Node, NEW S, NEW m, NEW t, NEW q, NEW g, NEW r, NEW D, NEW k \in Nat,
           LinkAt(n, S, m, t, q, g, r, D, k), QueueFits(q),
           NEW i \in 1..Len(q), NEW x \in Msg, NEW e \in Nat, NEW no \in Nat,
           ComesNext(n, S, m, t, q, g, r, D, k, i, x, e, no),
           NEW r2, More(r, r2, q[i].data, x),
           r2.block_remaining = r.block_size,
           r.block_size > 0, r.block_remaining <= 1
    PROVE  /\ LinkAt(n, S, m, t, After(q, i), g, r2, D, k)
           /\ Asks(n, S, m, t, After(q, i), g, r2, D, k)
<1> DEFINE q2 == After(q, i)
<1>1. r.block_size \in Nat /\ r.block_remaining = 1
  <2>1. Peer[n] \in Node
    BY NodeAssumption
  <2>2. r.block_size = Cfg[Peer[n]].block_size /\ r.block_remaining \in 1..r.block_size
    BY DEF ComesNext, Opened, OpenFor
  <2> QED BY <2>1, <2>2, CfgNumbers
<1>2. r2.block_size = r.block_size /\ r2.state = "Receiving"
  BY DEF More
<1>20. r2.block_size > 0 => r2.block_remaining \in 1..r2.block_size
  BY <1>1, <1>2
<1>21. Progress(n, S, m, t, k, q2, g, r2, D, x, e, no)
  BY <1>20, MoreHeard
<1>3. /\ Story(S, m, D) /\ SessionOf(n, m, t, k) /\ AnswersAre(n, t, g)
      /\ SinglesAre(n, S, m, q2, D) /\ FirstIs(n, m, t, k, q2, g)
      /\ OpenFor(n, S, m, t, r2, D, x, e + 1)
      /\ \A j \in 1..Len(q2) : q2[j].kind = "SF" =>
            \A y \in Msg : Sf(n, q2[j], y) => Before(S, x, y)
      /\ \A j, h \in 1..Len(q2) : j < h /\ q2[j].kind = "CF" /\ q2[h].kind = "CF" =>
            \A u, v \in Nat : Cf(n, q2[j], x, u) /\ Cf(n, q2[h], x, v) => u < v
      /\ e <= no /\ (m = x => no < k) /\ (e = no => r2.content = Prefix(n, x, e + 1))
  BY <1>21 DEF Progress
<1>4. /\ \A j \in 1..Len(q2) : q2[j].kind = "CF" =>
            \E v \in Nat : /\ Cf(n, q2[j], x, v) /\ no < v
                           /\ Continues(n, m, t, k, q2, g, r, x, e, v)
      /\ Continues(n, m, t, k, q, g, r, x, e, no)
      /\ Heard(n, x, e, no, r.content, r2.content)
  BY DEF ComesNext, More
<1>5. e = no /\ EndsBlock(n, m, t, k, q, g, x, no)
  <2>1. \/ no + 1 < e + r.block_remaining
        \/ no + 1 = e + r.block_remaining /\ EndsBlock(n, m, t, k, q, g, x, no)
    BY <1>4 DEF Continues
  <2> QED BY <1>1, <1>3, <2>1
<1>6. Waits(t) /\ m = x /\ k = e + 1 /\ NoFc(g) /\ NoFf(q)
  <2> DEFINE u == At(n, e + 1)
             l == Length[x]
             h == Len(r2.content)
  <2>1. u \in Nat /\ l \in Nat /\ h \in Nat /\ h < l
    <3>1. e + 1 \in Nat
      OBVIOUS
    <3> QED BY <1>4, <3>1, Steps, PayloadByte DEF Heard, More
  <2>2. h = Lesser(u, l)
    <3>1. r.content = Prefix(n, x, e)
      BY <1>4, <1>5 DEF Continues
    <3> QED BY <1>4, <1>5, <3>1 DEF Heard
  <2> HIDE DEF u, l, h
  <2>3. ~(u >= l)
    BY <2>1, <2>2 DEF Lesser
  <2> QED BY <1>5, <2>3 DEF EndsBlock, u, l
<1>7. NoFf(q2)
  <2>1. Within(q2, q, DataKinds)
    BY Behind
  <2> QED BY <1>6, <2>1, NonesKept
<1> HIDE DEF q2
<1>8. NoCf(q2)
  <2> SUFFICES ASSUME NEW j \in 1..Len(q2), q2[j].kind = "CF" PROVE FALSE
    BY DEF NoCf
  <2>1. PICK v \in Nat : no < v /\ Continues(n, m, t, k, q2, g, r, x, e, v)
    BY <1>4
  <2>2. v < k
    BY <1>6, <2>1 DEF Continues
  <2> QED BY <1>5, <1>6, <2>1, <2>2
<1>9. QueueFollows(n, S, m, t, k, q2, g, r2, x, k)
  BY <1>3, <1>8 DEF QueueFollows, NoCf
<1>10. SenderFollows(n, m, t, k, g, r2, x, k)
  BY <1>6 DEF SenderFollows, Waits, NoFc, NoGrant
<1>11. Opened(n, S, m, t, q2, g, r2, D, k, x, k)
  BY <1>3, <1>6, <1>9, <1>10 DEF Opened
<1>12. Asks(n, S, m, t, q2, g, r2, D, k)
  BY <1>1, <1>2, <1>3, <1>5, <1>6, <1>7, <1>8, <1>11 DEF Asks
<1>13. LinkAt(n, S, m, t, q2, g, r2, D, k)
  BY <1>2, <1>3, <1>11 DEF LinkAt
<1> QED BY <1>12, <1>13 DEF q2

(* The receiver has taken frame i and ended with r: the call sends nothing, *)
(* an Overflow or a grant that may get lost, or delivers.                  *)
Answered(n, S, m, t, q, g, r, D, k, i, out) ==
    /\ out \in {"None", "BadSequence", "Overflow", "SendFlowControl", "Completed"}
    /\ out # "Completed" => LinkAt(n, S, m, t, After(q, i), g, r, D, k)
    /\ out = "Overflow" => \A f : f.kind = "FC" /\ f.status = "Overflow" =>
          LinkAt(n, S, m, t, After(q, i), Append(g, f), r, D, k)
    /\ out = "SendFlowControl" => \A f :
          f.kind = "FC" /\ f.status = "ClearToSend" /\ f.block_size = r.block_size =>
          LinkAt(n, S, m, t, After(q, i), Append(g, f), r, D, k)
    /\ out = "Completed" => /\ LinkAt(n, S, m, t, After(q, i), g, r, Append(D, r.content), k)
                            /\ IsNext(S, D, r.content)

(* A frame the receiver refuses: it stays as it is.                        *)
LEMMA RefusedAnswered ==
    ASSUME NonEmpty, NEW n \in Node, NEW S, NEW m, NEW t, NEW q, NEW g, NEW r, NEW D, NEW k \in Nat,
           LinkAt(n, S, m, t, q, g, r, D, k), r.state = "Idle", QueueFits(q), QueueFits(g),
           NEW i \in 1..Len(q),
           \/ q[i].kind = "SF" /\ Len(q[i].data) > Room(Cfg[Peer[n]])
           \/ q[i].kind = "FF"
    PROVE  Answered(n, S, m, t, q, g, r, D, k, i, "Overflow")
<1> DEFINE q2 == After(q, i)
<1>1. Fitting(n) => Waits(t) /\ NoFc(g) /\ NoFf(q2)
  BY RefusedWaits
<1>2. Within(q2, q, DataKinds) /\ Within(g, g, {"FC"})
  BY Behind, WithinSelf
<1> HIDE DEF q2
<1>3. LinkAt(n, S, m, t, q2, g, r, D, k)
  BY <1>2, SameLink
<1>4. \A f : f.kind = "FC" /\ f.status = "Overflow" =>
          LinkAt(n, S, m, t, q2, Append(g, f), r, D, k)
  BY <1>1, <1>3, LinkRefused
<1> QED BY <1>3, <1>4 DEF Answered, q2

(* What a receiver that asks sends lets its sender go on.                  *)
LEMMA AsksAnswered ==
    ASSUME NEW n \in Node, NEW S, NEW m, NEW t, NEW q, NEW g, NEW r, NEW D, NEW k \in Nat,
           NEW i, LinkAt(n, S, m, t, After(q, i), g, r, D, k),
           Asks(n, S, m, t, After(q, i), g, r, D, k), r.state = "Receiving", QueueFits(g)
    PROVE  Answered(n, S, m, t, q, g, r, D, k, i, "SendFlowControl")
<1> DEFINE q2 == After(q, i)
<1>1. r.block_size = Cfg[Peer[n]].block_size
  BY DEF Asks, Opened, OpenFor
<1>2. \A f : f.kind = "FC" /\ f.status = "ClearToSend" /\ f.block_size = r.block_size =>
          LinkAt(n, S, m, t, q2, Append(g, f), r, D, k)
  BY <1>1, LinkGranted
<1> QED BY <1>2 DEF Answered

(* handle_single.                                                          *)
LEMMA SingleAnswered ==
    ASSUME NonEmpty, NEW n \in Node, NEW S, NEW m, NEW t, NEW q, NEW g, NEW r, NEW D, NEW k \in Nat,
           LinkAt(n, S, m, t, q, g, r, D, k), RxFits(r), QueueFits(q), QueueFits(g),
           NEW i \in 1..Len(q), q[i].kind = "SF",
           NEW u, u = handle_single(Cfg[Peer[n]], r, q[i]), u.out # "UnexpectedPdu"
    PROVE  Answered(n, S, m, t, q, g, u.rx, D, k, i, u.out)
<1>1. r.state = "Idle"
  BY DEF handle_single, Returns
<1>2. CASE Len(q[i].data) > Room(Cfg[Peer[n]])
  <2>1. u.rx = r /\ u.out = "Overflow"
    BY <1>1, <1>2 DEF handle_single, Returns
  <2>2. Answered(n, S, m, t, q, g, r, D, k, i, "Overflow")
    BY <1>1, <1>2, RefusedAnswered
  <2> QED BY <2>1, <2>2
<1>3. CASE ~(Len(q[i].data) > Room(Cfg[Peer[n]]))
  <2> DEFINE r2 == [r EXCEPT !.content = q[i].data]
  <2>1. u.rx = r2 /\ u.out = "Completed"
    BY <1>1, <1>3 DEF handle_single, Returns
  <2>2. r2.state = "Idle" /\ r2.content = q[i].data
    BY <1>1 DEF RxFits, RxFields
  <2> HIDE DEF r2
  <2>3. /\ LinkAt(n, S, m, t, After(q, i), g, r2, Append(D, q[i].data), k)
        /\ IsNext(S, D, q[i].data)
    BY <1>1, <2>2, LinkSingleHeard
  <2>4. Answered(n, S, m, t, q, g, r2, D, k, i, "Completed")
    BY <2>2, <2>3 DEF Answered
  <2> QED BY <2>1, <2>4
<1> QED BY <1>2, <1>3

(* handle_first.                                                           *)
LEMMA FirstAnswered ==
    ASSUME NonEmpty, NEW n \in Node, NEW S, NEW m, NEW t, NEW q, NEW g, NEW r, NEW D, NEW k \in Nat,
           LinkAt(n, S, m, t, q, g, r, D, k), QueueFits(q), QueueFits(g),
           NEW i \in 1..Len(q), q[i].kind = "FF",
           NEW u, u = handle_first(Cfg[Peer[n]], r, q[i]), u.out # "UnexpectedPdu"
    PROVE  Answered(n, S, m, t, q, g, u.rx, D, k, i, u.out)
<1>1. r.state = "Idle"
  BY DEF handle_first, Returns
<1>2. CASE q[i].len > Room(Cfg[Peer[n]])
  <2>1. u.rx = r /\ u.out = "Overflow"
    BY <1>1, <1>2 DEF handle_first, Returns
  <2>2. Answered(n, S, m, t, q, g, r, D, k, i, "Overflow")
    BY <1>1, RefusedAnswered
  <2> QED BY <2>1, <2>2
<1>3. CASE ~(q[i].len > Room(Cfg[Peer[n]]))
  <2> DEFINE c == Cfg[Peer[n]]
             r2 == u.rx
  <2>1. u.out = "SendFlowControl" /\ r2.state = "Receiving" /\ r2.expected_len = q[i].len
        /\ r2.content = SubSeq(q[i].data, 1, Lesser(Len(q[i].data), q[i].len))
        /\ r2.block_size = c.block_size /\ r2.block_remaining = r2.block_size
    BY <1>1, <1>3 DEF handle_first, Returns
  <2>2. q[i].len <= Room(c)
    <3>1. q[i].len \in Int
      <4>1. Len(q) \in Nat /\ i \in 0..Len(q) /\ i # 0
        BY RestAt
      <4>2. FrameFits(q[i])
        BY <4>1, QueueKept
      <4> QED BY <4>2 DEF FrameFits
    <3>2. Room(c) \in Int
      <4>1. Peer[n] \in Node
        BY NodeAssumption
      <4>2. c.max_payload_len \in Nat /\ ValidConfig(c)
        BY <4>1, CfgAssumption DEF ValidConfig
      <4> QED BY <4>2 DEF Room, Lesser, ValidConfig
    <3> QED BY <1>3, <3>1, <3>2
  <2> HIDE DEF r2
  <2>3. /\ LinkAt(n, S, m, t, After(q, i), g, r2, D, k)
        /\ Asks(n, S, m, t, After(q, i), g, r2, D, k)
    BY <1>1, <2>1, <2>2, LinkFirstHeard
  <2>4. Answered(n, S, m, t, q, g, r2, D, k, i, "SendFlowControl")
    BY <2>1, <2>3, AsksAnswered
  <2> QED BY <2>1, <2>4 DEF r2
<1> QED BY <1>2, <1>3

(* handle_consecutive.                                                     *)
LEMMA ConsecutiveAnswered ==
    ASSUME NonEmpty, NEW n \in Node, NEW S, NEW m, NEW t, NEW q, NEW g, NEW r, NEW D, NEW k \in Nat,
           LinkAt(n, S, m, t, q, g, r, D, k), RxFits(r), TxFits(t), QueueFits(q), QueueFits(g),
           NEW i \in 1..Len(q), q[i].kind = "CF",
           NEW u, u = handle_consecutive(Cfg[Peer[n]], r, q[i]), u.out # "UnexpectedPdu"
    PROVE  Answered(n, S, m, t, q, g, u.rx, D, k, i, u.out)
<1> DEFINE c == Cfg[Peer[n]]
           e2 == Extended(r, q[i].data)
           all == r.content \o Chunk(r, q[i].data)
<1>1. r.state = "Receiving" /\ r.content \in Seq(Byte) /\ DOMAIN r = RxFields
  BY DEF handle_consecutive, Returns, RxFits
<1>2. PICK x \in Msg, e \in Nat, no \in Nat : ComesNext(n, S, m, t, q, g, r, D, k, i, x, e, no)
  BY <1>1, NextHeard
<1>3. /\ OpenFor(n, S, m, t, r, D, x, e) /\ r.expected_len = Length[x] /\ Len(r.content) < Length[x]
      /\ Heard(n, x, e, no, r.content, all)
  BY <1>2 DEF ComesNext, Opened
<1>4. /\ e2.state = "Receiving" /\ e2.content = all /\ e2.expected_len = r.expected_len
      /\ e2.block_size = r.block_size /\ e2.block_remaining = r.block_remaining
      /\ DOMAIN e2 = RxFields
  BY <1>1 DEF Extended, RxFields
<1>5. Length[x] \in Nat /\ Len(all) \in Nat /\ Len(r.content) \in Nat
  <2>1. Length[x] \in Nat
    BY PayloadByte
  <2>2. Len(all) \in Nat
    BY <1>3 DEF Heard
  <2>3. Len(r.content) \in Nat
    BY <1>1
  <2> QED BY <2>1, <2>2, <2>3
<1>6. ~(Len(r.content) >= r.expected_len) /\ ~(Len(all) > c.capacity)
  <2> DEFINE l == Length[x]
             h == Len(all)
             v == Room(c)
             w == c.capacity
             z == Len(r.content)
  <2>1. h \in Nat /\ l \in Nat /\ z \in Nat /\ h <= l /\ l <= v /\ z < l /\ r.expected_len = l
    BY <1>3, <1>5 DEF Heard, OpenFor
  <2>2. v \in Nat /\ w \in Nat /\ v <= w
    <3>1. Peer[n] \in Node
      BY NodeAssumption
    <3>2. c.max_payload_len \in Nat /\ c.capacity \in Nat
      BY <3>1, CfgAssumption DEF ValidConfig
    <3> QED BY <3>2 DEF Room, Lesser
  <2>3. l = Length[x] /\ z = Len(r.content) /\ h = Len(all) /\ w = c.capacity
    OBVIOUS
  <2> HIDE DEF l, h, v, w, z
  <2>4. ~(z >= l) /\ ~(h > w)
    BY <2>1, <2>2
  <2>5. r.expected_len = l
    BY <2>1
  <2> QED BY <2>3, <2>4, <2>5
<1> HIDE DEF e2, all, c
<1>7. CASE q[i].sn # r.next_sn
  <2>1. u.rx = r /\ u.out = "BadSequence"
    BY <1>1, <1>7 DEF handle_consecutive, Returns
  <2>2. Within(After(q, i), q, DataKinds) /\ Within(g, g, {"FC"})
    BY Behind, WithinSelf
  <2>3. LinkAt(n, S, m, t, After(q, i), g, r, D, k)
    BY <2>2, SameLink
  <2>4. Answered(n, S, m, t, q, g, r, D, k, i, "BadSequence")
    BY <2>3 DEF Answered
  <2> QED BY <2>1, <2>4
<1>8. CASE q[i].sn = r.next_sn
  <2>1. u = AfterChunk(e2)
    BY <1>1, <1>6, <1>8 DEF handle_consecutive, c, e2, all
  <2>2. CASE Len(all) >= r.expected_len
    <3> DEFINE r2 == [e2 EXCEPT !.state = "Idle"]
    <3>1. u.rx = r2 /\ u.out = "Completed"
      BY <1>4, <2>1, <2>2 DEF AfterChunk, Returns
    <3>2. r2.state = "Idle" /\ r2.content = all
      BY <1>4 DEF RxFields
    <3> HIDE DEF r2
    <3>3. Len(all) >= Length[x]
      BY <1>3, <2>2
    <3>4. LinkAt(n, S, m, t, After(q, i), g, r2, Append(D, all), k) /\ IsNext(S, D, all)
      BY <1>2, <3>2, <3>3, LinkCompleted DEF all
    <3>5. Answered(n, S, m, t, q, g, r2, D, k, i, "Completed")
      BY <3>2, <3>4 DEF Answered
    <3> QED BY <3>1, <3>5
  <2>3. CASE ~(Len(all) >= r.expected_len)
    <3>1. Len(all) < Length[x]
      BY <1>3, <1>5, <2>3
    <3>2. \A z : /\ z.state = "Receiving" /\ z.content = all
                 /\ z.expected_len = r.expected_len /\ z.block_size = r.block_size
                 => More(r, z, q[i].data, x)
      BY <3>1 DEF More, all
    <3> DEFINE left == Saturating(e2.block_remaining, 1)
               bl == e2.block_size
    <3>3. u = IF e2.block_size = 0 THEN Returns(e2, "None")
              ELSE IF left = 0 THEN Returns(Reloaded(e2), "SendFlowControl")
              ELSE Returns([e2 EXCEPT !.block_remaining = left], "None")
      BY <1>4, <2>1, <2>3 DEF AfterChunk
    <3>4. r.block_size \in Nat /\ (r.block_size > 0 => r.block_remaining \in 1..r.block_size)
      <4>1. Peer[n] \in Node
        BY NodeAssumption
      <4> QED BY <1>3, <4>1, CfgNumbers DEF OpenFor
    <3>5. CASE r.block_size = 0
      <4>1. u.rx = e2 /\ u.out = "None"
        BY <1>4, <3>3, <3>5 DEF Returns
      <4>2. More(r, e2, q[i].data, x)
        BY <1>4, <3>2
      <4>3. LinkAt(n, S, m, t, After(q, i), g, e2, D, k)
        BY <1>2, <3>5, <4>2, LinkContinues
      <4>4. Answered(n, S, m, t, q, g, e2, D, k, i, "None")
        BY <4>3 DEF Answered
      <4> QED BY <4>1, <4>4
    <3>6. CASE r.block_size # 0 /\ r.block_remaining <= 1
      <4> DEFINE r2 == Reloaded(e2)
      <4>1. u.rx = r2 /\ u.out = "SendFlowControl"
        BY <1>4, <3>3, <3>6 DEF Returns, Saturating
      <4>2. /\ r2.state = "Receiving" /\ r2.content = all /\ r2.expected_len = r.expected_len
            /\ r2.block_size = r.block_size /\ r2.block_remaining = r.block_size
        BY <1>4 DEF Reloaded, RxFields
      <4> HIDE DEF r2
      <4>3. More(r, r2, q[i].data, x) /\ r.block_size > 0
        BY <3>2, <3>4, <3>6, <4>2
      <4>4. /\ LinkAt(n, S, m, t, After(q, i), g, r2, D, k)
            /\ Asks(n, S, m, t, After(q, i), g, r2, D, k)
        BY <1>2, <3>6, <4>2, <4>3, LinkAsks
      <4>5. Answered(n, S, m, t, q, g, r2, D, k, i, "SendFlowControl")
        BY <4>2, <4>4, AsksAnswered
      <4> QED BY <4>1, <4>5
    <3>7. CASE r.block_size # 0 /\ ~(r.block_remaining <= 1)
      <4> DEFINE r2 == [e2 EXCEPT !.block_remaining = left]
      <4>1. r.block_size > 0 /\ r.block_remaining \in Int /\ r.block_remaining > 1
        BY <3>4, <3>7
      <4>2. left = r.block_remaining - 1 /\ left # 0
        BY <1>4, <3>7, <4>1 DEF Saturating
      <4> HIDE DEF left
      <4>3. u.rx = r2 /\ u.out = "None"
        BY <1>4, <3>3, <3>7, <4>2 DEF Returns
      <4>4. /\ r2.state = "Receiving" /\ r2.content = all /\ r2.expected_len = r.expected_len
            /\ r2.block_size = r.block_size /\ r2.block_remaining = left
        BY <1>4 DEF RxFields
      <4> HIDE DEF r2
      <4>5. More(r, r2, q[i].data, x)
        BY <3>2, <4>4
      <4>6. LinkAt(n, S, m, t, After(q, i), g, r2, D, k)
        BY <1>2, <4>1, <4>2, <4>4, <4>5, LinkContinues
      <4>7. Answered(n, S, m, t, q, g, r2, D, k, i, "None")
        BY <4>6 DEF Answered
      <4> QED BY <4>3, <4>7
    <3> QED BY <3>5, <3>6, <3>7
  <2> QED BY <2>2, <2>3
<1> QED BY <1>7, <1>8

(* on_pdu.                                                                 *)
LEMMA PduAnswered ==
    ASSUME NonEmpty, NEW n \in Node, NEW S, NEW m, NEW t, NEW q, NEW g, NEW r, NEW D, NEW k \in Nat,
           LinkAt(n, S, m, t, q, g, r, D, k), RxFits(r), TxFits(t), QueueFits(q), QueueFits(g),
           NEW i \in 1..Len(q), q[i].kind \in DataKinds,
           NEW u, u = on_pdu(Cfg[Peer[n]], r, q[i]), u.out # "UnexpectedPdu"
    PROVE  Answered(n, S, m, t, q, g, u.rx, D, k, i, u.out)
<1>1. CASE q[i].kind = "SF"
  <2>1. u = handle_single(Cfg[Peer[n]], r, q[i])
    BY <1>1 DEF on_pdu
  <2> QED BY <1>1, <2>1, SingleAnswered
<1>2. CASE q[i].kind = "FF"
  <2>1. u = handle_first(Cfg[Peer[n]], r, q[i])
    BY <1>2 DEF on_pdu
  <2> QED BY <1>2, <2>1, FirstAnswered
<1>3. CASE q[i].kind = "CF"
  <2>1. u = handle_consecutive(Cfg[Peer[n]], r, q[i])
    BY <1>3 DEF on_pdu
  <2> QED BY <1>3, <2>1, ConsecutiveAnswered
<1> QED BY <1>1, <1>2, <1>3 DEF DataKinds

-----------------------------------------------------------------------------
(* Both directions of a link. *)

(* The link is as its users expect it: nobody gives a send up from outside, *)
(* endpoints empty their queues within N_Bs and while they send (or only   *)
(* one of them sends), what gets past the filters decodes, and there are   *)
(* no empty messages.                                                      *)
Orderly ==
    /\ Prompt /\ ~MayTimeOut
    /\ Superloop \/ \A x, y \in Msg : Source[x] = Source[y]
    /\ \A f \in Noise : f.kind = "Foreign"
    /\ \A n \in Node : Cfg[n].n_bs > 0
    /\ NonEmpty

(* From n to its peer. *)
OneWay(n) ==
    Link(n, submitted[n], app[n], tx[n], inbox[Peer[n]], inbox[n],
         rx[Peer[n]], delivered[Peer[n]])

LinkInv ==
    /\ DOMAIN submitted = Node /\ DOMAIN delivered = Node
    /\ \A n \in Node : CleanQueue(inbox[n]) /\ OneWay(n)

(* They may be any.                                                        *)
LEMMA ThinnedQueues ==
    ASSUME NEW q, QueueFits(q)
    PROVE  /\ Thinned(q, q) /\ Thinned(<<>>, q)
           /\ \A i \in 0..Len(q) : Thinned(After(q, i), q)
           /\ \A i \in 1..Len(q) : Thinned(RemoveAt(q, i), q)
<1> SUFFICES ASSUME NEW K
             PROVE  /\ Within(q, q, K) /\ Within(<<>>, q, K)
                    /\ \A i \in 0..Len(q) : Within(After(q, i), q, K)
                    /\ \A i \in 1..Len(q) : Within(RemoveAt(q, i), q, K)
  BY DEF Thinned
<1> QED BY Withins

(* A clean frame goes behind.                                              *)
LEMMA CleanAppend ==
    ASSUME NEW q, QueueFits(q), CleanQueue(q), NEW f, f.kind \in DataKinds \cup {"FC", "Foreign"}
    PROVE  CleanQueue(Append(q, f))
<1>1. /\ \A i \in 1..Len(q) : Append(q, f)[i] = q[i]
      /\ Append(q, f)[Len(q) + 1] = f
      /\ \A i \in 1..Len(Append(q, f)) : i \in 1..Len(q) \/ i = Len(q) + 1
  BY AppendAt
<1> QED BY <1>1 DEF CleanQueue

(* Frames of no interest may come, others may go.                          *)
LEMMA LinkWithin ==
    ASSUME NEW n \in Node, NEW S, NEW m, NEW t, NEW q, NEW g, NEW r, NEW D,
           Link(n, S, m, t, q, g, r, D), NEW q2, Within(q2, q, DataKinds),
           NEW g2, Within(g2, g, {"FC"})
    PROVE  Link(n, S, m, t, q2, g2, r, D)
BY SameLink DEF Link

(* The peer of the peer.                                                   *)
LEMMA Pairs ==
    ASSUME NEW n \in Node
    PROVE  /\ Peer[n] \in Node /\ Peer[n] # n /\ Peer[Peer[n]] = n
           /\ \A k \in Node : k # n /\ k # Peer[n] => Peer[k] # n /\ Peer[k] # Peer[n]
BY NodeAssumption

(* An endpoint sends: it consumes frames and may add one with data.        *)
LEMMA LinkSends ==
    ASSUME IInv, LinkInv, NEW a \in Node,
           UNCHANGED <<rx, delivered>>, DOMAIN submitted' = Node,
           \A n \in Node : n # a => /\ submitted'[n] = submitted[n]
                                    /\ app'[n] = app[n] /\ tx'[n] = tx[n],
           \A n \in Node : n # a /\ n # Peer[a] => inbox'[n] = inbox[n],
           Thinned(inbox'[a], inbox[a]),
           \/ inbox'[Peer[a]] = inbox[Peer[a]]
           \/ \E f : f.kind \in DataKinds /\ inbox'[Peer[a]] = Append(inbox[Peer[a]], f),
           Link(a, submitted'[a], app'[a], tx'[a], inbox'[Peer[a]], inbox'[a],
                rx[Peer[a]], delivered[Peer[a]])
    PROVE  LinkInv'
<1> DEFINE p == Peer[a]
<1>1. p \in Node /\ p # a /\ Peer[p] = a
  BY Pairs
<1>2. QueueFits(inbox[a]) /\ QueueFits(inbox[p]) /\ CleanQueue(inbox[a]) /\ CleanQueue(inbox[p])
  BY <1>1 DEF IInv, QueuesFit, LinkInv
<1>3. Within(inbox'[p], inbox[p], {"FC"}) /\ CleanQueue(inbox'[p])
  <2>1. CASE inbox'[p] = inbox[p]
    BY <1>2, <2>1, WithinSelf
  <2>2. ASSUME NEW f, f.kind \in DataKinds, inbox'[p] = Append(inbox[p], f)
        PROVE  Within(inbox'[p], inbox[p], {"FC"}) /\ CleanQueue(inbox'[p])
    <3>1. f.kind \notin {"FC"}
      BY <2>2 DEF DataKinds
    <3> QED BY <1>2, <2>2, <3>1, Withins, CleanAppend
  <2> QED BY <2>1, <2>2
<1>4. Within(inbox'[a], inbox[a], DataKinds) /\ CleanQueue(inbox'[a])
  BY <1>2, CleanThinned DEF Thinned
<1>5. Link(p, submitted'[p], app'[p], tx'[p], inbox'[a], inbox'[p], rx'[a], delivered'[a])
  <2>1. Link(p, submitted[p], app[p], tx[p], inbox[a], inbox[p], rx[a], delivered[a])
    BY <1>1 DEF LinkInv, OneWay
  <2>2. Link(p, submitted[p], app[p], tx[p], inbox'[a], inbox'[p], rx[a], delivered[a])
    BY <1>1, <1>3, <1>4, <2>1, LinkWithin
  <2> QED BY <1>1, <2>2
<1>6. ASSUME NEW n \in Node, n # a, n # p
      PROVE  /\ CleanQueue(inbox'[n])
             /\ Link(n, submitted'[n], app'[n], tx'[n], inbox'[Peer[n]], inbox'[n],
                     rx'[Peer[n]], delivered'[Peer[n]])
  <2>1. Peer[n] \in Node /\ Peer[n] # a /\ Peer[n] # p
    BY <1>6, Pairs
  <2>2. CleanQueue(inbox[n]) /\ OneWay(n)
    BY DEF LinkInv
  <2> QED BY <1>6, <2>1, <2>2 DEF OneWay
<1>7. \A n \in Node :
         /\ CleanQueue(inbox'[n])
         /\ Link(n, submitted'[n], app'[n], tx'[n], inbox'[Peer[n]], inbox'[n],
                 rx'[Peer[n]], delivered'[Peer[n]])
  BY <1>1, <1>3, <1>4, <1>5, <1>6
<1>8. \A n \in Node : CleanQueue(inbox[n])' /\ OneWay(n)'
  BY <1>7 DEF CleanQueue, OneWay
<1> QED BY <1>8 DEF LinkInv

(* An endpoint receives: it consumes frames and may add a Flow Control.    *)
LEMMA LinkReceives ==
    ASSUME IInv, LinkInv, NEW a \in Node,
           UNCHANGED <<app, tx, submitted>>, DOMAIN delivered' = Node,
           \A n \in Node : n # a => rx'[n] = rx[n] /\ delivered'[n] = delivered[n],
           \A n \in Node : n # a /\ n # Peer[a] => inbox'[n] = inbox[n],
           Thinned(inbox'[a], inbox[a]),
           \/ inbox'[Peer[a]] = inbox[Peer[a]]
           \/ \E f : f.kind = "FC" /\ inbox'[Peer[a]] = Append(inbox[Peer[a]], f),
           Link(Peer[a], submitted[Peer[a]], app[Peer[a]], tx[Peer[a]], inbox'[a], inbox'[Peer[a]],
                rx'[a], delivered'[a])
    PROVE  LinkInv'
<1> DEFINE p == Peer[a]
<1>1. p \in Node /\ p # a /\ Peer[p] = a
  BY Pairs
<1>2. QueueFits(inbox[a]) /\ QueueFits(inbox[p]) /\ CleanQueue(inbox[a]) /\ CleanQueue(inbox[p])
  BY <1>1 DEF IInv, QueuesFit, LinkInv
<1>3. Within(inbox'[p], inbox[p], DataKinds) /\ CleanQueue(inbox'[p])
  <2>1. CASE inbox'[p] = inbox[p]
    BY <1>2, <2>1, WithinSelf
  <2>2. ASSUME NEW f, f.kind = "FC", inbox'[p] = Append(inbox[p], f)
        PROVE  Within(inbox'[p], inbox[p], DataKinds) /\ CleanQueue(inbox'[p])
    <3>1. f.kind \notin DataKinds
      BY <2>2 DEF DataKinds
    <3> QED BY <1>2, <2>2, <3>1, Withins, CleanAppend
  <2> QED BY <2>1, <2>2
<1>4. Within(inbox'[a], inbox[a], {"FC"}) /\ CleanQueue(inbox'[a])
  BY <1>2, CleanThinned DEF Thinned
<1>5. Link(a, submitted'[a], app'[a], tx'[a], inbox'[p], inbox'[a], rx'[p], delivered'[p])
  <2>1. Link(a, submitted[a], app[a], tx[a], inbox[p], inbox[a], rx[p], delivered[p])
    BY DEF LinkInv, OneWay
  <2>2. Link(a, submitted[a], app[a], tx[a], inbox'[p], inbox'[a], rx[p], delivered[p])
    BY <1>3, <1>4, <2>1, LinkWithin
  <2> QED BY <1>1, <2>2
<1>6. ASSUME NEW n \in Node, n # a, n # p
      PROVE  /\ CleanQueue(inbox'[n])
             /\ Link(n, submitted'[n], app'[n], tx'[n], inbox'[Peer[n]], inbox'[n],
                     rx'[Peer[n]], delivered'[Peer[n]])
  <2>1. Peer[n] \in Node /\ Peer[n] # a /\ Peer[n] # p
    BY <1>6, Pairs
  <2>2. CleanQueue(inbox[n]) /\ OneWay(n)
    BY DEF LinkInv
  <2> QED BY <1>6, <2>1, <2>2 DEF OneWay
<1>7. \A n \in Node :
         /\ CleanQueue(inbox'[n])
         /\ Link(n, submitted'[n], app'[n], tx'[n], inbox'[Peer[n]], inbox'[n],
                 rx'[Peer[n]], delivered'[Peer[n]])
  BY <1>1, <1>3, <1>4, <1>5, <1>6
<1>8. \A n \in Node : CleanQueue(inbox[n])' /\ OneWay(n)'
  BY <1>7 DEF CleanQueue, OneWay
<1> QED BY <1>8 DEF LinkInv

(* Frames are lost, and those of others come in.                           *)
LEMMA LinkDisturbed ==
    ASSUME IInv, LinkInv, UNCHANGED <<app, tx, rx, submitted, delivered>>,
           \A n \in Node : \/ Thinned(inbox'[n], inbox[n])
                           \/ \E f : f.kind = "Foreign" /\ inbox'[n] = Append(inbox[n], f)
    PROVE  LinkInv'
<1>1. ASSUME NEW n \in Node
      PROVE  /\ Within(inbox'[n], inbox[n], DataKinds) /\ Within(inbox'[n], inbox[n], {"FC"})
             /\ CleanQueue(inbox'[n])
  <2>1. QueueFits(inbox[n]) /\ CleanQueue(inbox[n])
    BY DEF IInv, QueuesFit, LinkInv
  <2>2. CASE Thinned(inbox'[n], inbox[n])
    BY <2>1, <2>2, CleanThinned DEF Thinned
  <2>3. ASSUME NEW f, f.kind = "Foreign", inbox'[n] = Append(inbox[n], f)
        PROVE  /\ Within(inbox'[n], inbox[n], DataKinds) /\ Within(inbox'[n], inbox[n], {"FC"})
               /\ CleanQueue(inbox'[n])
    <3>1. f.kind \notin DataKinds /\ f.kind \notin {"FC"}
      BY <2>3 DEF DataKinds
    <3> QED BY <2>1, <2>3, <3>1, Withins, CleanAppend
  <2> QED BY <2>2, <2>3
<1>2. ASSUME NEW n \in Node
      PROVE  Link(n, submitted'[n], app'[n], tx'[n], inbox'[Peer[n]], inbox'[n],
                  rx'[Peer[n]], delivered'[Peer[n]])
  <2>1. Link(n, submitted[n], app[n], tx[n], inbox[Peer[n]], inbox[n],
             rx[Peer[n]], delivered[Peer[n]])
    BY DEF LinkInv, OneWay
  <2>2. Peer[n] \in Node
    BY Pairs
  <2>3. /\ Within(inbox'[Peer[n]], inbox[Peer[n]], DataKinds)
        /\ Within(inbox'[n], inbox[n], {"FC"})
    BY <1>1, <2>2
  <2> QED BY <2>1, <2>3, LinkWithin
<1>3. \A n \in Node : CleanQueue(inbox[n])' /\ OneWay(n)'
  BY <1>1, <1>2 DEF CleanQueue, OneWay
<1> QED BY <1>3 DEF LinkInv

(* The queue of a is cut down to g. *)
Cuts(a, g) == inbox' = [inbox EXCEPT ![a] = g] \/ (UNCHANGED inbox /\ g = inbox[a])

(* A sender moves on, and with it the link.                                *)
LEMMA SenderLink ==
    ASSUME IInv, LinkInv, UNCHANGED <<rx, submitted, delivered>>,
           NEW a \in Node, NEW t, NEW m, Tells(a, t, m), NEW g, Thinned(g, inbox[a]),
           \/ /\ Cuts(a, g)
              /\ Link(a, submitted[a], m, t, inbox[Peer[a]], g, rx[Peer[a]], delivered[Peer[a]])
           \/ \E f :
              /\ f.kind \in DataKinds
              /\ inbox' = [inbox EXCEPT ![a] = g, ![Peer[a]] = Append(@, f)]
              /\ Link(a, submitted[a], m, t, Append(inbox[Peer[a]], f), g,
                      rx[Peer[a]], delivered[Peer[a]])
    PROVE  LinkInv'
<1> DEFINE p == Peer[a]
<1>1. p \in Node /\ p # a
  BY Pairs
<1>2. DOMAIN tx = Node /\ DOMAIN app = Node /\ DOMAIN inbox = Node /\ DOMAIN submitted = Node
  BY DEF IInv, SendersFit, QueuesFit, LinkInv
<1>3. /\ tx'[a] = t /\ app'[a] = m
      /\ \A n \in Node : n # a => tx'[n] = tx[n] /\ app'[n] = app[n]
  BY <1>2 DEF Tells, Becomes
<1>4. CASE /\ Cuts(a, g)
           /\ Link(a, submitted[a], m, t, inbox[p], g, rx[p], delivered[p])
  <2>1. inbox'[a] = g /\ inbox'[p] = inbox[p] /\ \A n \in Node : n # a => inbox'[n] = inbox[n]
    BY <1>1, <1>2, <1>4 DEF Cuts
  <2> QED BY <1>2, <1>3, <1>4, <2>1, LinkSends
<1>5. ASSUME NEW f, f.kind \in DataKinds, inbox' = [inbox EXCEPT ![a] = g, ![p] = Append(@, f)],
             Link(a, submitted[a], m, t, Append(inbox[p], f), g, rx[p], delivered[p])
      PROVE  LinkInv'
  <2>1. /\ inbox'[a] = g /\ inbox'[p] = Append(inbox[p], f)
        /\ \A n \in Node : n # a /\ n # p => inbox'[n] = inbox[n]
    BY <1>1, <1>2, <1>5
  <2>2. Link(a, submitted'[a], app'[a], tx'[a], inbox'[p], inbox'[a], rx[p], delivered[p])
    BY <1>3, <1>5, <2>1
  <2>3. \/ inbox'[p] = inbox[p]
        \/ \E h : h.kind \in DataKinds /\ inbox'[p] = Append(inbox[p], h)
    BY <1>5, <2>1
  <2>4. Thinned(inbox'[a], inbox[a])
    BY <2>1
  <2>5. DOMAIN submitted' = Node /\ UNCHANGED <<rx, delivered>>
    BY <1>2
  <2>6. \A n \in Node : n # a => /\ submitted'[n] = submitted[n]
                                /\ app'[n] = app[n] /\ tx'[n] = tx[n]
    BY <1>3
  <2>7. \A n \in Node : n # a /\ n # p => inbox'[n] = inbox[n]
    BY <2>1
  <2> QED BY <2>2, <2>3, <2>4, <2>5, <2>6, <2>7, LinkSends
<1> QED BY <1>4, <1>5

(* What holds of a sender and the queues it uses.                          *)
LEMMA AtSender ==
    ASSUME Orderly, IInv, LinkInv, NEW a \in Node, Sender(a)
    PROVE  /\ app[a] \in Msg /\ app[a] # NoMsg
           /\ TxFits(tx[a]) /\ (tx[a].state = "Idle" => tx[a] = TxIdle)
           /\ tx[a].state # "Idle" =>
                 /\ Fits(a) /\ tx[a].session.payload_len = Length[app[a]]
                 /\ ~(tx[a].session.wait_count > Cfg[a].wft_max)
           /\ QueueFits(inbox[a]) /\ QueueFits(inbox[Peer[a]]) /\ CleanQueue(inbox[a])
           /\ \E k \in Nat : LinkAt(a, submitted[a], app[a], tx[a], inbox[Peer[a]], inbox[a],
                                    rx[Peer[a]], delivered[Peer[a]], k)
<1>1. /\ SendFits(a, tx[a], app[a]) /\ QueueFits(inbox[a]) /\ QueueFits(inbox[Peer[a]])
      /\ CleanQueue(inbox[a])
  BY Pairs DEF IInv, SendersFit, QueuesFit, LinkInv
<1>2. app[a] \in Msg /\ app[a] # NoMsg /\ TxFits(tx[a])
  BY <1>1 DEF SendFits, AppFits, Sender
<1>3. tx[a].state = "Idle" => tx[a] = TxIdle
  BY <1>2 DEF TxFits
<1>4. PICK k \in Nat : LinkAt(a, submitted[a], app[a], tx[a], inbox[Peer[a]], inbox[a],
                              rx[Peer[a]], delivered[Peer[a]], k)
  BY DEF LinkInv, OneWay, Link
<1>5. ASSUME tx[a].state # "Idle"
      PROVE  /\ Fits(a) /\ tx[a].session.payload_len = Length[app[a]]
             /\ ~(tx[a].session.wait_count > Cfg[a].wft_max)
  <2>1. tx[a].session.payload_len = Length[app[a]] /\ tx[a].session.wait_count = 0
    BY <1>4, <1>5 DEF LinkAt, SessionOf
  <2>2. ~(tx[a].session.wait_count > Cfg[a].wft_max)
    <3>1. Cfg[a].wft_max \in Nat
      BY CfgNumbers
    <3> QED BY <2>1, <3>1
  <2>3. PICK m \in Msg : Length[m] <= Cfg[a].max_payload_len /\ app[a] = m
    BY <1>1, <1>5, <2>2 DEF SendFits, OwnedBy, Orderly
  <2> QED BY <2>1, <2>2, <2>3 DEF Fits
<1> QED BY <1>1, <1>2, <1>3, <1>4, <1>5

(* A send ends without a frame.                                            *)
LEMMA SendStops ==
    ASSUME Orderly, IInv, LinkInv, UNCHANGED <<rx, submitted, delivered>>,
           NEW a \in Node, Sender(a), NEW g,
           Cuts(a, g), Tells(a, TxIdle, NoMsg),
           \/ ~Waits(tx[a]) /\ g = inbox[a]
           \/ \E i \in 1..Len(inbox[a]) : inbox[a][i].kind = "FC" /\ g = After(inbox[a], i)
    PROVE  LinkInv'
<1>1. PICK k \in Nat : LinkAt(a, submitted[a], app[a], tx[a], inbox[Peer[a]], inbox[a],
                              rx[Peer[a]], delivered[Peer[a]], k)
  BY AtSender
<1>2. QueueFits(inbox[a])
  BY AtSender
<1>3. LinkAt(a, submitted[a], NoMsg, TxIdle, inbox[Peer[a]], g, rx[Peer[a]], delivered[Peer[a]], k)
  BY <1>1, <1>2, LinkStop
<1>4. Thinned(g, inbox[a])
  <2>1. Len(inbox[a]) \in Nat
    BY <1>2, RestAt
  <2>2. \A i \in 1..Len(inbox[a]) : i \in 0..Len(inbox[a])
    BY <2>1
  <2> QED BY <1>2, <2>2, ThinnedQueues
<1>5. Link(a, submitted[a], NoMsg, TxIdle, inbox[Peer[a]], g, rx[Peer[a]], delivered[Peer[a]])
  BY <1>3 DEF Link
<1> QED BY <1>4, <1>5, SenderLink

(* continue_send.                                                          *)
LEMMA ContinueLink ==
    ASSUME Orderly, IInv, LinkInv, UNCHANGED <<rx, submitted, delivered>>,
           NEW a \in Node, Sender(a), NEW s \in Session, s.offset < s.payload_len,
           NEW t, t.state = "Sending", t.session = s,
           NEW rest, QueueFits(rest), Thinned(rest, inbox[a]), NEW k \in Nat,
           LinkAt(a, submitted[a], app[a], t, inbox[Peer[a]], rest,
                  rx[Peer[a]], delivered[Peer[a]], k),
           ContinueSend(a, s, rest)
    PROVE  LinkInv'
<1> DEFINE x == app[a]
           f == NextFrame(Cfg[a], s, Payload(x))
           t2 == AfterFrame(Cfg[a], s, Payload(x))
           m2 == IF t2.state = "Idle" THEN NoMsg ELSE x
<1>1. x \in Msg /\ QueueFits(inbox[Peer[a]]) /\ Cfg[a].n_bs > 0
  BY AtSender DEF Orderly
<1>2. CASE TransmitFails(a, rest) /\ Becomes(a, TxIdle) /\ Return(a, "LinkError")
  <2>1. LinkAt(a, submitted[a], NoMsg, TxIdle, inbox[Peer[a]], rest,
               rx[Peer[a]], delivered[Peer[a]], k)
    BY LinkStop DEF Waits
  <2>2. Link(a, submitted[a], NoMsg, TxIdle, inbox[Peer[a]], rest,
             rx[Peer[a]], delivered[Peer[a]])
    BY <2>1 DEF Link
  <2>3. Tells(a, TxIdle, NoMsg) /\ Cuts(a, rest)
    BY <1>2 DEF Tells, Return, TransmitFails, Cuts
  <2> QED BY <2>2, <2>3, SenderLink
<1>3. CASE /\ \E next \in {t2} :
                /\ Becomes(a, next)
                /\ IF next.state = "Idle" THEN Return(a, "Completed") ELSE Continue
           /\ Transmit(a, rest, f)
  <2>1. LinkAt(a, submitted[a], m2, t2, Append(inbox[Peer[a]], f), rest,
               rx[Peer[a]], delivered[Peer[a]], k + 1)
    BY <1>1, LinkConsecutive
  <2> HIDE DEF f, t2
  <2>2. k + 1 \in Nat
    OBVIOUS
  <2>3. Link(a, submitted[a], m2, t2, Append(inbox[Peer[a]], f), rest,
             rx[Peer[a]], delivered[Peer[a]])
    BY <2>1, <2>2 DEF Link
  <2>4. Tells(a, t2, m2)
    BY <1>3 DEF Tells, Return, Continue
  <2>5. f.kind \in DataKinds
    BY DEF f, NextFrame, ConsecutiveFrame, DataKinds
  <2>6. inbox' = [inbox EXCEPT ![a] = rest, ![Peer[a]] = Append(@, f)]
    BY <1>3 DEF Transmit
  <2> HIDE DEF m2
  <2>7. \E h : /\ h.kind \in DataKinds
               /\ inbox' = [inbox EXCEPT ![a] = rest, ![Peer[a]] = Append(@, h)]
               /\ Link(a, submitted[a], m2, t2, Append(inbox[Peer[a]], h), rest,
                       rx[Peer[a]], delivered[Peer[a]])
    BY <2>3, <2>5, <2>6
  <2> QED BY <2>4, <2>7, SenderLink
<1> QED BY <1>2, <1>3 DEF ContinueSend

(* start_send.                                                             *)
LEMMA StartLink ==
    ASSUME Orderly, IInv, LinkInv, UNCHANGED <<rx, submitted, delivered>>,
           NEW a \in Node, SendTooLong(a) \/ SendSingle(a) \/ SendFirst(a)
    PROVE  LinkInv'
<1> DEFINE p == Peer[a]
<1>1. Sender(a)
  BY DEF SendTooLong, SendSingle, SendFirst
<1>2. /\ app[a] \in Msg /\ QueueFits(inbox[a]) /\ QueueFits(inbox[p])
      /\ tx[a].state = "Idle" => tx[a] = TxIdle
      /\ tx[a].state # "Idle" => Fits(a)
  BY <1>1, AtSender
<1>3. PICK k \in Nat : LinkAt(a, submitted[a], app[a], tx[a], inbox[p], inbox[a],
                              rx[p], delivered[p], k)
  BY <1>1, AtSender
<1>4. Thinned(inbox[a], inbox[a])
  BY <1>2, ThinnedQueues
<1>5. ASSUME tx[a] = TxIdle, UNCHANGED tx, NEW out, Return(a, out), Cuts(a, inbox[a])
      PROVE  LinkInv'
  <2>1. Tells(a, TxIdle, NoMsg) /\ ~Waits(tx[a])
    BY <1>5 DEF Tells, Return, Waits, TxIdle
  <2> QED BY <1>1, <1>5, <2>1, SendStops
<1>6. CASE SendTooLong(a)
  <2>1. tx[a] = TxIdle
    BY <1>2, <1>6 DEF SendTooLong
  <2> QED BY <1>5, <1>6, <2>1 DEF SendTooLong, Cuts
<1>7. CASE SendSingle(a)
  <2> DEFINE f == SingleFrame(Payload(app[a]))
  <2>1. tx[a] = TxIdle /\ tx[a].state = "Idle" /\ Length[app[a]] <= max_single_frame_payload(Cfg[a])
        /\ UNCHANGED tx
    BY <1>2, <1>7 DEF SendSingle
  <2>2. CASE TransmitFails(a, inbox[a]) /\ Return(a, "LinkError")
    BY <1>5, <2>1, <2>2 DEF TransmitFails, Cuts
  <2>3. CASE Transmit(a, inbox[a], f) /\ Return(a, "Completed")
    <3>1. LinkAt(a, submitted[a], NoMsg, tx[a], Append(inbox[p], f), inbox[a],
                 rx[p], delivered[p], k)
      BY <1>2, <1>3, <2>1, LinkSingle DEF Orderly
    <3>2. Tells(a, tx[a], NoMsg)
      BY <2>1, <2>3 DEF Tells, Return
    <3>3. inbox' = [inbox EXCEPT ![a] = inbox[a], ![p] = Append(@, f)] /\ f.kind \in DataKinds
      BY <2>3 DEF Transmit, SingleFrame, DataKinds
    <3> HIDE DEF f
    <3>4. \E h : /\ h.kind \in DataKinds
                 /\ inbox' = [inbox EXCEPT ![a] = inbox[a], ![p] = Append(@, h)]
                 /\ Link(a, submitted[a], NoMsg, tx[a], Append(inbox[p], h), inbox[a],
                         rx[p], delivered[p])
      BY <3>1, <3>3 DEF Link
    <3> QED BY <1>4, <3>2, <3>4, SenderLink
  <2> QED BY <1>7, <2>2, <2>3 DEF SendSingle
<1>8. CASE SendFirst(a)
  <2> DEFINE f == FirstFrameOf(Cfg[a], Payload(app[a]))
             timer == Timer(Cfg[a].n_bs)
             t == WaitingForFc(NewSession(Cfg[a], Payload(app[a])), timer)
  <2>1. tx[a] = TxIdle /\ tx[a].state = "Idle" /\ Length[app[a]] > max_single_frame_payload(Cfg[a])
    BY <1>2, <1>8 DEF SendFirst
  <2>2. CASE TransmitFails(a, inbox[a]) /\ UNCHANGED tx /\ Return(a, "LinkError")
    BY <1>5, <2>1, <2>2 DEF TransmitFails, Cuts
  <2>3. CASE Transmit(a, inbox[a], f) /\ Becomes(a, t) /\ Continue
    <3>1. timer > 0
      BY TimerRuns, CfgNumbers DEF Orderly
    <3> HIDE DEF timer
    <3>2. LinkAt(a, submitted[a], app[a], t, Append(inbox[p], f), inbox[a], rx[p], delivered[p], 0)
      BY <1>2, <1>3, <2>1, <3>1, LinkFirst
    <3>3. f.kind \in DataKinds
      BY DEF FirstFrameOf, FirstFrame, DataKinds
    <3> HIDE DEF f, t
    <3>4. Tells(a, t, app[a])
      BY <2>3 DEF Tells, Continue
    <3>5. inbox' = [inbox EXCEPT ![a] = inbox[a], ![p] = Append(@, f)]
      BY <2>3 DEF Transmit
    <3>6. \E h : /\ h.kind \in DataKinds
                 /\ inbox' = [inbox EXCEPT ![a] = inbox[a], ![p] = Append(@, h)]
                 /\ Link(a, submitted[a], app[a], t, Append(inbox[p], h), inbox[a],
                         rx[p], delivered[p])
      BY <3>2, <3>3, <3>5 DEF Link
    <3> QED BY <1>4, <3>4, <3>6, SenderLink
  <2> QED BY <1>8, <2>2, <2>3 DEF SendFirst
<1> QED BY <1>6, <1>7, <1>8

(* continue_wait_for_fc: it meets no Wait and nothing that does not decode. *)
LEMMA WaitLink ==
    ASSUME Orderly, IInv, LinkInv, UNCHANGED <<rx, submitted, delivered>>, NEW a \in Node,
           \/ FcTimeout(a) \/ NoFcYet(a) \/ WaitBroken(a)
           \/ GotClearToSend(a) \/ GotWait(a) \/ GotOverflow(a)
    PROVE  LinkInv'
<1> DEFINE p == Peer[a]
           i == FcIndex(a)
<1>1. Sender(a) /\ Resumes(a, "WaitingForFc")
  BY DEF FcTimeout, NoFcYet, WaitBroken, GotClearToSend, GotWait, GotOverflow, GotFc, Awaits, Resumes
<1>2. /\ app[a] \in Msg /\ QueueFits(inbox[a]) /\ QueueFits(inbox[p]) /\ CleanQueue(inbox[a])
      /\ TxFits(tx[a]) /\ tx[a].state = "WaitingForFc"
      /\ ~(tx[a].session.wait_count > Cfg[a].wft_max)
  BY <1>1, AtSender DEF Resumes
<1>3. PICK k \in Nat : LinkAt(a, submitted[a], app[a], tx[a], inbox[p], inbox[a],
                              rx[p], delivered[p], k)
  BY <1>1, AtSender
<1>4. CASE FcTimeout(a)
  <2>1. tx[a].timer = 0
    BY <1>2, <1>4 DEF FcTimeout
  <2>2. ~Waits(tx[a])
    BY <2>1 DEF Waits
  <2>3. Tells(a, TxIdle, NoMsg) /\ Cuts(a, inbox[a])
    BY <1>4 DEF FcTimeout, Tells, Return, Cuts
  <2> QED BY <1>1, <2>2, <2>3, SendStops
<1>5. CASE NoFcYet(a)
  <2>1. Within(<<>>, inbox[a], {"FC"}) /\ Thinned(<<>>, inbox[a])
    BY <1>2, Withins, ThinnedQueues
  <2>2. Link(a, submitted[a], app[a], tx[a], inbox[p], inbox[a], rx[p], delivered[p])
    BY <1>3 DEF Link
  <2>3. Link(a, submitted[a], app[a], tx[a], inbox[p], <<>>, rx[p], delivered[p])
    BY <2>1, <2>2, WithinSelf, LinkWithin
  <2>4. Tells(a, tx[a], app[a]) /\ Cuts(a, <<>>)
    BY <1>5 DEF NoFcYet, Continue, Consume, Tells, Cuts
  <2> QED BY <2>1, <2>3, <2>4, SenderLink
<1>6. CASE WaitBroken(a)
  <2>1. Len(inbox[a]) \in Nat /\ i # 0 /\ inbox[a][i].kind = "Malformed"
    BY <1>2, <1>6, RestAt, QueueKept DEF WaitBroken
  <2>2. i \in 1..Len(inbox[a])
    BY <2>1, FcStopsAt
  <2>3. inbox[a][i].kind \in DataKinds \cup {"FC", "Foreign"}
    BY <1>2, <2>2 DEF CleanQueue
  <2> QED BY <2>1, <2>3 DEF DataKinds
<1>7. ASSUME NEW status, GotFc(a, status)
      PROVE  /\ i \in 1..Len(inbox[a]) /\ inbox[a][i].kind = "FC" /\ FrameFits(inbox[a][i])
             /\ inbox[a][i].status = status
  BY <1>7, FcHeard DEF IInv
<1>8. CASE GotWait(a)
  <2>1. i \in 1..Len(inbox[a]) /\ inbox[a][i].kind = "FC" /\ inbox[a][i].status = "Wait"
    BY <1>7, <1>8 DEF GotWait
  <2>2. inbox[a][i].status \in {"ClearToSend", "Overflow"}
    BY <1>3, <2>1 DEF LinkAt, AnswersAre
  <2> QED BY <2>1, <2>2
<1>9. CASE GotOverflow(a)
  <2>1. i \in 1..Len(inbox[a]) /\ inbox[a][i].kind = "FC"
    BY <1>7, <1>9 DEF GotOverflow
  <2>2. Tells(a, TxIdle, NoMsg) /\ Cuts(a, After(inbox[a], i))
    BY <1>9 DEF GotOverflow, Tells, Return, Consume, Cuts
  <2> HIDE DEF i
  <2> QED BY <1>1, <2>1, <2>2, SendStops
<1>10. CASE GotClearToSend(a)
  <2> DEFINE s == Cleared(Cfg[a], tx[a].session, inbox[a][i])
             rest == After(inbox[a], i)
             t == Sending(s, 0)
  <2>1. /\ i \in 1..Len(inbox[a]) /\ inbox[a][i].kind = "FC" /\ FrameFits(inbox[a][i])
        /\ inbox[a][i].status = "ClearToSend"
    BY <1>7, <1>10 DEF GotClearToSend
  <2>2. ContinueSend(a, s, rest)
    BY <1>10 DEF GotClearToSend
  <2>3. tx[a].session \in Session /\ tx[a].session.offset < tx[a].session.payload_len
    BY <1>2 DEF TxFits, TxIdle
  <2>4. s \in Session /\ s.offset < s.payload_len
    BY <2>1, <2>3, ClearedFits
  <2> HIDE DEF i
  <2>5. LinkAt(a, submitted[a], app[a], t, inbox[p], rest, rx[p], delivered[p], k)
    BY <1>2, <1>3, <2>1, <2>3, LinkCleared
  <2> HIDE DEF s
  <2>6. t.state = "Sending" /\ t.session = s
    BY DEF Sending
  <2> HIDE DEF t
  <2>7. QueueFits(rest) /\ Thinned(rest, inbox[a])
    <3>1. Len(inbox[a]) \in Nat
      BY <1>2, QueueKept
    <3>2. i \in 0..Len(inbox[a])
      BY <2>1, <3>1
    <3> QED BY <1>2, <3>2, QueueKept, ThinnedQueues
  <2> HIDE DEF rest
  <2> QED BY <1>1, <2>2, <2>4, <2>5, <2>6, <2>7, ContinueLink
<1> QED BY <1>4, <1>5, <1>6, <1>8, <1>9, <1>10

(* poll_send.                                                              *)
LEMMA PollSendLink ==
    ASSUME Orderly, IInv, LinkInv, NEW a \in Node, PollSend(a)
    PROVE  LinkInv'
<1>1. UNCHANGED <<rx, submitted, delivered>>
  BY DEF PollSend
<1>2. CASE SendMismatch(a)
  BY <1>2, AtSender DEF SendMismatch
<1>3. CASE SendConsecutive(a)
  <2> DEFINE p == Peer[a]
             t == tx[a]
             s == t.session
             g == inbox[a]
  <2>1. Sender(a) /\ t.state = "Sending" /\ ContinueSend(a, s, g)
    BY <1>3 DEF SendConsecutive, Resumes
  <2>2. TxFits(t) /\ QueueFits(g)
    BY <2>1, AtSender
  <2>3. PICK k \in Nat : LinkAt(a, submitted[a], app[a], t, inbox[p], g,
                                rx[p], delivered[p], k)
    BY <2>1, AtSender
  <2>4. s \in Session /\ s.offset < s.payload_len
    BY <2>1, <2>2 DEF TxFits, TxIdle
  <2>5. Thinned(g, inbox[a])
    BY <2>2, ThinnedQueues
  <2> QED BY <1>1, <2>1, <2>2, <2>3, <2>4, <2>5, ContinueLink
<1> QED BY <1>1, <1>2, <1>3, StartLink, WaitLink DEF PollSend

-----------------------------------------------------------------------------
(* The frame poll_recv stops at is one it does not pass over.              *)
LEMMA StopsNotSkipped ==
    ASSUME NEW n, Len(inbox[n]) \in Nat, RecvIndex(n) # 0
    PROVE  RecvIndex(n) \in 1..Len(inbox[n]) /\ ~Skipped(n, inbox[n][RecvIndex(n)])
<1> DEFINE I == {i \in 1..Len(inbox[n]) : ~Skipped(n, inbox[n][i])}
<1>1. RecvIndex(n) = IF I # {} THEN Min(I) ELSE 0
  BY DEF RecvIndex, SelectInSeq
<1>2. I \subseteq Nat /\ \A i \in I : i \in 1..Len(inbox[n]) /\ ~Skipped(n, inbox[n][i])
  OBVIOUS
<1> HIDE DEF I
<1> QED BY <1>1, <1>2, StopsAt

(* What poll_recv makes of the frame it stops at.                          *)
LEMMA RecvAnswered ==
    ASSUME Orderly, IInv, LinkInv, NEW a \in Node, RecvIndex(a) # 0
    PROVE  LET p == Peer[a]
               i == RecvIndex(a)
               u == Response(a, inbox[a][i])
           IN  /\ i \in 1..Len(inbox[a]) /\ inbox[a][i].kind \in DataKinds
               /\ \E k \in Nat :
                     Answered(p, submitted[p], app[p], tx[p], inbox[a], inbox[p],
                              u.rx, delivered[a], k, i, u.out)
<1> DEFINE p == Peer[a]
           i == RecvIndex(a)
           u == Response(a, inbox[a][i])
<1>1. p \in Node /\ Peer[p] = a
  BY Pairs
<1>2. /\ QueueFits(inbox[a]) /\ QueueFits(inbox[p]) /\ RxFits(rx[a]) /\ TxFits(tx[p])
      /\ CleanQueue(inbox[a])
  BY <1>1 DEF IInv, QueuesFit, ReceiversFit, SendersFit, SendFits, LinkInv
<1>3. PICK k \in Nat : LinkAt(p, submitted[p], app[p], tx[p], inbox[a], inbox[p],
                              rx[a], delivered[a], k)
  BY <1>1 DEF LinkInv, OneWay, Link
<1>4. Len(inbox[a]) \in Nat
  BY <1>2, QueueKept
<1>5. i \in 1..Len(inbox[a]) /\ ~Skipped(a, inbox[a][i])
  BY <1>4, StopsNotSkipped
<1> HIDE DEF i
<1>6. inbox[a][i].kind \in DataKinds
  BY <1>2, <1>5 DEF CleanQueue, Skipped
<1>7. u = on_pdu(Cfg[Peer[p]], rx[a], inbox[a][i]) /\ u.out # "UnexpectedPdu"
  BY <1>1, <1>5, <1>6 DEF Skipped, Response, DataKinds
<1> HIDE DEF u
<1>8. Answered(p, submitted[p], app[p], tx[p], inbox[a], inbox[p], u.rx, delivered[a], k, i, u.out)
  BY <1>1, <1>2, <1>3, <1>5, <1>6, <1>7, PduAnswered DEF Orderly
<1> QED BY <1>5, <1>6, <1>8 DEF i, u

(* poll_recv answers the frame it stops at.                                *)
LEMMA RecvPduLink ==
    ASSUME Orderly, IInv, LinkInv, UNCHANGED <<app, tx, submitted>>, NEW a \in Node,
           RecvQuiet(a) \/ RecvOverflow(a) \/ RecvGrant(a) \/ RecvCompleted(a)
    PROVE  /\ LinkInv'
           /\ RecvCompleted(a) => IsNext(submitted[Peer[a]], delivered[a], rx'[a].content)
<1> DEFINE p == Peer[a]
           i == RecvIndex(a)
           q == inbox[a]
           u == Response(a, q[i])
           rest == After(q, i)
           Is(g, D, k) == LinkAt(p, submitted[p], app[p], tx[p], rest, g, u.rx, D, k)
<1>1. p \in Node /\ p # a /\ Peer[p] = a
  BY Pairs
<1>2. i # 0 /\ RecvRest(a) = rest
  BY DEF RecvQuiet, RecvOverflow, RecvGrant, RecvCompleted, RecvPdu, RecvRest
<1>3. i \in 1..Len(q)
  BY <1>2, RecvAnswered
<1>4. PICK k \in Nat : Answered(p, submitted[p], app[p], tx[p], q, inbox[p],
                                u.rx, delivered[a], k, i, u.out)
  BY <1>2, RecvAnswered
<1>5. /\ DOMAIN rx = Node /\ DOMAIN inbox = Node /\ DOMAIN delivered = Node
      /\ QueueFits(q) /\ QueueFits(inbox[p])
  BY <1>1 DEF IInv, ReceiversFit, QueuesFit, LinkInv
<1>6. Thinned(rest, q)
  <2>1. Len(q) \in Nat
    BY <1>5, QueueKept
  <2>2. i \in 0..Len(q)
    BY <1>3, <2>1
  <2> HIDE DEF i, q
  <2> QED BY <1>5, <2>2, ThinnedQueues
<1>7. rx' = [rx EXCEPT ![a] = u.rx]
  BY DEF RecvQuiet, RecvOverflow, RecvGrant, RecvCompleted, RecvPdu
<1> HIDE DEF u, i, rest
<1>8. rx'[a] = u.rx /\ \A n \in Node : n # a => rx'[n] = rx[n]
  BY <1>5, <1>7
<1>9. ASSUME inbox' = [inbox EXCEPT ![a] = rest], UNCHANGED delivered,
             Is(inbox[p], delivered[a], k)
      PROVE  LinkInv'
  <2>1. inbox'[a] = rest /\ \A n \in Node : n # a => inbox'[n] = inbox[n]
    BY <1>5, <1>9
  <2>2. Link(p, submitted[p], app[p], tx[p], inbox'[a], inbox'[p], rx'[a], delivered'[a])
    BY <1>1, <1>8, <1>9, <2>1 DEF Link
  <2>3. Thinned(inbox'[a], inbox[a])
    BY <1>6, <2>1
  <2> QED BY <1>1, <1>5, <1>8, <1>9, <2>1, <2>2, <2>3, LinkReceives
<1>10. ASSUME NEW f, f.kind = "FC", UNCHANGED delivered,
              inbox' = [inbox EXCEPT ![a] = rest, ![p] = Append(@, f)],
              Is(Append(inbox[p], f), delivered[a], k)
       PROVE  LinkInv'
  <2>1. /\ inbox'[a] = rest /\ inbox'[p] = Append(inbox[p], f)
        /\ \A n \in Node : n # a /\ n # p => inbox'[n] = inbox[n]
    BY <1>1, <1>5, <1>10
  <2>2. Link(p, submitted[p], app[p], tx[p], inbox'[a], inbox'[p], rx'[a], delivered'[a])
    BY <1>8, <1>10, <2>1 DEF Link
  <2>3. Thinned(inbox'[a], inbox[a])
    BY <1>6, <2>1
  <2>4. \E h : h.kind = "FC" /\ inbox'[p] = Append(inbox[p], h)
    BY <1>10, <2>1
  <2>5. /\ DOMAIN delivered' = Node
        /\ \A n \in Node : n # a => rx'[n] = rx[n] /\ delivered'[n] = delivered[n]
    BY <1>5, <1>8, <1>10
  <2>6. \A n \in Node : n # a /\ n # p => inbox'[n] = inbox[n]
    BY <2>1
  <2> QED BY <2>2, <2>3, <2>4, <2>5, <2>6, LinkReceives
<1>11. CASE RecvQuiet(a)
  <2>1. /\ u.out \in {"None", "BadSequence"} /\ UNCHANGED delivered
        /\ inbox' = [inbox EXCEPT ![a] = rest]
    BY <1>2, <1>11 DEF RecvQuiet, RecvPdu, Consume, u, i, q
  <2>2. Is(inbox[p], delivered[a], k)
    BY <1>4, <2>1 DEF Answered, rest
  <2>3. ~RecvCompleted(a)
    BY <2>1 DEF RecvCompleted, RecvPdu, u, i, q
  <2> QED BY <1>9, <2>1, <2>2, <2>3
<1>12. CASE RecvOverflow(a)
  <2> DEFINE f == OverflowFc(Cfg[a])
  <2>1. /\ u.out = "Overflow" /\ UNCHANGED delivered
        /\ Transmit(a, rest, f) \/ TransmitFails(a, rest)
    BY <1>2, <1>12 DEF RecvOverflow, RecvPdu, u, i, q
  <2>2. Is(inbox[p], delivered[a], k)
    BY <1>4, <2>1 DEF Answered, rest
  <2>3. f.kind = "FC" /\ f.status = "Overflow"
    BY DEF OverflowFc, FlowControl
  <2> HIDE DEF f
  <2>4. Is(Append(inbox[p], f), delivered[a], k)
    BY <1>4, <2>1, <2>3 DEF Answered, rest
  <2>5. ~RecvCompleted(a)
    BY <2>1 DEF RecvCompleted, RecvPdu, u, i, q
  <2>6. CASE Transmit(a, rest, f)
    BY <1>10, <2>1, <2>3, <2>4, <2>5, <2>6 DEF Transmit
  <2>7. CASE TransmitFails(a, rest)
    BY <1>9, <2>1, <2>2, <2>5, <2>7 DEF TransmitFails
  <2> QED BY <2>1, <2>6, <2>7
<1>13. CASE RecvGrant(a)
  <2> DEFINE f == Grant(Cfg[a], rx'[a])
  <2>1. /\ u.out = "SendFlowControl" /\ UNCHANGED delivered
        /\ Transmit(a, rest, f) \/ TransmitFails(a, rest)
    BY <1>2, <1>13 DEF RecvGrant, RecvPdu, u, i, q
  <2>2. Is(inbox[p], delivered[a], k)
    BY <1>4, <2>1 DEF Answered, rest
  <2>3. f.kind = "FC" /\ f.status = "ClearToSend" /\ f.block_size = u.rx.block_size
    BY <1>8 DEF Grant, FlowControl
  <2> HIDE DEF f
  <2>4. Is(Append(inbox[p], f), delivered[a], k)
    BY <1>4, <2>1, <2>3 DEF Answered, rest
  <2>5. ~RecvCompleted(a)
    BY <2>1 DEF RecvCompleted, RecvPdu, u, i, q
  <2>6. CASE Transmit(a, rest, f)
    BY <1>10, <2>1, <2>3, <2>4, <2>5, <2>6 DEF Transmit
  <2>7. CASE TransmitFails(a, rest)
    BY <1>9, <2>1, <2>2, <2>5, <2>7 DEF TransmitFails
  <2> QED BY <2>1, <2>6, <2>7
<1>14. CASE RecvCompleted(a)
  <2>1. /\ u.out = "Completed" /\ inbox' = [inbox EXCEPT ![a] = rest]
        /\ delivered' = [delivered EXCEPT ![a] = Append(@, rx'[a].content)]
    BY <1>2, <1>14 DEF RecvCompleted, RecvPdu, Consume, u, i, q
  <2>2. /\ Is(inbox[p], Append(delivered[a], u.rx.content), k)
        /\ IsNext(submitted[p], delivered[a], u.rx.content)
    BY <1>4, <2>1 DEF Answered, rest
  <2>3. /\ DOMAIN delivered' = Node /\ delivered'[a] = Append(delivered[a], u.rx.content)
        /\ \A n \in Node : n # a => delivered'[n] = delivered[n]
    BY <1>5, <1>8, <2>1
  <2>4. inbox'[a] = rest /\ \A n \in Node : n # a => inbox'[n] = inbox[n]
    BY <1>5, <2>1
  <2>5. Link(p, submitted[p], app[p], tx[p], inbox'[a], inbox'[p], rx'[a], delivered'[a])
    BY <1>1, <1>8, <2>2, <2>3, <2>4 DEF Link
  <2>6. Thinned(inbox'[a], inbox[a])
    BY <1>6, <2>4
  <2>7. \A n \in Node : n # a => rx'[n] = rx[n] /\ delivered'[n] = delivered[n]
    BY <1>8, <2>3
  <2>8. /\ inbox'[p] = inbox[p]
        /\ \A n \in Node : n # a /\ n # p => inbox'[n] = inbox[n]
    BY <1>1, <2>4
  <2>9. DOMAIN delivered' = Node
    BY <2>3
  <2>10. LinkInv'
    BY <2>5, <2>6, <2>7, <2>8, <2>9, LinkReceives
  <2> QED BY <1>8, <2>2, <2>10
<1> QED BY <1>11, <1>12, <1>13, <1>14

(* poll_recv.                                                              *)
LEMMA PollRecvLink ==
    ASSUME Orderly, IInv, LinkInv, NEW a \in Node, PollRecv(a)
    PROVE  /\ LinkInv'
           /\ \/ UNCHANGED delivered
              \/ /\ IsNext(submitted[Peer[a]], delivered[a], rx'[a].content)
                 /\ delivered' = [delivered EXCEPT ![a] = Append(@, rx'[a].content)]
<1>1. UNCHANGED <<app, ret, tx, submitted>>
  BY DEF PollRecv
<1>2. CASE RecvNothing(a)
  <2>1. UNCHANGED <<rx, delivered>> /\ inbox' = [inbox EXCEPT ![a] = <<>>]
    BY <1>2 DEF RecvNothing, Consume
  <2>2. DOMAIN inbox = Node /\ \A n \in Node : QueueFits(inbox[n])
    BY DEF IInv, QueuesFit
  <2>3. \A n \in Node : Thinned(inbox'[n], inbox[n])
    BY <2>1, <2>2, ThinnedQueues
  <2> QED BY <1>1, <2>1, <2>3, LinkDisturbed
<1>3. CASE RecvMalformed(a)
  <2>1. RecvIndex(a) # 0 /\ inbox[a][RecvIndex(a)].kind = "Malformed"
    BY <1>3 DEF RecvMalformed
  <2>2. inbox[a][RecvIndex(a)].kind \in DataKinds
    BY <2>1, RecvAnswered
  <2> QED BY <2>1, <2>2 DEF DataKinds
<1>4. CASE RecvQuiet(a) \/ RecvOverflow(a) \/ RecvGrant(a) \/ RecvCompleted(a)
  <2>1. /\ LinkInv'
        /\ RecvCompleted(a) => IsNext(submitted[Peer[a]], delivered[a], rx'[a].content)
    BY <1>1, <1>4, RecvPduLink
  <2>2. ~RecvCompleted(a) => UNCHANGED delivered
    BY <1>4 DEF RecvQuiet, RecvOverflow, RecvGrant
  <2>3. RecvCompleted(a) => delivered' = [delivered EXCEPT ![a] = Append(@, rx'[a].content)]
    BY DEF RecvCompleted
  <2> QED BY <2>1, <2>2, <2>3
<1> QED BY <1>2, <1>3, <1>4 DEF PollRecv

(* A send begins.                                                          *)
LEMMA SubmitLink ==
    ASSUME Orderly, IInv, LinkInv, NEW a \in Node, Submit(a)
    PROVE  LinkInv'
<1> DEFINE p == Peer[a]
<1>1. PICK x \in Msg : /\ ~Contains(submitted[a], x) /\ app' = [app EXCEPT ![a] = x]
                       /\ submitted' = [submitted EXCEPT ![a] = Append(@, x)]
  BY DEF Submit
<1>2. UNCHANGED <<tx, rx, inbox, faults, delivered>> /\ app[a] = NoMsg
  BY DEF Submit, Sender
<1>3. DOMAIN app = Node /\ DOMAIN submitted = Node
  BY DEF IInv, SendersFit, LinkInv
<1>4. /\ app'[a] = x /\ submitted'[a] = Append(submitted[a], x) /\ DOMAIN submitted' = Node
      /\ \A n \in Node : n # a => app'[n] = app[n] /\ submitted'[n] = submitted[n]
  BY <1>1, <1>3
<1>5. PICK k \in Nat : LinkAt(a, submitted[a], NoMsg, tx[a], inbox[p], inbox[a],
                              rx[p], delivered[p], k)
  BY <1>2 DEF LinkInv, OneWay, Link
<1>6. LinkAt(a, Append(submitted[a], x), x, tx[a], inbox[p], inbox[a], rx[p], delivered[p], k)
  BY <1>1, <1>5, LinkSubmit DEF Orderly
<1>7. Link(a, submitted'[a], app'[a], tx'[a], inbox'[p], inbox'[a], rx[p], delivered[p])
  BY <1>2, <1>4, <1>6 DEF Link
<1>8. Thinned(inbox'[a], inbox[a])
  BY <1>2, ThinnedQueues DEF IInv, QueuesFit
<1>9. inbox'[Peer[a]] = inbox[Peer[a]] /\ UNCHANGED <<rx, delivered>>
      /\ \A n \in Node : n # a => /\ submitted'[n] = submitted[n]
                                  /\ app'[n] = app[n] /\ tx'[n] = tx[n]
  BY <1>2, <1>4
<1>10. \A n \in Node : n # a /\ n # Peer[a] => inbox'[n] = inbox[n]
  BY <1>2
<1> QED BY <1>4, <1>7, <1>8, <1>9, <1>10, LinkSends

(* Time passes: before the deadline of a sender, queues are empty.         *)
LEMMA AdvanceLink ==
    ASSUME Orderly, IInv, LinkInv, Advance
    PROVE  LinkInv'
<1>1. /\ UNCHANGED <<app, rx, inbox, submitted, delivered>>
      /\ tx' = [n \in Node |-> Later(tx[n])]
      /\ \A n \in Node : LastCall(n) => Drained
  BY DEF Advance, Orderly
<1>2. ASSUME NEW n \in Node
      PROVE  Link(n, submitted[n], app[n], Later(tx[n]), inbox[Peer[n]], inbox[n],
                  rx[Peer[n]], delivered[Peer[n]])
  <2> DEFINE p == Peer[n]
  <2>1. PICK k \in Nat : LinkAt(n, submitted[n], app[n], tx[n], inbox[p], inbox[n],
                                rx[p], delivered[p], k)
    BY DEF LinkInv, OneWay, Link
  <2>2. p \in Node /\ p # n
    BY Pairs
  <2>3. TxFits(tx[n]) /\ AppFits(n, app[n]) /\ AppFits(p, app[p])
    BY <2>2 DEF IInv, SendersFit, SendFits
  <2>4. ASSUME Waits(tx[n]), tx[n].timer = 1
        PROVE  inbox[p] = <<>> /\ inbox[n] = <<>>
    <3>1. Drained /\ Reads(n)
      BY <1>1, <2>4 DEF LastCall, Waits, Reads
    <3>2. app[n] # NoMsg
      BY <2>1, <2>4 DEF LinkAt, SessionOf, Waits
    <3>3. app[n] \in Msg /\ Source[app[n]] = n
      BY <2>3, <3>2 DEF AppFits
    <3>4. Reads(p)
      <4> SUFFICES ASSUME ~Superloop, app[p] # NoMsg PROVE FALSE
        BY DEF Reads, Sender
      <4>1. app[p] \in Msg /\ Source[app[p]] = p
        BY <2>3 DEF AppFits
      <4> QED BY <2>2, <3>3, <4>1 DEF Orderly
    <3> QED BY <2>2, <3>1, <3>4 DEF Drained
  <2>5. LinkAt(n, submitted[n], app[n], Later(tx[n]), inbox[p], inbox[n], rx[p], delivered[p], k)
    BY <2>1, <2>3, <2>4, LinkTick
  <2> QED BY <2>5 DEF Link
<1>3. \A n \in Node : Link(n, submitted'[n], app'[n], tx'[n], inbox'[Peer[n]], inbox'[n],
                           rx'[Peer[n]], delivered'[Peer[n]])
  BY <1>1, <1>2
<1>4. \A n \in Node : CleanQueue(inbox'[n])
  BY <1>1 DEF LinkInv
<1>5. \A n \in Node : CleanQueue(inbox[n])' /\ OneWay(n)'
  BY <1>3, <1>4 DEF CleanQueue, OneWay
<1> QED BY <1>1, <1>5 DEF LinkInv

(* The bus loses frames and carries those of others.                       *)
LEMMA BusLink ==
    ASSUME Orderly, IInv, LinkInv, NEW a \in Node, Lose(a) \/ Interfere(a)
    PROVE  LinkInv'
<1>1. UNCHANGED <<app, tx, rx, submitted, delivered>>
  BY DEF Lose, Interfere
<1>2. DOMAIN inbox = Node /\ \A n \in Node : QueueFits(inbox[n])
  BY DEF IInv, QueuesFit
<1>3. CASE Lose(a)
  <2>1. PICK i \in 1..Len(inbox[a]) : inbox' = [inbox EXCEPT ![a] = RemoveAt(@, i)]
    BY <1>3 DEF Lose
  <2>2. Thinned(RemoveAt(inbox[a], i), inbox[a])
    BY <1>2, ThinnedQueues
  <2>3. \A n \in Node : Thinned(inbox'[n], inbox[n])
    BY <1>2, <2>1, <2>2, ThinnedQueues
  <2> QED BY <1>1, <2>3, LinkDisturbed
<1>4. CASE Interfere(a)
  <2>1. PICK f \in Noise : inbox' = [inbox EXCEPT ![a] = Append(@, f)]
    BY <1>4 DEF Interfere
  <2>2. f.kind = "Foreign"
    BY DEF Orderly
  <2>3. \A n \in Node : \/ Thinned(inbox'[n], inbox[n])
                        \/ n = a /\ inbox'[n] = Append(inbox[n], f)
    BY <1>2, <2>1, ThinnedQueues
  <2>4. \A n \in Node : \/ Thinned(inbox'[n], inbox[n])
                        \/ \E h : h.kind = "Foreign" /\ inbox'[n] = Append(inbox[n], h)
    BY <2>2, <2>3
  <2> QED BY <1>1, <2>4, LinkDisturbed
<1> QED BY <1>3, <1>4

(* A new link.                                                             *)
LEMMA InitLink == Init => LinkInv
<1> SUFFICES ASSUME Init PROVE LinkInv
  OBVIOUS
<1>1. ASSUME NEW n \in Node
      PROVE  LinkAt(n, <<>>, NoMsg, TxIdle, <<>>, <<>>, RxNew, <<>>, 0)
  <2>1. /\ <<>> \in Seq(Msg) /\ <<>> \in Seq(Seq(Byte)) /\ Len(<<>>) = 0
        /\ \A i \in 1..0 : FALSE
    OBVIOUS
  <2>2. Story(<<>>, NoMsg, <<>>)
    BY <2>1 DEF Story
  <2>3. SessionOf(n, NoMsg, TxIdle, 0) /\ AnswersAre(n, TxIdle, <<>>)
    BY <2>1 DEF SessionOf, TxIdle, AnswersAre
  <2>4. SinglesAre(n, <<>>, NoMsg, <<>>, <<>>) /\ FirstIs(n, NoMsg, TxIdle, 0, <<>>, <<>>)
    BY <2>1 DEF SinglesAre, FirstIs
  <2>5. NothingOpen(TxIdle, <<>>, <<>>) /\ RxNew.state = "Idle"
    BY <2>1 DEF NothingOpen, NoCf, NoGrant, TxIdle, RxNew
  <2> QED BY <2>2, <2>3, <2>4, <2>5 DEF LinkAt
<1>2. ASSUME NEW n \in Node PROVE CleanQueue(inbox[n]) /\ OneWay(n)
  <2>1. Peer[n] \in Node
    BY Pairs
  <2>2. CleanQueue(inbox[n])
    BY DEF Init, CleanQueue
  <2>3. OneWay(n)
    BY <1>1, <2>1 DEF Init, OneWay, Link
  <2> QED BY <2>2, <2>3
<1> QED BY <1>2 DEF Init, LinkInv

(* Every step keeps the link in order.                                     *)
LEMMA NextLink ==
    ASSUME Orderly, IInv, LinkInv, [Next]_vars
    PROVE  LinkInv'
<1>1. ASSUME NEW n \in Node, SendTimesOut(n) PROVE LinkInv'
  BY <1>1 DEF SendTimesOut, Orderly
<1>2. ASSUME NEW n \in Node, PollRecv(n) PROVE LinkInv'
  BY <1>2, PollRecvLink
<1>3. CASE UNCHANGED vars
  BY <1>3 DEF vars, LinkInv, OneWay
<1> QED BY <1>1, <1>2, <1>3, SubmitLink, PollSendLink, BusLink, AdvanceLink DEF Next

(* Sender and receiver of each direction agree on the transfer between     *)
(* them, whatever frames are lost.                                         *)
THEOREM LinkKept ==
    ASSUME Orderly
    PROVE  Spec => [](IInv /\ LinkInv)
<1>1. Init => IInv /\ LinkInv
  BY InitIInv, InitLink
<1>2. IInv /\ LinkInv /\ [Next]_vars => (IInv /\ LinkInv)'
  BY NextIInv, NextLink
<1> QED BY <1>1, <1>2, PTL DEF Spec

(* Every payload handed to an application is one the peer sent.            *)
THEOREM Intact ==
    ASSUME Orderly
    PROVE  Spec => []DeliveredIntact
<1>1. LinkInv => DeliveredIntact
  <2> SUFFICES ASSUME LinkInv, NEW n \in Node, NEW d \in ToSet(delivered[n])
               PROVE  \E m \in ToSet(submitted[Peer[n]]) : d = Payload(m)
    BY DEF DeliveredIntact
  <2> DEFINE p == Peer[n]
  <2>1. p \in Node /\ Peer[p] = n
    BY Pairs
  <2>2. Story(submitted[p], app[p], delivered[n])
    BY <2>1 DEF LinkInv, OneWay, Link, LinkAt
  <2>3. PICK i \in 1..Len(delivered[n]) : d = delivered[n][i]
    <3>1. delivered[n] \in Seq(Seq(Byte))
      BY <2>2 DEF Story
    <3>2. DOMAIN delivered[n] = 1..Len(delivered[n])
      BY <3>1
    <3> QED BY <3>2 DEF ToSet
  <2>4. PICK x \in Msg : Contains(submitted[p], x) /\ delivered[n][i] = Payload(x)
    BY <2>2 DEF Story
  <2>5. x \in ToSet(submitted[p])
    BY <2>4 DEF Contains, ToSet
  <2> QED BY <2>3, <2>4, <2>5
<1> QED BY <1>1, LinkKept, PTL

-----------------------------------------------------------------------------
(* No more frames than a block.                                            *)

(* What is on its way to a receiver is of its transfer and of one block.   *)
LEMMA LinkWindow ==
    ASSUME NEW n \in Node, NEW S, NEW m, NEW t, NEW q, NEW g, NEW r, NEW D, NEW k \in Nat,
           LinkAt(n, S, m, t, q, g, r, D, k), Cfg[Peer[n]].block_size > 0, QueueFits(q)
    PROVE  Cardinality({i \in 1..Len(q) : q[i].kind = "CF"}) <= Cfg[Peer[n]].block_size
<1> DEFINE I == {i \in 1..Len(q) : q[i].kind = "CF"}
           b == Cfg[Peer[n]].block_size
<1>1. b \in Nat /\ b > 0 /\ Len(q) \in Nat
  <2>1. Peer[n] \in Node
    BY NodeAssumption
  <2> QED BY <2>1, CfgNumbers, QueueKept
<1>2. CASE r.state = "Idle"
  <2>1. NoCf(q)
    BY <1>2 DEF LinkAt, NothingOpen
  <2>2. I = {}
    BY <2>1 DEF NoCf
  <2>3. Cardinality({}) = 0 /\ 0 <= b
    BY <1>1, FS_EmptySet
  <2>4. Cardinality(I) = 0
    BY <2>2, <2>3
  <2> HIDE DEF b
  <2>5. Cardinality(I) <= b
    BY <2>3, <2>4
  <2> QED BY <2>5 DEF b
<1>3. CASE r.state # "Idle"
  <2>1. PICK x \in Msg, e \in Nat : Opened(n, S, m, t, q, g, r, D, k, x, e)
    BY <1>3 DEF LinkAt
  <2>2. r.block_size = b /\ r.block_remaining \in 1..b
    BY <1>1, <2>1 DEF Opened, OpenFor
  <2> DEFINE left == r.block_remaining
             Is(i, no) == Cf(n, q[i], x, no) /\ e <= no /\ no < e + left
             number == [i \in I |-> CHOOSE no \in Nat : Is(i, no)]
  <2>3. left \in Nat /\ left <= b
    BY <1>1, <2>2
  <2>4. \A i \in I : \E no \in Nat : Is(i, no)
    <3> SUFFICES ASSUME NEW i \in I PROVE \E no \in Nat : Is(i, no)
      OBVIOUS
    <3>1. PICK no \in Nat : Cf(n, q[i], x, no) /\ Continues(n, m, t, k, q, g, r, x, e, no)
      BY <2>1 DEF Opened, QueueFollows
    <3>2. e <= no /\ (no + 1 < e + left \/ no + 1 = e + left)
      BY <1>1, <2>2, <3>1 DEF Continues
    <3> HIDE DEF left
    <3>3. no < e + left
      BY <2>3, <3>2
    <3> QED BY <3>1, <3>2, <3>3
  <2>5. \A i, j \in I : i < j => \A u, v \in Nat : Cf(n, q[i], x, u) /\ Cf(n, q[j], x, v) => u < v
    BY <2>1 DEF Opened, QueueFollows
  <2>6. \A i \in I : i \in Nat
    BY <1>1
  <2> HIDE DEF left, I, b
  <2>7. \A i \in I : number[i] \in Nat /\ Is(i, number[i])
    <3> SUFFICES ASSUME NEW i \in I PROVE number[i] \in Nat /\ Is(i, number[i])
      OBVIOUS
    <3>1. \E no \in Nat : Is(i, no)
      BY <2>4
    <3> DEFINE v == CHOOSE no \in Nat : Is(i, no)
    <3>2. v \in Nat /\ Is(i, v)
      <4> HIDE DEF Is
      <4> QED BY <3>1
    <3>3. number[i] = v
      OBVIOUS
    <3> HIDE DEF v, number
    <3> QED BY <3>2, <3>3
  <2>8. number \in [I -> Nat]
    <3>1. number = [i \in I |-> number[i]]
      OBVIOUS
    <3> HIDE DEF number
    <3> QED BY <2>7, <3>1
  <2> HIDE DEF number
  <2>9. \A i \in I : e <= number[i] /\ number[i] < e + left
    BY <2>7
  <2>10. \A i, j \in I : number[i] = number[j] => i = j
    <3> SUFFICES ASSUME NEW i \in I, NEW j \in I, i < j, number[i] = number[j] PROVE FALSE
      BY <2>6
    <3>1. Cf(n, q[i], x, number[i]) /\ Cf(n, q[j], x, number[j])
          /\ number[i] \in Nat /\ number[j] \in Nat
      BY <2>7
    <3>2. number[i] < number[j]
      BY <2>5, <3>1
    <3> QED BY <3>1, <3>2
  <2>11. IsFiniteSet(I) /\ Cardinality(I) <= left
    BY <2>3, <2>8, <2>9, <2>10, WindowCounts
  <2>12. Cardinality(I) \in Nat
    BY <2>11, FS_CardinalityType
  <2>13. Cardinality(I) <= b
    BY <1>1, <2>3, <2>11, <2>12
  <2> QED BY <2>13 DEF I, b
<1> QED BY <1>2, <1>3

(* A driver queue of a block is enough.                                    *)
THEOREM Windowed ==
    ASSUME Orderly
    PROVE  Spec => []WindowRespected
<1>1. IInv /\ LinkInv => WindowRespected
  <2> SUFFICES ASSUME IInv, LinkInv, NEW n \in Node, Cfg[n].block_size > 0
               PROVE  Count(n, "CF") <= Cfg[n].block_size
    BY DEF WindowRespected
  <2> DEFINE p == Peer[n]
  <2>1. p \in Node /\ Peer[p] = n
    BY Pairs
  <2>2. PICK k \in Nat : LinkAt(p, submitted[p], app[p], tx[p], inbox[n], inbox[p],
                                rx[n], delivered[n], k)
    BY <2>1 DEF LinkInv, OneWay, Link
  <2>3. QueueFits(inbox[n])
    BY DEF IInv, QueuesFit
  <2> QED BY <2>1, <2>2, <2>3, LinkWindow DEF Count
<1> QED BY <1>1, LinkKept, PTL

-----------------------------------------------------------------------------
(* The channel of whole messages. *)

(* Payloads in place of messages.                                          *)
LEMMA PayloadsOf ==
    ASSUME NEW S \in Seq(Msg)
    PROVE  LET P == [i \in 1..Len(S) |-> Payload(S[i])]
           IN  /\ Len(P) = Len(S) /\ \A i \in 1..Len(S) : P[i] = Payload(S[i])
               /\ \A x \in Msg :
                     [i \in 1..Len(Append(S, x)) |-> Payload(Append(S, x)[i])]
                        = Append(P, Payload(x))
<1> DEFINE P == [i \in 1..Len(S) |-> Payload(S[i])]
           l == Len(S)
<1>1. l \in Nat /\ \A i \in 1..l : S[i] \in Msg
  OBVIOUS
<1>2. P \in [1..l -> {Payload(x) : x \in Msg}]
  BY <1>1
<1>3. P \in Seq({Payload(x) : x \in Msg}) /\ Len(P) = l /\ \A i \in 1..l : P[i] = Payload(S[i])
  <2>1. \A i \in 1..l : P[i] = Payload(S[i])
    OBVIOUS
  <2> HIDE DEF P, l
  <2> QED BY <1>1, <1>2, <2>1
<1>4. ASSUME NEW x \in Msg
      PROVE  [i \in 1..Len(Append(S, x)) |-> Payload(Append(S, x)[i])] = Append(P, Payload(x))
  <2> DEFINE A == Append(P, Payload(x))
             B == [i \in 1..Len(Append(S, x)) |-> Payload(Append(S, x)[i])]
  <2>1. Len(Append(S, x)) = l + 1 /\ \A i \in 1..(l + 1) :
            Append(S, x)[i] = IF i = l + 1 THEN x ELSE S[i]
    OBVIOUS
  <2> HIDE DEF P
  <2>2. /\ A \in Seq({Payload(y) : y \in Msg}) /\ Len(A) = l + 1
        /\ \A i \in 1..(l + 1) : A[i] = IF i = l + 1 THEN Payload(x) ELSE P[i]
    BY <1>3
  <2> HIDE DEF l
  <2>3. B = [i \in 1..(l + 1) |-> Payload(Append(S, x)[i])]
    BY <2>1
  <2>4. \A i \in 1..(l + 1) : Payload(Append(S, x)[i]) = A[i]
    <3> SUFFICES ASSUME NEW i \in 1..(l + 1) PROVE Payload(Append(S, x)[i]) = A[i]
      OBVIOUS
    <3>1. CASE i = l + 1
      BY <2>1, <2>2, <3>1
    <3>2. CASE i # l + 1
      <4>1. i \in 1..l
        BY <1>1, <3>2
      <4> QED BY <1>3, <2>1, <2>2, <3>2, <4>1
    <3> QED BY <3>1, <3>2
  <2> DEFINE T == {Payload(y) : y \in Msg}
  <2> HIDE DEF A, B, T
  <2>5. A = [i \in 1..(l + 1) |-> A[i]]
    <3>1. A \in Seq(T) /\ Len(A) = l + 1
      BY <2>2 DEF T
    <3>2. A \in [1..(l + 1) -> T]
      BY <3>1
    <3> QED BY <3>2
  <2>6. A = B
    BY <2>3, <2>4, <2>5
  <2> QED BY <2>6 DEF A, B
<1> QED BY <1>3, <1>4

PayloadsIn(S) == [i \in 1..Len(S) |-> Payload(S[i])]

SentOn == [n \in Node |-> PayloadsIn(submitted[n])]
GotOn == [n \in Node |-> delivered[Peer[n]]]

(* What poll_send starts with is sent once.                                *)
LEMMA SubmitSends ==
    ASSUME Orderly, LinkInv, NEW a \in Node, Submit(a)
    PROVE  Channel!Send(a)
<1>1. PICK x \in Msg : /\ ~Contains(submitted[a], x)
                       /\ submitted' = [submitted EXCEPT ![a] = Append(@, x)]
  BY DEF Submit
<1>2. DOMAIN submitted = Node /\ submitted[a] \in Seq(Msg)
  BY DEF LinkInv, OneWay, Link, LinkAt, Story
<1>3. /\ Len(PayloadsIn(submitted[a])) = Len(submitted[a])
      /\ \A i \in 1..Len(submitted[a]) : PayloadsIn(submitted[a])[i] = Payload(submitted[a][i])
      /\ PayloadsIn(Append(submitted[a], x)) = Append(PayloadsIn(submitted[a]), Payload(x))
  BY <1>2, PayloadsOf DEF PayloadsIn
<1>4. ~Channel!Occurs(SentOn[a], Payload(x))
  <2> SUFFICES ASSUME NEW i \in 1..Len(PayloadsIn(submitted[a])),
                      PayloadsIn(submitted[a])[i] = Payload(x)
               PROVE  FALSE
    BY DEF Channel!Occurs, SentOn
  <2>1. i \in 1..Len(submitted[a]) /\ Payload(submitted[a][i]) = Payload(x)
    BY <1>3
  <2>2. submitted[a][i] \in Msg
    BY <1>2, <2>1
  <2>3. submitted[a][i] = x
    BY <2>1, <2>2, PayloadsDiffer DEF Orderly
  <2> QED BY <1>1, <2>1, <2>3 DEF Contains
<1>5. SentOn' = [SentOn EXCEPT ![a] = Append(@, Payload(x))]
  <2>1. SentOn' = [n \in Node |-> PayloadsIn(submitted'[n])]
    BY DEF SentOn, PayloadsIn, Payload
  <2>2. \A n \in Node : PayloadsIn(submitted'[n]) =
            IF n = a THEN Append(PayloadsIn(submitted[a]), Payload(x)) ELSE PayloadsIn(submitted[n])
    BY <1>1, <1>2, <1>3
  <2> HIDE DEF PayloadsIn
  <2> QED BY <2>1, <2>2 DEF SentOn
<1>6. GotOn' = GotOn
  BY DEF Submit, GotOn
<1>7. Payload(x) \in {Payload(m) : m \in Msg}
  OBVIOUS
<1> QED BY <1>4, <1>5, <1>6, <1>7 DEF Channel!Send, SentOn, GotOn, PayloadsIn

(* What poll_recv delivers was sent, and neither it nor a later message    *)
(* was delivered before.                                                   *)
LEMMA NextDelivered ==
    ASSUME LinkInv, NEW a \in Node, NEW d, IsNext(submitted[Peer[a]], delivered[a], d),
           delivered' = [delivered EXCEPT ![a] = Append(@, d)], UNCHANGED submitted
    PROVE  Channel!Deliver(Peer[a])
<1> DEFINE p == Peer[a]
           S == submitted[p]
           P == PayloadsIn(S)
<1>1. p \in Node /\ Peer[p] = a
  BY Pairs
<1>2. S \in Seq(Msg) /\ DOMAIN delivered = Node
  BY <1>1 DEF LinkInv, OneWay, Link, LinkAt, Story
<1>3. PICK x \in Msg : Contains(S, x) /\ Fresh(S, delivered[a], x) /\ d = Payload(x)
  BY DEF IsNext
<1>4. PICK i \in 1..Len(S) : S[i] = x
  BY <1>3 DEF Contains
<1>5. Len(P) = Len(S) /\ \A j \in 1..Len(S) : P[j] = Payload(S[j])
  BY <1>2, PayloadsOf DEF PayloadsIn
<1>6. SentOn[p] = P /\ GotOn[p] = delivered[a]
  BY <1>1 DEF SentOn, GotOn
<1>7. UNCHANGED SentOn
  BY DEF SentOn, PayloadsIn, Payload
<1>8. GotOn' = [GotOn EXCEPT ![p] = Append(@, d)]
  <2>1. \A n \in Node : Peer[n] \in Node /\ (Peer[n] = a <=> n = p)
    BY NodeAssumption
  <2>2. \A n \in Node : delivered'[Peer[n]] =
            IF n = p THEN Append(delivered[a], d) ELSE delivered[Peer[n]]
    BY <1>1, <1>2, <2>1
  <2> QED BY <1>1, <2>2 DEF GotOn
<1> HIDE DEF S, P, p
<1>9. \A j \in i..Len(S) : ~Contains(delivered[a], P[j])
  <2> SUFFICES ASSUME NEW j \in i..Len(S) PROVE ~Contains(delivered[a], P[j])
    OBVIOUS
  <2>1. j \in 1..Len(S) /\ i <= j
    BY <1>2
  <2> QED BY <1>3, <1>4, <1>5, <2>1 DEF Fresh
<1>10. i \in 1..Len(SentOn[p]) /\ SentOn[p][i] = d
  BY <1>3, <1>4, <1>5, <1>6
<1>11. \A j \in i..Len(SentOn[p]) : ~Channel!Occurs(GotOn[p], SentOn[p][j])
  BY <1>5, <1>6, <1>9 DEF Contains, Channel!Occurs
<1> QED BY <1>7, <1>8, <1>10, <1>11 DEF Channel!Deliver, SentOn, GotOn, PayloadsIn, p

(* Every step is one of the channel, or none.                              *)
LEMMA ChannelSteps ==
    ASSUME Orderly, IInv, LinkInv, [Next]_vars
    PROVE  [Channel!Next]_(Channel!vars)
<1>1. UNCHANGED <<submitted, delivered>> => UNCHANGED Channel!vars
  BY DEF Channel!vars, Payload
<1>2. ASSUME NEW n \in Node, Submit(n) PROVE Channel!Next
  BY <1>2, SubmitSends DEF Channel!Next
<1>3. ASSUME NEW n \in Node, PollRecv(n), ~UNCHANGED delivered PROVE Channel!Next
  <2>1. UNCHANGED submitted /\ Peer[n] \in Node
    BY <1>3, Pairs DEF PollRecv
  <2>2. /\ IsNext(submitted[Peer[n]], delivered[n], rx'[n].content)
        /\ delivered' = [delivered EXCEPT ![n] = Append(@, rx'[n].content)]
    BY <1>3, PollRecvLink
  <2>3. Channel!Deliver(Peer[n])
    BY <2>1, <2>2, NextDelivered
  <2> QED BY <2>1, <2>3 DEF Channel!Next
<1>4. ASSUME NEW n \in Node, PollRecv(n) \/ PollSend(n) \/ SendTimesOut(n) \/ Lose(n) \/ Interfere(n)
      PROVE  UNCHANGED submitted /\ (~PollRecv(n) => UNCHANGED delivered)
  BY <1>4 DEF PollRecv, PollSend, SendTimesOut, Lose, Interfere
<1>5. CASE Advance \/ UNCHANGED vars
  BY <1>1, <1>5 DEF Advance, vars
<1> QED BY <1>1, <1>2, <1>3, <1>4, <1>5 DEF Next

(* poll_send and poll_recv over a link that loses frames are a channel     *)
(* that loses messages: whole, in order, at most once.                     *)
THEOREM LinkIsChannel ==
    ASSUME Orderly
    PROVE  Spec => ImplementsChannel
<1>1. Init => Channel!Init
  <2> SUFFICES ASSUME Init PROVE Channel!Init
    OBVIOUS
  <2>1. \A n \in Node : PayloadsIn(submitted[n]) = <<>> /\ delivered[Peer[n]] = <<>>
    <3>1. \A n \in Node : Peer[n] \in Node
      BY NodeAssumption
    <3>2. \A n \in Node : submitted[n] = <<>>
      BY DEF Init
    <3>3. PayloadsIn(<<>>) = <<>>
      BY DEF PayloadsIn
    <3> QED BY <3>1, <3>2, <3>3 DEF Init
  <2> QED BY <2>1 DEF Channel!Init, PayloadsIn
<1>2. IInv /\ LinkInv /\ [Next]_vars => [Channel!Next]_(Channel!vars)
  BY ChannelSteps
<1> QED BY <1>1, <1>2, LinkKept, PTL DEF Spec, ImplementsChannel, Channel!Spec

-----------------------------------------------------------------------------
(* Both ends agree where a block ends, if nothing is lost. *)

(* Asked for no blocks, n makes none of its own. *)
AddsNoBlocks(n) == Cfg[Peer[n]].block_size = 0 => Cfg[n].block_size = 0

(* Nothing is lost, nobody reads while sending, and no sender that is      *)
(* asked for no blocks makes its own.                                      *)
Steady ==
    /\ Orderly /\ ~Lossy /\ ~Superloop
    /\ \A x \in Msg : AddsNoBlocks(Source[x])

-----------------------------------------------------------------------------
(* A session and what its peer makes of it. *)

(* The peer lacks d frames of the session t, all of which are in q. *)
Row(n, q, r, t, d) ==
    /\ r.state = "Receiving"
    /\ r.expected_len = t.session.payload_len
    /\ Len(r.content) + d * max_consecutive_frame_payload(Cfg[n]) = t.session.offset
    /\ Numbered(q, d, r.next_sn, t.session.next_sn, max_consecutive_frame_payload(Cfg[n]))

(* The sender sends up to the frame at which the peer answers, or waits    *)
(* for that answer.                                                        *)
Blocks(r, t, d) ==
    IF r.block_size = 0 THEN t.state = "Sending" /\ t.session.block_size = 0
    ELSE r.block_remaining = d + IF t.state = "Sending" THEN t.session.block_remaining ELSE 0

(* Nothing but the First Frame is out. *)
Begins(n, t) ==
    t.state = "WaitingForFc" /\ t.session.offset = At(n, 0) /\ t.session.next_sn = 1

Paired(n, t, q, g, r) ==
    t.state # "Idle" =>
        IF NoGrant(g) THEN Begins(n, t) \/ \E d \in Nat : Row(n, q, r, t, d) /\ Blocks(r, t, d)
        ELSE r.next_sn = t.session.next_sn

(* A grant is on its way only to a sender that waits.                      *)
LEMMA GrantAwaited ==
    ASSUME NEW n \in Node, NEW S, NEW m, NEW t, NEW q, NEW g, NEW r, NEW D, NEW k \in Nat,
           LinkAt(n, S, m, t, q, g, r, D, k), t.state # "WaitingForFc"
    PROVE  NoGrant(g)
<1>1. CASE r.state = "Idle"
  BY <1>1 DEF LinkAt, NothingOpen
<1>2. CASE r.state # "Idle"
  <2>1. PICK x \in Msg, e \in Nat : OpenFor(n, S, m, t, r, D, x, e)
    BY <1>2 DEF LinkAt, Opened
  <2>2. Fitting(n)
    BY <2>1, OpenFits
  <2> QED BY <2>2 DEF LinkAt, AnswersAre, NoGrant, Waits
<1> QED BY <1>1, <1>2

(* One that is, is for the frame the session has come to.                  *)
LEMMA GrantOf ==
    ASSUME NEW n \in Node, NEW S, NEW m, NEW t, NEW q, NEW g, NEW r, NEW D, NEW k \in Nat,
           LinkAt(n, S, m, t, q, g, r, D, k), ~NoGrant(g),
           t.session.offset < t.session.payload_len
    PROVE  /\ t.state # "Idle" /\ r.state # "Idle" /\ NoCf(q)
           /\ r.expected_len = t.session.payload_len /\ Len(r.content) = t.session.offset
           /\ r.block_size = Cfg[Peer[n]].block_size
           /\ r.block_size > 0 => r.block_remaining = r.block_size
<1>1. t.state # "Idle"
  BY GrantAwaited
<1>2. r.state # "Idle"
  BY DEF LinkAt, NothingOpen
<1>3. PICK x \in Msg, e \in Nat : Opened(n, S, m, t, q, g, r, D, k, x, e)
  BY <1>2 DEF LinkAt
<1>4. /\ OpenFor(n, S, m, t, r, D, x, e)
      /\ QueueFollows(n, S, m, t, k, q, g, r, x, e)
      /\ m = x /\ e = k /\ r.content = Prefix(n, x, e)
      /\ r.block_size > 0 => r.block_remaining = r.block_size
  BY <1>3 DEF Opened, SenderFollows
<1>5. t.session.payload_len = Length[m] /\ t.session.offset = At(n, k)
  BY <1>1 DEF LinkAt, SessionOf
<1>6. NoCf(q)
  <2> SUFFICES ASSUME NEW j \in 1..Len(q), q[j].kind = "CF" PROVE FALSE
    BY DEF NoCf
  <2>1. PICK no \in Nat : Continues(n, m, t, k, q, g, r, x, e, no)
    BY <1>4 DEF QueueFollows
  <2>2. e <= no /\ no < k
    BY <1>4, <2>1 DEF Continues
  <2> QED BY <1>4, <2>2
<1>7. Len(r.content) = At(n, k)
  <2> DEFINE u == At(n, k)
             p == Payload(x)
  <2>1. p \in Seq(Byte) /\ Len(p) = Length[x] /\ Length[x] \in Nat /\ u \in Nat
    BY PayloadByte, Steps
  <2>2. u < Length[x]
    BY <1>4, <1>5
  <2>3. r.content = SubSeq(p, 1, u)
    BY <1>4 DEF Prefix
  <2> HIDE DEF u, p
  <2>4. u \in 0..Len(p)
    BY <2>1, <2>2
  <2>5. Len(SubSeq(p, 1, u)) = u
    BY <2>1, <2>4, PrefixOf
  <2> QED BY <2>3, <2>5 DEF u
<1> QED BY <1>1, <1>2, <1>4, <1>5, <1>6, <1>7 DEF OpenFor

(* The number of the next frame, and the length of all but the last.       *)
LEMMA FrameNumbered ==
    ASSUME NEW n \in Node, NEW x \in Msg, NEW s \in Session, NEW k \in Nat,
           s.offset = At(n, k), s.payload_len = Length[x], At(n, k + 1) < Length[x]
    PROVE  LET f == NextFrame(Cfg[n], s, Payload(x))
               t == AfterFrame(Cfg[n], s, Payload(x))
           IN  /\ f.kind = "CF" /\ f.sn = s.next_sn
               /\ Len(f.data) = max_consecutive_frame_payload(Cfg[n])
               /\ t.session.next_sn = NextSn(s.next_sn)
<1> DEFINE c == Cfg[n]
           p == Payload(x)
           chunk == NextChunk(c, s, p)
           f == NextFrame(c, s, p)
           t == AfterFrame(c, s, p)
           u == At(n, k)
           v == At(n, k + 1)
           l == Length[x]
           w == max_consecutive_frame_payload(c)
           data == Padded(c, chunk)
<1>1. u \in Nat /\ v = u + w /\ w \in Nat /\ l \in Nat /\ v < l /\ u < l
  <2>1. u \in Nat /\ v = u + w /\ w \in Nat /\ l \in Nat
    BY Steps, PayloadByte
  <2>2. v < l
    OBVIOUS
  <2> HIDE DEF u, v, w, l
  <2> QED BY <2>1, <2>2
<1>2. s.next_sn \in 0..(SnMod - 1) /\ DOMAIN s = SessionFields
  BY DEF Session, SessionFields
<1>3. p \in Seq(Byte) /\ Len(p) = l /\ SessionAt(s, u, Len(p)) /\ c.frame_len \in Nat
  BY <1>2, PayloadByte, CfgNumbers DEF SessionAt
<1> HIDE DEF p, u, l, v, w, c, chunk
<1>4. Reach(c, u, l) = v
  BY <1>1 DEF Reach, Lesser, w
<1>5. chunk \in Seq(Byte) /\ Len(chunk) = w
  <2>1. NextChunk(c, s, p) \in Seq(Byte) /\ Len(NextChunk(c, s, p)) = Reach(c, u, Len(p)) - u
    BY <1>1, <1>3, ChunkReach
  <2> QED BY <1>1, <1>3, <1>4, <2>1 DEF chunk
<1>6. Len(data) = w
  <2>1. Len(data) \in Len(chunk)..w
    BY <1>1, <1>5, PaddedFits DEF c, w
  <2> QED BY <1>1, <1>5, <2>1
<1>7. f = ConsecutiveFrame(s.next_sn % SnMod, data)
  BY DEF NextFrame, chunk
<1>8. f.kind = "CF" /\ f.sn = s.next_sn /\ f.data = data
  BY <1>2, <1>7, NextSnFits DEF ConsecutiveFrame
<1> DEFINE sent == [s EXCEPT !.offset = @ + Len(chunk), !.next_sn = NextSn(@)]
           left == Saturating(s.block_remaining, 1)
           full == [sent EXCEPT !.block_remaining = s.block_size]
           less == [sent EXCEPT !.block_remaining = left]
<1>9. /\ sent.next_sn = NextSn(s.next_sn) /\ sent.offset = s.offset + Len(chunk)
      /\ DOMAIN sent = SessionFields
  BY <1>2 DEF SessionFields
<1>10. t = IF sent.offset >= s.payload_len THEN TxIdle
           ELSE IF s.block_size = 0 THEN Sending(sent, Timer(s.st_min))
           ELSE IF left = 0 THEN WaitingForFc(full, Timer(c.n_bs))
           ELSE Sending(less, Timer(s.st_min))
  BY DEF AfterFrame, chunk
<1> HIDE DEF sent, left, t, f, data
<1>11. full.next_sn = sent.next_sn /\ less.next_sn = sent.next_sn
  BY <1>9 DEF SessionFields
<1> HIDE DEF full, less
<1>12. ~(sent.offset >= s.payload_len)
  <2>1. s.offset = u /\ s.payload_len = l
    BY DEF u, l
  <2> QED BY <1>1, <1>5, <1>9, <2>1
<1>13. t.session \in {sent, full, less}
  <2>1. CASE s.block_size = 0
    BY <1>10, <1>12, <2>1 DEF Sending
  <2>2. CASE s.block_size # 0 /\ left = 0
    BY <1>10, <1>12, <2>2 DEF WaitingForFc
  <2>3. CASE s.block_size # 0 /\ left # 0
    BY <1>10, <1>12, <2>3 DEF Sending
  <2> QED BY <2>1, <2>2, <2>3
<1>14. t.session.next_sn = NextSn(s.next_sn)
  BY <1>9, <1>11, <1>13
<1> QED BY <1>6, <1>8, <1>14 DEF t, f, w, c, p

(* start_send, First Frame.                                                *)
LEMMA PairedFirst ==
    ASSUME NEW n \in Node, NEW S, NEW m, NEW t, NEW q, NEW g, NEW r, NEW D, NEW k \in Nat,
           LinkAt(n, S, m, t, q, g, r, D, k), t.state = "Idle", NEW x, NEW timer, NEW q2
    PROVE  Paired(n, WaitingForFc(NewSession(Cfg[n], Payload(x)), timer), q2, g, r)
<1> DEFINE t2 == WaitingForFc(NewSession(Cfg[n], Payload(x)), timer)
<1>1. NoGrant(g)
  BY GrantAwaited
<1>2. /\ t2.state = "WaitingForFc" /\ t2.session.next_sn = 1
      /\ t2.session.offset = max_first_frame_payload(Cfg[n])
  BY DEF WaitingForFc, NewSession
<1>3. Begins(n, t2)
  BY <1>2, Steps DEF Begins
<1> QED BY <1>1, <1>3 DEF Paired

(* continue_send.                                                          *)
LEMMA PairedSent ==
    ASSUME NEW n \in Node, NEW S, NEW m \in Msg, NEW t, NEW q, NEW g, NEW r, NEW D,
           NEW k \in Nat, LinkAt(n, S, m, t, q, g, r, D, k),
           t.state = "Sending", t.session \in Session, t.session.offset < t.session.payload_len,
           QueueFits(q), RxFits(r), Paired(n, t, q, g, r)
    PROVE  Paired(n, AfterFrame(Cfg[n], t.session, Payload(m)),
                  Append(q, NextFrame(Cfg[n], t.session, Payload(m))), g, r)
<1> DEFINE s == t.session
           f == NextFrame(Cfg[n], s, Payload(m))
           t2 == AfterFrame(Cfg[n], s, Payload(m))
           q2 == Append(q, f)
           w == max_consecutive_frame_payload(Cfg[n])
<1>1. NoGrant(g)
  BY GrantAwaited
<1>2. PICK d \in Nat : Row(n, q, r, t, d) /\ Blocks(r, t, d)
  BY <1>1 DEF Paired, Begins
<1>3. /\ s.payload_len = Length[m] /\ s.offset = At(n, k) /\ At(n, k) < Length[m]
  BY DEF LinkAt, SessionOf
<1>4. r.block_size > 0 => s.block_size = r.block_size /\ s.block_remaining > 0
  <2>1. r.state # "Idle"
    BY <1>2 DEF Row
  <2>2. PICK x \in Msg, e \in Nat : SenderFollows(n, m, t, k, g, r, x, e)
    BY <2>1 DEF LinkAt, Opened
  <2> QED BY <2>2 DEF SenderFollows
<1>5. /\ At(n, k + 1) = At(n, k) + w /\ At(n, k) \in Nat /\ w \in Nat /\ Length[m] \in Nat
      /\ s.block_remaining \in Nat /\ s.block_size \in Nat /\ r.block_size \in Nat
      /\ Len(r.content) \in Nat
  <2>1. At(n, k + 1) = At(n, k) + w /\ At(n, k) \in Nat /\ w \in Nat /\ Length[m] \in Nat
    BY Steps, PayloadByte
  <2>2. s.block_remaining \in Nat /\ s.block_size \in Nat
    BY DEF Session
  <2>3. r.block_size \in Nat /\ r.content \in Seq(Byte)
    BY DEF RxFits
  <2> QED BY <2>1, <2>2, <2>3
<1>6. /\ At(n, k + 1) >= Length[m] => t2 = TxIdle
      /\ At(n, k + 1) < Length[m] =>
            /\ t2.session.payload_len = Length[m]
            /\ t2.session.offset = At(n, k + 1)
            /\ t2.session.block_size = s.block_size
            /\ IF s.block_size # 0 /\ s.block_remaining <= 1
               THEN t2.state = "WaitingForFc"
               ELSE /\ t2.state = "Sending"
                    /\ s.block_size # 0 => t2.session.block_remaining = s.block_remaining - 1
  BY <1>3, AfterFrameAt
<1>7. /\ Row(n, q, r, t, d) <=>
           /\ r.state = "Receiving" /\ r.expected_len = s.payload_len
           /\ Len(r.content) + d * w = s.offset
           /\ Numbered(q, d, r.next_sn, s.next_sn, w)
      /\ Row(n, q2, r, t2, d + 1) <=>
           /\ r.state = "Receiving" /\ r.expected_len = t2.session.payload_len
           /\ Len(r.content) + (d + 1) * w = t2.session.offset
           /\ Numbered(q2, d + 1, r.next_sn, t2.session.next_sn, w)
  BY DEF Row
<1>8. At(n, k + 1) < Length[m] =>
         /\ f.kind = "CF" /\ f.sn = s.next_sn /\ Len(f.data) = w
         /\ t2.session.next_sn = NextSn(s.next_sn)
  BY <1>3, FrameNumbered
<1> HIDE DEF t2, f, w, s
<1>9. CASE At(n, k + 1) >= Length[m]
  BY <1>6, <1>9 DEF Paired, TxIdle, t2, s
<1>10. CASE At(n, k + 1) < Length[m]
  <2>1. Numbered(q2, d + 1, r.next_sn, t2.session.next_sn, w)
    BY <1>2, <1>7, <1>8, <1>10, QueueIs, NumberedGrows
  <2>2. Len(r.content) + (d + 1) * w = At(n, k + 1)
    <3>1. (d + 1) * w = d * w + w /\ d * w \in Nat
      BY <1>5, Multiples
    <3>2. Len(r.content) + d * w = At(n, k)
      BY <1>2, <1>3, <1>7
    <3> DEFINE y == d * w
               z == (d + 1) * w
               b == Len(r.content)
    <3>3. b \in Nat /\ y \in Nat /\ w \in Nat /\ z = y + w
      BY <1>5, <3>1
    <3> HIDE DEF y, z, b
    <3>4. b + z = (b + y) + w
      BY <3>3
    <3> QED BY <1>5, <3>2, <3>4 DEF y, z, b
  <2>3. Row(n, q2, r, t2, d + 1)
    BY <1>2, <1>3, <1>6, <1>7, <1>10, <2>1, <2>2
  <2>4. Blocks(r, t2, d + 1)
    <3>1. CASE r.block_size = 0
      <4>1. s.block_size = 0
        BY <1>2, <3>1 DEF Blocks, s
      <4>2. t2.state = "Sending" /\ t2.session.block_size = 0
        BY <1>6, <1>10, <4>1
      <4> QED BY <3>1, <4>2 DEF Blocks
    <3>2. CASE r.block_size # 0
      <4>1. r.block_remaining = d + s.block_remaining
        BY <1>2, <3>2 DEF Blocks, s
      <4>2. s.block_size # 0 /\ s.block_remaining > 0
        BY <1>4, <1>5, <3>2 DEF s
      <4>3. CASE s.block_remaining <= 1
        <5>1. s.block_remaining = 1 /\ t2.state = "WaitingForFc"
          BY <1>5, <1>6, <1>10, <4>2, <4>3
        <5>2. r.block_remaining = d + 1 + 0
          BY <4>1, <5>1
        <5> QED BY <3>2, <5>1, <5>2 DEF Blocks
      <4>4. CASE ~(s.block_remaining <= 1)
        <5>1. t2.state = "Sending" /\ t2.session.block_remaining = s.block_remaining - 1
          BY <1>6, <1>10, <4>2, <4>4
        <5>2. r.block_remaining = d + 1 + t2.session.block_remaining
          BY <1>5, <4>1, <5>1
        <5> QED BY <3>2, <5>1, <5>2 DEF Blocks
      <4> QED BY <4>3, <4>4
    <3> QED BY <3>1, <3>2
  <2>5. d + 1 \in Nat
    OBVIOUS
  <2>6. Paired(n, t2, q2, g, r)
    BY <1>1, <2>3, <2>4, <2>5 DEF Paired
  <2> QED BY <2>6 DEF t2, f, s
<1> QED BY <1>5, <1>9, <1>10

(* continue_wait_for_fc: the session goes on where its peer has come to.   *)
LEMMA PairedCleared ==
    ASSUME NEW n \in Node, AddsNoBlocks(n), NEW S, NEW m, NEW t, NEW q, NEW g, NEW r, NEW D,
           NEW k \in Nat, LinkAt(n, S, m, t, q, g, r, D, k), Paired(n, t, q, g, r),
           QueueFits(g), QueueFits(q), RxFits(r), t.session \in Session,
           t.session.offset < t.session.payload_len,
           NEW i \in 1..Len(g), g[i].kind = "FC", g[i].status = "ClearToSend", NEW timer
    PROVE  Paired(n, Sending(Cleared(Cfg[n], t.session, g[i]), timer), q, After(g, i), r)
<1> DEFINE s == Cleared(Cfg[n], t.session, g[i])
           t2 == Sending(s, timer)
           g2 == After(g, i)
           w == max_consecutive_frame_payload(Cfg[n])
           own == Cfg[n].block_size
           his == Cfg[Peer[n]].block_size
<1>1. ~NoGrant(g)
  BY DEF NoGrant
<1>2. /\ t.state # "Idle" /\ r.state # "Idle" /\ NoCf(q)
      /\ r.expected_len = t.session.payload_len /\ Len(r.content) = t.session.offset
      /\ r.block_size = his
      /\ r.block_size > 0 => r.block_remaining = r.block_size
  BY <1>1, GrantOf
<1>3. r.next_sn = t.session.next_sn
  BY <1>1, <1>2 DEF Paired
<1>4. t2.state = "Sending" /\ t2.session = s
  BY DEF Sending
<1>5. NoGrant(g2)
  <2>1. LinkAt(n, S, m, t2, q, g2, r, D, k)
    BY LinkCleared
  <2> HIDE DEF t2, g2
  <2>2. t2.state # "WaitingForFc"
    BY <1>4
  <2> QED BY <2>1, <2>2, GrantAwaited
<1>6. g[i].block_size = his
  BY DEF LinkAt, AnswersAre
<1>7. own \in Nat /\ his \in Nat /\ (his = 0 => own = 0)
  BY Pairs, CfgNumbers DEF AddsNoBlocks
<1>8. /\ s.payload_len = t.session.payload_len /\ s.offset = t.session.offset
      /\ s.next_sn = t.session.next_sn
      /\ s.block_size = IF his = 0 THEN own ELSE his
      /\ s.block_remaining = IF his = 0 THEN own ELSE his
  BY <1>6 DEF Cleared, Session
<1> HIDE DEF s, t2, g2, own, his
<1>9. Numbered(q, 0, r.next_sn, s.next_sn, w)
  <2>1. Len(q) \in Nat /\ r.next_sn \in 0..(SnMod - 1)
    BY QueueKept DEF RxFits
  <2> QED BY <1>2, <1>3, <1>8, <2>1, NoneNumbered
<1>10. Len(r.content) + 0 * w = s.offset
  <2>1. w \in Nat /\ Len(r.content) \in Nat
    <3>1. r.content \in Seq(Byte)
      BY DEF RxFits
    <3>2. w \in Nat
      BY Steps
    <3> QED BY <3>1, <3>2
  <2>2. 0 * w = 0
    BY <2>1, Multiples
  <2> HIDE DEF w
  <2> QED BY <1>2, <1>8, <2>1, <2>2
<1>11. r.state = "Receiving"
  BY <1>2 DEF RxFits
<1>12. Row(n, q, r, t2, 0)
  BY <1>2, <1>4, <1>8, <1>9, <1>10, <1>11 DEF Row
<1>13. Blocks(r, t2, 0)
  <2>1. CASE his = 0
    BY <1>2, <1>4, <1>7, <1>8, <2>1 DEF Blocks
  <2>2. CASE his # 0
    <3>1. r.block_size # 0 /\ r.block_remaining = his
      BY <1>2, <1>7, <2>2
    <3>2. t2.state = "Sending" /\ t2.session.block_remaining = his
      BY <1>4, <1>8, <2>2
    <3> QED BY <1>7, <3>1, <3>2 DEF Blocks
  <2> QED BY <2>1, <2>2
<1>14. Paired(n, t2, q, g2, r)
  BY <1>5, <1>12, <1>13 DEF Paired
<1> QED BY <1>14 DEF t2, s, g2

(* Time passes.                                                            *)
LEMMA PairedTick ==
    ASSUME NEW n, NEW t, TxFits(t), NEW q, NEW g, NEW r, Paired(n, t, q, g, r)
    PROVE  Paired(n, Later(t), q, g, r)
<1> DEFINE t2 == Later(t)
<1>1. t2.state = t.state /\ (t.state # "Idle" => t2.session = t.session)
  BY DEF TxFits, Later, TxIdle
<1> HIDE DEF t2
<1>2. t.state # "Idle" => /\ Begins(n, t2) <=> Begins(n, t)
                          /\ \A d : Row(n, q, r, t2, d) <=> Row(n, q, r, t, d)
                          /\ \A d : Blocks(r, t2, d) <=> Blocks(r, t, d)
  BY <1>1 DEF Begins, Row, Blocks
<1>3. Paired(n, t2, q, g, r)
  BY <1>1, <1>2 DEF Paired
<1> QED BY <1>3 DEF t2

(* Frames without data, and answers that grant nothing, come and go.       *)
LEMMA PairedAside ==
    ASSUME NEW n, NEW t, NEW q, QueueFits(q), NEW g, NEW r, Paired(n, t, q, g, r),
           NEW q2, NEW g2, NoGrant(g2) <=> NoGrant(g),
           q2 = q \/ \E f : f.kind # "CF" /\ q2 = Append(q, f)
    PROVE  Paired(n, t, q2, g2, r)
<1>1. ASSUME NEW d \in Nat, Row(n, q, r, t, d) PROVE Row(n, q2, r, t, d)
  BY <1>1, QueueIs, NumberedApart DEF Row
<1> QED BY <1>1 DEF Paired

(* A Consecutive Frame in sequence that does not complete the payload.     *)
LEMMA ConsecutiveTaken ==
    ASSUME NEW c, NEW r, RxFits(r), r.state = "Receiving", NEW f, f.data \in Seq(Byte),
           NEW w, Len(f.data) = w, f.sn = r.next_sn,
           Len(r.content) + w < r.expected_len,
           r.expected_len <= c.capacity, c.capacity \in Nat,
           r.block_size > 0 => r.block_remaining \in Nat \ {0}
    PROVE  LET u == handle_consecutive(c, r, f)
           IN  /\ u.rx.state = "Receiving" /\ u.rx.expected_len = r.expected_len
               /\ Len(u.rx.content) = Len(r.content) + w
               /\ u.rx.next_sn = NextSn(r.next_sn)
               /\ u.rx.block_size = r.block_size
               /\ IF r.block_size > 0 /\ r.block_remaining = 1 THEN u.out = "SendFlowControl"
                  ELSE /\ u.out = "None"
                       /\ r.block_size > 0 => u.rx.block_remaining = r.block_remaining - 1
<1> DEFINE e2 == Extended(r, f.data)
           all == r.content \o Chunk(r, f.data)
           u == handle_consecutive(c, r, f)
           left == Saturating(e2.block_remaining, 1)
           h == Len(r.content)
<1>1. /\ DOMAIN r = RxFields /\ r.content \in Seq(Byte) /\ r.expected_len \in Nat
      /\ r.block_size \in Nat /\ h \in Nat /\ w \in Nat
  BY DEF RxFits
<1>2. Chunk(r, f.data) = f.data
  <2>1. Lesser(w, r.expected_len - h) = w
    <3> HIDE DEF h
    <3>1. h + w < r.expected_len
      BY DEF h
    <3> QED BY <1>1, <3>1 DEF Lesser
  <2>2. SubSeq(f.data, 1, Len(f.data)) = f.data
    OBVIOUS
  <2> QED BY <2>1, <2>2 DEF Chunk
<1>3. all \in Seq(Byte) /\ Len(all) = h + w
  <2>1. all = r.content \o f.data
    BY <1>2
  <2> HIDE DEF all
  <2> QED BY <1>1, <2>1, ConcatProperties
<1>4. /\ e2.state = "Receiving" /\ e2.content = all /\ e2.expected_len = r.expected_len
      /\ e2.next_sn = NextSn(r.next_sn)
      /\ e2.block_size = r.block_size /\ e2.block_remaining = r.block_remaining
      /\ DOMAIN e2 = RxFields
  BY <1>1 DEF Extended, RxFields
<1> HIDE DEF e2, all, h
<1>5. h + w < r.expected_len /\ h = Len(r.content)
  BY DEF h
<1>6. ~(h >= r.expected_len) /\ ~(Len(all) > c.capacity) /\ ~(Len(all) >= r.expected_len)
  BY <1>1, <1>3, <1>5
<1>7. u = AfterChunk(e2)
  BY <1>5, <1>6 DEF handle_consecutive, e2, all
<1>8. u = IF e2.block_size = 0 THEN Returns(e2, "None")
          ELSE IF left = 0 THEN Returns(Reloaded(e2), "SendFlowControl")
          ELSE Returns([e2 EXCEPT !.block_remaining = left], "None")
  BY <1>4, <1>6, <1>7 DEF AfterChunk
<1> HIDE DEF u
<1>9. CASE r.block_size = 0
  <2>1. u.rx = e2 /\ u.out = "None"
    BY <1>4, <1>8, <1>9 DEF Returns
  <2> QED BY <1>3, <1>4, <1>5, <1>9, <2>1 DEF u
<1>10. CASE r.block_size # 0 /\ r.block_remaining = 1
  <2> DEFINE r2 == Reloaded(e2)
  <2>1. u.rx = r2 /\ u.out = "SendFlowControl"
    BY <1>4, <1>8, <1>10 DEF Returns, Saturating
  <2>2. /\ r2.state = "Receiving" /\ r2.content = all /\ r2.expected_len = r.expected_len
        /\ r2.next_sn = NextSn(r.next_sn) /\ r2.block_size = r.block_size
    BY <1>4 DEF Reloaded, RxFields
  <2> HIDE DEF r2
  <2>3. r.block_size > 0
    BY <1>1, <1>10
  <2> QED BY <1>3, <1>5, <1>10, <2>1, <2>2, <2>3 DEF u
<1>11. CASE r.block_size # 0 /\ r.block_remaining # 1
  <2> DEFINE r2 == [e2 EXCEPT !.block_remaining = left]
  <2>1. r.block_size > 0 /\ r.block_remaining \in Nat /\ r.block_remaining > 1
    BY <1>1, <1>11
  <2>2. left = r.block_remaining - 1 /\ left # 0
    BY <1>4, <2>1 DEF Saturating
  <2> HIDE DEF left
  <2>3. u.rx = r2 /\ u.out = "None"
    BY <1>4, <1>8, <1>11, <2>2 DEF Returns
  <2>4. /\ r2.state = "Receiving" /\ r2.content = all /\ r2.expected_len = r.expected_len
        /\ r2.next_sn = NextSn(r.next_sn) /\ r2.block_size = r.block_size
        /\ r2.block_remaining = left
    BY <1>4 DEF RxFields
  <2> HIDE DEF r2
  <2> QED BY <1>3, <1>5, <1>11, <2>2, <2>3, <2>4 DEF u
<1> QED BY <1>9, <1>10, <1>11

(* A grant answers a First Frame or ends a block of the session that is on. *)
LEMMA NoStrayGrant ==
    ASSUME NEW n \in Node, NEW S, NEW m, NEW t, NEW q, NEW g, NEW r, NEW D, NEW k \in Nat,
           LinkAt(n, S, m, t, q, g, r, D, k), RxFits(r), QueueFits(q), r.state = "Receiving",
           NEW i \in 1..Len(q), q[i].kind = "CF",
           handle_consecutive(Cfg[Peer[n]], r, q[i]).out = "SendFlowControl"
    PROVE  k # 0
<1> DEFINE c == Cfg[Peer[n]]
           f == q[i]
           e2 == Extended(r, f.data)
           all == r.content \o Chunk(r, f.data)
           u == handle_consecutive(c, r, f)
<1>1. DOMAIN r = RxFields /\ r.content \in Seq(Byte) /\ r.expected_len \in Nat /\ r.block_size \in Nat
  BY DEF RxFits
<1>2. PICK x \in Msg, e \in Nat, no \in Nat : ComesNext(n, S, m, t, q, g, r, D, k, i, x, e, no)
  BY <1>1, NextHeard
<1>3. /\ OpenFor(n, S, m, t, r, D, x, e) /\ Continues(n, m, t, k, q, g, r, x, e, no)
      /\ r.expected_len = Length[x] /\ Heard(n, x, e, no, r.content, all)
  BY <1>2 DEF ComesNext, Opened
<1>4. /\ e2.content = all /\ e2.expected_len = r.expected_len
      /\ e2.block_size = r.block_size /\ e2.block_remaining = r.block_remaining
  BY <1>1 DEF Extended, RxFields
<1> HIDE DEF e2, all
<1>5. u = AfterChunk(e2)
  BY DEF handle_consecutive, Returns, e2, all
<1>6. /\ ~(Len(all) >= r.expected_len) /\ r.block_size # 0
      /\ Saturating(r.block_remaining, 1) = 0
  BY <1>4, <1>5 DEF AfterChunk, Returns
<1>7. r.block_size > 0 /\ r.block_remaining = 1
  <2>1. r.block_size > 0
    BY <1>1, <1>6
  <2>2. r.block_remaining \in 1..r.block_size
    BY <1>3, <2>1 DEF OpenFor
  <2> QED BY <1>1, <1>6, <2>1, <2>2 DEF Saturating
<1>8. no = e /\ EndsBlock(n, m, t, k, q, g, x, no) /\ r.content = Prefix(n, x, e)
  BY <1>3, <1>7 DEF Continues
<1>9. ~(At(n, no + 1) >= Length[x])
  <2> DEFINE v == At(n, no + 1)
             l == Length[x]
             h == Len(all)
  <2>1. v \in Nat /\ l \in Nat
    <3>1. no + 1 \in Nat
      OBVIOUS
    <3> QED BY <3>1, Steps, PayloadByte
  <2>2. h = Lesser(v, l)
    BY <1>3, <1>8 DEF Heard
  <2>3. ~(h >= l)
    BY <1>3, <1>6
  <2> HIDE DEF v, l, h
  <2>4. ~(v >= l)
    BY <2>1, <2>2, <2>3 DEF Lesser
  <2> QED BY <2>4 DEF v, l
<1> QED BY <1>8, <1>9 DEF EndsBlock

(* While a transfer is open no Consecutive Frame is unexpected.            *)
LEMMA RefusesNone ==
    ASSUME NEW c, NEW r, r.state = "Receiving", NEW f
    PROVE  handle_consecutive(c, r, f).out # "UnexpectedPdu"
<1> DEFINE e2 == Extended(r, f.data)
           left == Saturating(e2.block_remaining, 1)
<1>1. AfterChunk(e2).out # "UnexpectedPdu"
  <2> HIDE DEF e2
  <2> QED BY DEF AfterChunk, Returns
<1> HIDE DEF e2
<1> QED BY <1>1 DEF handle_consecutive, Returns, e2

(* The receiver takes the frame it stops at.                               *)
LEMMA PairedTaken ==
    ASSUME NEW n \in Node, NEW S, NEW m, NEW t, NEW q, NEW g, NEW r, NEW D, NEW k \in Nat,
           LinkAt(n, S, m, t, q, g, r, D, k), Paired(n, t, q, g, r),
           RxFits(r), TxFits(t), QueueFits(q), QueueFits(g),
           NEW i \in 1..Len(q), q[i].kind \in DataKinds,
           \A j \in 1..Len(q) : j < i /\ q[j].kind \in DataKinds =>
               on_pdu(Cfg[Peer[n]], r, q[j]).out = "UnexpectedPdu",
           NEW u, u = on_pdu(Cfg[Peer[n]], r, q[i]), u.out # "UnexpectedPdu"
    PROVE  /\ u.out # "SendFlowControl" => Paired(n, t, After(q, i), g, u.rx)
           /\ u.out = "SendFlowControl" => \A f : f.kind = "FC" /\ f.status = "ClearToSend" =>
                 Paired(n, t, After(q, i), Append(g, f), u.rx)
<1> DEFINE c == Cfg[Peer[n]]
           q2 == After(q, i)
           w == max_consecutive_frame_payload(Cfg[n])
<1>1. CASE t.state = "Idle"
  BY <1>1 DEF Paired
<1> SUFFICES ASSUME t.state # "Idle"
             PROVE  /\ u.out # "SendFlowControl" => Paired(n, t, q2, g, u.rx)
                    /\ u.out = "SendFlowControl" => u.rx.next_sn = t.session.next_sn
  <2>1. ASSUME NEW f, f.kind = "FC", f.status = "ClearToSend" PROVE ~NoGrant(Append(g, f))
    <3> DEFINE l == Len(g) + 1
    <3>1. l \in 1..Len(Append(g, f)) /\ Append(g, f)[l] = f
      BY AppendAt
    <3> HIDE DEF l
    <3> QED BY <2>1, <3>1 DEF NoGrant
  <2> QED BY <1>1, <2>1 DEF Paired
<1>2. /\ t.session.offset < t.session.payload_len /\ t.session.offset \in Nat
      /\ t.session.payload_len \in Nat /\ t.session.block_remaining \in Nat
  BY DEF TxFits, TxIdle, Session
<1>3. r.state = "Receiving" => q[i].kind = "CF" /\ u = handle_consecutive(c, r, q[i])
  BY DEF on_pdu, handle_single, handle_first, Returns, DataKinds
<1>4. r.state = "Idle" => q[i].kind # "CF"
  BY DEF on_pdu, handle_consecutive, Returns
<1>5. r.state \in {"Idle", "Receiving"} /\ r.next_sn \in 0..(SnMod - 1) /\ r.block_size \in Nat
  BY DEF RxFits
<1>6. NoGrant(g)
  <2> SUFFICES ASSUME ~NoGrant(g) PROVE FALSE
    OBVIOUS
  <2>1. r.state # "Idle" /\ NoCf(q)
    BY <1>2, GrantOf
  <2> QED BY <1>3, <1>5, <2>1 DEF NoCf
<1>7. CASE Begins(n, t)
  <2>1. u.out # "SendFlowControl" => Paired(n, t, q2, g, u.rx)
    BY <1>6, <1>7 DEF Paired
  <2>2. ASSUME u.out = "SendFlowControl" PROVE u.rx.next_sn = t.session.next_sn
    <3>1. CASE r.state = "Idle"
      <4>1. u = handle_first(c, r, q[i])
        BY <1>4, <2>2, <3>1 DEF on_pdu, handle_single, Returns, DataKinds
      <4>2. u.rx.next_sn = 1
        BY <2>2, <3>1, <4>1 DEF handle_first, Returns
      <4> QED BY <1>7, <4>2 DEF Begins
    <3>2. CASE r.state = "Receiving"
      <4>1. k # 0
        BY <1>3, <2>2, <3>2, NoStrayGrant
      <4>2. t.session.offset = At(n, k) /\ t.session.offset = At(n, 0)
        BY <1>7 DEF Begins, LinkAt, SessionOf
      <4>3. 0 < k /\ 0 \in Nat
        BY <4>1
      <4>4. At(n, 0) < At(n, k) /\ At(n, 0) \in Nat
        BY <4>3, Steps
      <4> QED BY <4>2, <4>4
    <3> QED BY <1>5, <3>1, <3>2
  <2> QED BY <2>1, <2>2
<1>8. ASSUME NEW d \in Nat, Row(n, q, r, t, d), Blocks(r, t, d)
      PROVE  /\ u.out # "SendFlowControl" => Paired(n, t, q2, g, u.rx)
             /\ u.out = "SendFlowControl" => u.rx.next_sn = t.session.next_sn
  <2> DEFINE e == d - 1
             h == Len(r.content)
             z == t.session.offset
  <2>1. /\ r.state = "Receiving" /\ r.expected_len = t.session.payload_len /\ h + d * w = z
        /\ Numbered(q, d, r.next_sn, t.session.next_sn, w)
    BY <1>8 DEF Row
  <2>2. q[i].kind = "CF" /\ u = handle_consecutive(c, r, q[i])
    BY <1>3, <2>1
  <2>3. \A j \in 1..Len(q) : j < i => q[j].kind # "CF"
    <3> SUFFICES ASSUME NEW j \in 1..Len(q), j < i, q[j].kind = "CF" PROVE FALSE
      OBVIOUS
    <3>1. on_pdu(c, r, q[j]).out = "UnexpectedPdu"
      BY DEF DataKinds
    <3>2. on_pdu(c, r, q[j]) = handle_consecutive(c, r, q[j])
      BY DEF on_pdu
    <3> QED BY <2>1, <3>1, <3>2, RefusesNone
  <2>4. /\ d > 0 /\ q[i].sn = r.next_sn /\ Len(q[i].data) = w
        /\ Numbered(q2, e, NextSn(r.next_sn), t.session.next_sn, w)
    BY <2>1, <2>2, <2>3, QueueIs, NumberedTaken DEF After, Beyond
  <2>5. e \in Nat /\ e + 1 = d /\ w \in Nat /\ h \in Nat
    <3>1. r.content \in Seq(Byte)
      BY DEF RxFits
    <3>2. w \in Nat
      BY Steps
    <3> QED BY <2>4, <3>1, <3>2
  <2>6. d * w = e * w + w /\ e * w \in Nat
    <3> HIDE DEF e, w
    <3>1. (e + 1) * w = e * w + w /\ e * w \in Nat
      BY <2>5, Multiples
    <3> QED BY <2>5, <3>1
  <2>7. h + w <= z /\ h + w + e * w = z
    <3> DEFINE dw == d * w
               ew == e * w
    <3>1. dw = ew + w /\ ew \in Nat /\ h + dw = z
      BY <2>1, <2>6
    <3> HIDE DEF dw, ew, h, w, z
    <3>2. h + w <= z /\ h + w + ew = z
      BY <1>2, <2>5, <3>1 DEF z
    <3> QED BY <3>2 DEF ew
  <2>8. h + w < r.expected_len
    <3> HIDE DEF h, w
    <3> QED BY <1>2, <2>1, <2>5, <2>7 DEF z
  <2>9. /\ r.expected_len <= c.capacity /\ c.capacity \in Nat
        /\ r.block_size > 0 => r.block_remaining \in Nat \ {0}
        /\ t.state = "Sending" /\ r.block_size > 0 => t.session.block_remaining > 0
    <3>1. PICK x \in Msg, y \in Nat : Opened(n, S, m, t, q, g, r, D, k, x, y)
      BY <2>1 DEF LinkAt
    <3>2. /\ r.expected_len = Length[x] /\ Length[x] <= Room(c)
          /\ r.block_size > 0 => r.block_remaining \in 1..r.block_size
          /\ t.state = "Sending" /\ r.block_size > 0 => t.session.block_remaining > 0
      BY <3>1 DEF Opened, OpenFor, SenderFollows
    <3>3. Length[x] \in Nat
      BY PayloadByte
    <3>4. Room(c) \in Nat /\ c.capacity \in Nat /\ Room(c) <= c.capacity
      <4>1. Peer[n] \in Node
        BY NodeAssumption
      <4>2. c.max_payload_len \in Nat /\ c.capacity \in Nat
        BY <4>1, CfgAssumption DEF ValidConfig
      <4> QED BY <4>2 DEF Room, Lesser
    <3> HIDE DEF c
    <3>5. r.expected_len <= c.capacity
      BY <3>2, <3>3, <3>4
    <3> QED BY <1>5, <3>2, <3>4, <3>5
  <2>10. q[i].data \in Seq(Byte)
    <3>1. Len(q) \in Nat /\ i \in 0..Len(q) /\ i # 0
      BY RestAt
    <3>2. FrameFits(q[i])
      BY <3>1, QueueKept
    <3> QED BY <2>2, <3>2 DEF FrameFits
  <2> DEFINE r2 == u.rx
  <2>11. /\ r2.state = "Receiving" /\ r2.expected_len = r.expected_len
         /\ Len(r2.content) = h + w
         /\ r2.next_sn = NextSn(r.next_sn)
         /\ r2.block_size = r.block_size
         /\ IF r.block_size > 0 /\ r.block_remaining = 1 THEN u.out = "SendFlowControl"
            ELSE /\ u.out = "None"
                 /\ r.block_size > 0 => r2.block_remaining = r.block_remaining - 1
    <3> DEFINE f == q[i]
               v == handle_consecutive(c, r, f)
    <3>1. /\ f.data \in Seq(Byte) /\ Len(f.data) = w /\ f.sn = r.next_sn /\ u = v
          /\ Len(r.content) + w < r.expected_len /\ r.state = "Receiving"
      BY <2>1, <2>2, <2>4, <2>8, <2>10
    <3> HIDE DEF c, w, f
    <3>2. /\ v.rx.state = "Receiving" /\ v.rx.expected_len = r.expected_len
          /\ Len(v.rx.content) = Len(r.content) + w
          /\ v.rx.next_sn = NextSn(r.next_sn)
          /\ v.rx.block_size = r.block_size
          /\ IF r.block_size > 0 /\ r.block_remaining = 1 THEN v.out = "SendFlowControl"
             ELSE /\ v.out = "None"
                  /\ r.block_size > 0 => v.rx.block_remaining = r.block_remaining - 1
      BY <2>9, <3>1, ConsecutiveTaken
    <3> HIDE DEF v
    <3> QED BY <3>1, <3>2
  <2> HIDE DEF r2, q2, c, h, w, e
  <2>12. Row(n, q2, r2, t, e)
    <3>1. Len(r2.content) + e * w = t.session.offset
      BY <2>7, <2>11
    <3> QED BY <2>1, <2>4, <2>11, <3>1 DEF Row, w
  <2>13. CASE r.block_size > 0 /\ r.block_remaining = 1
    <3>1. d + (IF t.state = "Sending" THEN t.session.block_remaining ELSE 0) = 1
      BY <1>8, <2>13 DEF Blocks
    <3>2. d = 1 /\ e = 0
      BY <1>2, <2>5, <2>9, <2>13, <3>1
    <3>3. Numbered(q2, 0, NextSn(r.next_sn), t.session.next_sn, w)
      BY <2>4, <3>2
    <3>4. NextSn(r.next_sn) = t.session.next_sn
      BY <3>3 DEF Numbered, NumberedBy
    <3> QED BY <2>11, <2>13, <3>4 DEF r2
  <2>14. CASE ~(r.block_size > 0 /\ r.block_remaining = 1)
    <3>1. Blocks(r2, t, e)
      <4>1. CASE r.block_size = 0
        BY <1>8, <2>11, <4>1 DEF Blocks
      <4>2. CASE r.block_size # 0
        <5> DEFINE rem == IF t.state = "Sending" THEN t.session.block_remaining ELSE 0
        <5>1. rem \in Nat
          BY <1>2
        <5>2. r.block_remaining = d + rem
          BY <1>8, <4>2 DEF Blocks
        <5>3. r.block_size > 0
          BY <1>5, <4>2
        <5>4. r2.block_remaining = r.block_remaining - 1 /\ r2.block_size # 0
          BY <2>11, <2>14, <5>3
        <5> HIDE DEF rem
        <5>5. r2.block_remaining = e + rem
          BY <2>5, <5>1, <5>2, <5>4
        <5> QED BY <5>4, <5>5 DEF Blocks, rem
      <4> QED BY <4>1, <4>2
    <3>2. u.out = "None"
      BY <2>11, <2>14
    <3>3. Paired(n, t, q2, g, r2)
      BY <1>6, <2>5, <2>12, <3>1 DEF Paired
    <3> QED BY <3>2, <3>3 DEF r2, q2
  <2> QED BY <2>13, <2>14
<1> QED BY <1>6, <1>7, <1>8 DEF Paired

(* Nothing is left that the receiver would take.                           *)
LEMMA PairedEmptied ==
    ASSUME NEW n \in Node, NEW t, NEW q, QueueFits(q), NEW g, NEW r, RxFits(r),
           Paired(n, t, q, g, r), r.state = "Receiving" => NoCf(q)
    PROVE  Paired(n, t, <<>>, g, r)
<1> DEFINE w == max_consecutive_frame_payload(Cfg[n])
           a == r.next_sn
           b == t.session.next_sn
<1>1. ASSUME NEW d \in Nat, Row(n, q, r, t, d) PROVE Row(n, <<>>, r, t, d)
  <2>1. NoCf(q) /\ Numbered(q, d, a, b, w)
    BY <1>1 DEF Row
  <2>2. PICK h \in [1..d -> 1..Len(q)], u \in [1..(d + 1) -> 0..(SnMod - 1)] :
          NumberedBy(h, u, q, d, a, b, w)
    BY <2>1 DEF Numbered
  <2>3. d = 0
    <3> SUFFICES ASSUME d # 0 PROVE FALSE
      OBVIOUS
    <3>1. 1 \in 1..d
      OBVIOUS
    <3>2. h[1] \in 1..Len(q) /\ q[h[1]].kind = "CF"
      BY <2>2, <3>1 DEF NumberedBy
    <3> QED BY <2>1, <3>2 DEF NoCf
  <2>4. a = b
    <3>1. u[1] = a /\ u[0 + 1] = b
      BY <2>2, <2>3 DEF NumberedBy
    <3> QED BY <3>1
  <2>5. Len(<<>>) = 0 /\ NoCf(<<>>) /\ a \in 0..(SnMod - 1)
    BY DEF NoCf, RxFits
  <2>6. Numbered(<<>>, 0, a, a, w)
    BY <2>5, NoneNumbered
  <2> QED BY <1>1, <2>3, <2>4, <2>6 DEF Row
<1> QED BY <1>1 DEF Paired

(* Without a Flow Control, no grant was heard.                             *)
LEMMA NoneHeard ==
    ASSUME NEW n, QueueFits(inbox[n]), FcIndex(n) = 0
    PROVE  NoGrant(inbox[n])
<1> DEFINE I == {i \in 1..Len(inbox[n]) : inbox[n][i].kind \in {"FC", "Malformed"}}
<1>1. FcIndex(n) = IF I # {} THEN Min(I) ELSE 0
  BY DEF FcIndex, SelectInSeq
<1>2. I \subseteq Nat /\ 0 \notin I
  BY QueueKept
<1>3. \A i \in 1..Len(inbox[n]) : inbox[n][i].kind = "FC" => i \in I
  OBVIOUS
<1> HIDE DEF I
<1>4. I = {}
  BY <1>1, <1>2, StopsAt
<1> QED BY <1>3, <1>4 DEF NoGrant

(* A frame that grants nothing goes behind.                                *)
LEMMA NoneGranted ==
    ASSUME NEW g, QueueFits(g), NEW f, f.kind = "FC" => f.status = "Overflow"
    PROVE  NoGrant(Append(g, f)) <=> NoGrant(g)
<1> DEFINE g2 == Append(g, f)
<1>1. /\ g2[Len(g) + 1] = f
      /\ \A j \in 1..Len(g) : j \in 1..Len(g2) /\ g2[j] = g[j]
      /\ \A j \in 1..Len(g2) : j \in 1..Len(g) \/ j = Len(g) + 1
  BY AppendAt
<1> HIDE DEF g2
<1>2. NoGrant(g2) <=> NoGrant(g)
  BY <1>1 DEF NoGrant
<1> QED BY <1>2 DEF g2

(* All that poll_recv goes past, it skips.                                 *)
LEMMA PassedOver ==
    ASSUME NEW n, Len(inbox[n]) \in Nat, NEW j \in 1..Len(inbox[n]),
           RecvIndex(n) = 0 \/ j < RecvIndex(n)
    PROVE  Skipped(n, inbox[n][j])
<1> DEFINE I == {i \in 1..Len(inbox[n]) : ~Skipped(n, inbox[n][i])}
<1> SUFFICES ASSUME ~Skipped(n, inbox[n][j]) PROVE FALSE
  OBVIOUS
<1>1. RecvIndex(n) = IF I # {} THEN Min(I) ELSE 0
  BY DEF RecvIndex, SelectInSeq
<1>2. I \subseteq Nat \ {0} /\ j \in I
  OBVIOUS
<1> HIDE DEF I
<1>3. Min(I) \in I /\ Min(I) <= j
  BY <1>2, StopsAt
<1> HIDE DEF Min
<1>4. I # {} /\ Min(I) \in Nat \ {0}
  BY <1>2, <1>3
<1>5. RecvIndex(n) = Min(I)
  BY <1>1, <1>4
<1> QED BY <1>3, <1>4, <1>5

-----------------------------------------------------------------------------
(* The pairs of a link on which nothing is lost. *)
PairInv == \A n \in Node : Paired(n, tx[n], inbox[Peer[n]], inbox[n], rx[Peer[n]])

(* Only one endpoint sends.                                                *)
LEMMA OneSender ==
    ASSUME Steady, IInv, LinkInv, NEW a \in Node
    PROVE  /\ ~Sender(a) => tx[a].state = "Idle"
           /\ Sender(a) => \A n \in Node : n # a => tx[n].state = "Idle"
<1>1. ASSUME NEW n \in Node, tx[n].state # "Idle" PROVE Sender(n)
  BY <1>1 DEF LinkInv, OneWay, Link, LinkAt, SessionOf, Sender
<1>2. ASSUME NEW n \in Node, Sender(n) PROVE app[n] \in Msg /\ Source[app[n]] = n
  BY <1>2 DEF IInv, SendersFit, SendFits, AppFits, Sender
<1>3. \A x, y \in Msg : Source[x] = Source[y]
  BY DEF Steady, Orderly
<1> QED BY <1>1, <1>2, <1>3

(* continue_send keeps the pair.                                           *)
LEMMA ContinuePaired ==
    ASSUME Steady, IInv, LinkInv, NEW a \in Node, Sender(a), NEW s \in Session, s.offset < s.payload_len,
           NEW t, t.state = "Sending", t.session = s, NEW rest, NEW k \in Nat,
           LinkAt(a, submitted[a], app[a], t, inbox[Peer[a]], rest,
                  rx[Peer[a]], delivered[Peer[a]], k),
           Paired(a, t, inbox[Peer[a]], rest, rx[Peer[a]]),
           ContinueSend(a, s, rest)
    PROVE  Paired(a, tx'[a], inbox'[Peer[a]], inbox'[a], rx[Peer[a]])
<1> DEFINE p == Peer[a]
           x == app[a]
           f == NextFrame(Cfg[a], s, Payload(x))
           t2 == AfterFrame(Cfg[a], s, Payload(x))
<1>1. /\ x \in Msg /\ QueueFits(inbox[p]) /\ RxFits(rx[p]) /\ DOMAIN inbox = Node
      /\ DOMAIN tx = Node /\ p \in Node /\ p # a
  BY AtSender, Pairs DEF IInv, SendersFit, ReceiversFit, QueuesFit, Steady
<1>2. Becomes(a, t2) /\ Transmit(a, rest, f)
  BY DEF ContinueSend, TransmitFails, Fault, Steady
<1>3. tx'[a] = t2
  BY <1>1, <1>2 DEF Becomes
<1>4. inbox'[p] = Append(inbox[p], f) /\ inbox'[a] = rest
  BY <1>1, <1>2 DEF Transmit
<1>5. Paired(a, t2, Append(inbox[p], f), rest, rx[p])
  BY <1>1, PairedSent
<1> QED BY <1>3, <1>4, <1>5

(* poll_send keeps the pair of the endpoint that sends.                    *)
LEMMA PollSendPaired ==
    ASSUME Steady, IInv, LinkInv, PairInv, NEW a \in Node, PollSend(a)
    PROVE  Paired(a, tx'[a], inbox'[Peer[a]], inbox'[a], rx[Peer[a]])
<1> DEFINE p == Peer[a]
           g == inbox[a]
           q == inbox[p]
           r == rx[p]
           i == FcIndex(a)
<1>1. Sender(a)
  BY DEF PollSend, SendTooLong, SendSingle, SendFirst, SendMismatch, FcTimeout, NoFcYet, WaitBroken,
         GotClearToSend, GotWait, GotOverflow, GotFc, Awaits, Resumes, SendConsecutive
<1>2. /\ app[a] \in Msg /\ TxFits(tx[a]) /\ QueueFits(g) /\ QueueFits(q) /\ RxFits(r)
      /\ DOMAIN inbox = Node /\ DOMAIN tx = Node /\ p \in Node /\ p # a /\ CleanQueue(g)
      /\ tx[a].state # "Idle" => Fits(a) /\ tx[a].session.payload_len = Length[app[a]]
  BY <1>1, AtSender, Pairs DEF IInv, SendersFit, ReceiversFit, QueuesFit, Steady
<1>3. PICK k \in Nat : LinkAt(a, submitted[a], app[a], tx[a], q, g, r, delivered[p], k)
  BY <1>1, AtSender DEF Steady
<1>4. Paired(a, tx[a], q, g, r)
  BY DEF PairInv
<1>5. tx[a].state # "Idle" =>
          tx[a].session \in Session /\ tx[a].session.offset < tx[a].session.payload_len
  BY <1>2 DEF TxFits, TxIdle
<1>6. CASE tx'[a].state = "Idle"
  BY <1>6 DEF Paired
<1>7. CASE SendTooLong(a) \/ SendSingle(a)
  <2>1. tx[a].state = "Idle" /\ tx' = tx
    BY <1>2, <1>7 DEF SendTooLong, SendSingle
  <2> QED BY <1>6, <2>1
<1>8. CASE SendFirst(a)
  <2> DEFINE timer == Timer(Cfg[a].n_bs)
             t2 == WaitingForFc(NewSession(Cfg[a], Payload(app[a])), timer)
  <2>1. Becomes(a, t2) /\ tx[a].state = "Idle" /\ Transmit(a, g, FirstFrameOf(Cfg[a], Payload(app[a])))
    BY <1>8 DEF SendFirst, TransmitFails, Fault, Steady
  <2>2. tx'[a] = t2 /\ inbox'[a] = g
    BY <1>2, <2>1 DEF Becomes, Transmit
  <2> HIDE DEF timer
  <2>3. Paired(a, t2, inbox'[p], g, r)
    BY <1>3, <2>1, PairedFirst
  <2> QED BY <2>2, <2>3
<1>9. CASE SendMismatch(a) \/ FcTimeout(a) \/ WaitBroken(a) \/ GotOverflow(a)
  <2>1. Becomes(a, TxIdle)
    BY <1>9 DEF SendMismatch, FcTimeout, WaitBroken, GotOverflow
  <2>2. tx'[a].state = "Idle"
    BY <1>2, <2>1 DEF Becomes, TxIdle
  <2> QED BY <1>6, <2>2
<1>10. CASE NoFcYet(a)
  <2>1. tx' = tx /\ inbox' = [inbox EXCEPT ![a] = <<>>] /\ i = 0
    BY <1>10 DEF NoFcYet, Consume
  <2>2. inbox'[p] = q /\ inbox'[a] = <<>>
    BY <1>2, <2>1
  <2>3. NoGrant(g) /\ NoGrant(<<>>)
    BY <1>2, <2>1, NoneHeard DEF NoGrant
  <2>4. Paired(a, tx[a], q, <<>>, r)
    BY <1>2, <1>4, <2>3, PairedAside
  <2> QED BY <2>1, <2>2, <2>4
<1>11. ASSUME NEW status, GotFc(a, status)
       PROVE  /\ i \in 1..Len(g) /\ g[i].kind = "FC" /\ g[i].status = status
              /\ tx[a].state = "WaitingForFc"
  <2>1. i \in 1..Len(g) /\ g[i].kind = "FC" /\ g[i].status = status
    BY <1>11, FcHeard DEF IInv
  <2>2. tx[a].state = "WaitingForFc"
    BY <1>11 DEF GotFc, Awaits, Resumes
  <2> QED BY <2>1, <2>2
<1>12. CASE GotWait(a)
  <2>1. i \in 1..Len(g) /\ g[i].kind = "FC" /\ g[i].status = "Wait"
    BY <1>11, <1>12 DEF GotWait
  <2>2. g[i].status \in {"ClearToSend", "Overflow"}
    BY <1>3, <2>1 DEF LinkAt, AnswersAre
  <2> QED BY <2>1, <2>2
<1>13. CASE GotClearToSend(a)
  <2> DEFINE s == Cleared(Cfg[a], tx[a].session, g[i])
             rest == After(g, i)
             t == Sending(s, 0)
  <2>1. /\ i \in 1..Len(g) /\ g[i].kind = "FC" /\ g[i].status = "ClearToSend"
        /\ tx[a].state = "WaitingForFc"
    BY <1>11, <1>13 DEF GotClearToSend
  <2>2. ContinueSend(a, s, rest)
    BY <1>13 DEF GotClearToSend
  <2>3. tx[a].session \in Session /\ tx[a].session.offset < tx[a].session.payload_len
    BY <1>5, <2>1
  <2>4. FrameFits(g[i])
    <3>1. Len(g) \in Nat
      BY <1>2, QueueKept
    <3>2. i \in 0..Len(g) /\ i # 0
      BY <2>1, <3>1
    <3> HIDE DEF i
    <3> QED BY <1>2, <3>2, QueueKept
  <2>5. s \in Session /\ s.offset < s.payload_len
    BY <2>1, <2>3, <2>4, ClearedFits
  <2> HIDE DEF i
  <2>6. AddsNoBlocks(a)
    BY <1>1, <1>2 DEF IInv, SendersFit, SendFits, AppFits, Sender, Steady
  <2>7. LinkAt(a, submitted[a], app[a], t, q, rest, r, delivered[p], k)
    BY <1>2, <1>3, <2>1, <2>3, LinkCleared
  <2>8. Paired(a, t, q, rest, r)
    BY <1>2, <1>3, <1>4, <2>1, <2>3, <2>6, PairedCleared
  <2> HIDE DEF s
  <2>9. t.state = "Sending" /\ t.session = s
    BY DEF Sending
  <2> HIDE DEF t, rest
  <2> QED BY <1>1, <2>2, <2>5, <2>7, <2>8, <2>9, ContinuePaired
<1>14. CASE SendConsecutive(a)
  <2>1. tx[a].state = "Sending" /\ ContinueSend(a, tx[a].session, g)
    BY <1>14 DEF SendConsecutive, Resumes
  <2> QED BY <1>1, <1>3, <1>4, <1>5, <2>1, ContinuePaired
<1> QED BY <1>7, <1>8, <1>9, <1>10, <1>12, <1>13, <1>14 DEF PollSend

(* poll_recv consumes the queue; what it answers is on its way.            *)
LEMMA PollRecvPaired ==
    ASSUME Steady, IInv, LinkInv, PairInv, NEW a \in Node, PollRecv(a)
    PROVE  Paired(Peer[a], tx[Peer[a]], inbox'[a], inbox'[Peer[a]], rx'[a])
<1> DEFINE p == Peer[a]
           i == RecvIndex(a)
           q == inbox[a]
           g == inbox[p]
           r == rx[a]
           u == Response(a, q[i])
           rest == After(q, i)
<1>1. p \in Node /\ p # a /\ Peer[p] = a
  BY Pairs
<1>2. /\ DOMAIN rx = Node /\ DOMAIN inbox = Node
      /\ QueueFits(q) /\ QueueFits(g) /\ RxFits(r) /\ TxFits(tx[p]) /\ Len(q) \in Nat
  BY <1>1, QueueKept DEF IInv, ReceiversFit, QueuesFit, SendersFit, SendFits
<1>3. PICK k \in Nat : LinkAt(p, submitted[p], app[p], tx[p], q, g, r, delivered[a], k)
  BY <1>1 DEF LinkInv, OneWay, Link
<1>4. Paired(p, tx[p], q, g, r)
  BY <1>1 DEF PairInv
<1>5. ASSUME NEW j \in 1..Len(q), i = 0 \/ j < i, q[j].kind \in DataKinds
      PROVE  on_pdu(Cfg[a], r, q[j]).out = "UnexpectedPdu"
  <2>1. Skipped(a, q[j])
    BY <1>2, <1>5, PassedOver
  <2> QED BY <1>5, <2>1 DEF Skipped, Response, DataKinds
<1>6. CASE RecvNothing(a)
  <2>1. i = 0 /\ UNCHANGED rx /\ inbox' = [inbox EXCEPT ![a] = <<>>]
    BY <1>6 DEF RecvNothing, Consume
  <2>2. inbox'[a] = <<>> /\ inbox'[p] = g
    BY <1>1, <1>2, <2>1
  <2>3. r.state = "Receiving" => NoCf(q)
    <3> SUFFICES ASSUME r.state = "Receiving", NEW j \in 1..Len(q), q[j].kind = "CF" PROVE FALSE
      BY DEF NoCf
    <3>1. on_pdu(Cfg[a], r, q[j]).out = "UnexpectedPdu"
      BY <1>5, <2>1 DEF DataKinds
    <3>2. on_pdu(Cfg[a], r, q[j]) = handle_consecutive(Cfg[a], r, q[j])
      BY DEF on_pdu
    <3> QED BY <3>1, <3>2, RefusesNone
  <2>4. Paired(p, tx[p], <<>>, g, r)
    BY <1>1, <1>2, <1>4, <2>3, PairedEmptied
  <2> QED BY <2>1, <2>2, <2>4
<1>7. CASE RecvMalformed(a)
  <2>1. i # 0 /\ q[i].kind = "Malformed"
    BY <1>7 DEF RecvMalformed
  <2>2. q[i].kind \in DataKinds
    BY <2>1, RecvAnswered DEF Steady
  <2> QED BY <2>1, <2>2 DEF DataKinds
<1>8. CASE RecvQuiet(a) \/ RecvOverflow(a) \/ RecvGrant(a) \/ RecvCompleted(a)
  <2>1. i # 0 /\ RecvRest(a) = rest /\ rx' = [rx EXCEPT ![a] = u.rx]
    BY <1>8 DEF RecvQuiet, RecvOverflow, RecvGrant, RecvCompleted, RecvPdu, RecvRest
  <2>2. rx'[a] = u.rx
    BY <1>2, <2>1
  <2>3. i \in 1..Len(q) /\ q[i].kind \in DataKinds
    BY <2>1, RecvAnswered DEF Steady
  <2>4. ~Skipped(a, q[i])
    BY <1>2, <2>1, StopsNotSkipped
  <2> HIDE DEF i
  <2>5. u = on_pdu(Cfg[Peer[p]], r, q[i]) /\ u.out # "UnexpectedPdu"
    BY <1>1, <2>3, <2>4 DEF Skipped, Response, DataKinds
  <2>6. \A j \in 1..Len(q) : j < i /\ q[j].kind \in DataKinds =>
            on_pdu(Cfg[Peer[p]], r, q[j]).out = "UnexpectedPdu"
    BY <1>1, <1>5
  <2> HIDE DEF u
  <2>7. /\ u.out # "SendFlowControl" => Paired(p, tx[p], rest, g, u.rx)
        /\ u.out = "SendFlowControl" => \A f : f.kind = "FC" /\ f.status = "ClearToSend" =>
              Paired(p, tx[p], rest, Append(g, f), u.rx)
    BY <1>1, <1>2, <1>3, <1>4, <2>3, <2>5, <2>6, PairedTaken
  <2>8. QueueFits(rest)
    <3>1. i \in 0..Len(q)
      BY <1>2, <2>3
    <3> QED BY <1>2, <3>1, QueueKept
  <2> HIDE DEF rest
  <2>9. CASE RecvQuiet(a) \/ RecvCompleted(a)
    <3>1. u.out # "SendFlowControl" /\ inbox' = [inbox EXCEPT ![a] = rest]
      BY <2>1, <2>9 DEF RecvQuiet, RecvCompleted, RecvPdu, Consume, u, i
    <3>2. inbox'[a] = rest /\ inbox'[p] = g
      BY <1>1, <1>2, <3>1
    <3> QED BY <2>2, <2>7, <3>1, <3>2
  <2>10. CASE RecvOverflow(a)
    <3> DEFINE f == OverflowFc(Cfg[a])
    <3>1. u.out = "Overflow" /\ Transmit(a, rest, f)
      BY <2>1, <2>10 DEF RecvOverflow, RecvPdu, TransmitFails, Fault, Steady, u, i
    <3>2. f.kind = "FC" /\ f.status = "Overflow"
      BY DEF OverflowFc, FlowControl
    <3> HIDE DEF f
    <3>3. inbox'[a] = rest /\ inbox'[p] = Append(g, f)
      BY <1>1, <1>2, <3>1 DEF Transmit
    <3>4. NoGrant(Append(g, f)) <=> NoGrant(g)
      BY <1>2, <3>2, NoneGranted
    <3>5. Paired(p, tx[p], rest, g, u.rx)
      BY <2>7, <3>1
    <3>6. Paired(p, tx[p], rest, Append(g, f), u.rx)
      BY <2>8, <3>4, <3>5, PairedAside
    <3> QED BY <2>2, <3>3, <3>6
  <2>11. CASE RecvGrant(a)
    <3> DEFINE f == Grant(Cfg[a], rx'[a])
    <3>1. u.out = "SendFlowControl" /\ Transmit(a, rest, f)
      BY <2>1, <2>11 DEF RecvGrant, RecvPdu, TransmitFails, Fault, Steady, u, i
    <3>2. f.kind = "FC" /\ f.status = "ClearToSend"
      BY DEF Grant, FlowControl
    <3> HIDE DEF f
    <3>3. inbox'[a] = rest /\ inbox'[p] = Append(g, f)
      BY <1>1, <1>2, <3>1 DEF Transmit
    <3> QED BY <2>2, <2>7, <3>1, <3>2, <3>3
  <2> QED BY <1>8, <2>9, <2>10, <2>11
<1> QED BY <1>6, <1>7, <1>8 DEF PollRecv

(* Every step keeps the pairs.                                             *)
LEMMA NextPaired ==
    ASSUME Steady, IInv, LinkInv, PairInv, [Next]_vars
    PROVE  PairInv'
<1>1. /\ DOMAIN tx = Node /\ DOMAIN inbox = Node /\ DOMAIN rx = Node
      /\ \A n \in Node : QueueFits(inbox[n]) /\ TxFits(tx[n])
  BY DEF IInv, SendersFit, SendFits, QueuesFit, ReceiversFit
<1>2. CASE UNCHANGED <<tx, rx, inbox>>
  BY <1>2 DEF PairInv
<1>3. ASSUME NEW a \in Node, PollSend(a) PROVE PairInv'
  <2> DEFINE p == Peer[a]
  <2>1. Sender(a) /\ UNCHANGED rx
    BY <1>3 DEF PollSend, SendTooLong, SendSingle, SendFirst, SendMismatch, FcTimeout, NoFcYet,
                WaitBroken, GotClearToSend, GotWait, GotOverflow, GotFc, Awaits, Resumes,
                SendConsecutive
  <2>2. \A n \in Node : n # a => tx[n].state = "Idle"
    BY <2>1, OneSender
  <2>3. tx' = tx \/ \E t : Becomes(a, t)
    BY <1>3 DEF PollSend, SendTooLong, SendSingle, SendFirst, SendMismatch, FcTimeout, NoFcYet,
                WaitBroken, GotClearToSend, GotWait, GotOverflow, SendConsecutive, ContinueSend
  <2>4. \A n \in Node : n # a => tx'[n] = tx[n]
    BY <1>1, <2>3 DEF Becomes
  <2>5. ASSUME NEW n \in Node
        PROVE  Paired(n, tx'[n], inbox'[Peer[n]], inbox'[n], rx'[Peer[n]])
    <3>1. CASE n = a
      BY <1>3, <2>1, <3>1, PollSendPaired
    <3>2. CASE n # a
      BY <2>2, <2>4, <3>2 DEF Paired
    <3> QED BY <3>1, <3>2
  <2> QED BY <2>5 DEF PairInv
<1>4. ASSUME NEW a \in Node, PollRecv(a) PROVE PairInv'
  <2> DEFINE p == Peer[a]
  <2>1. p \in Node /\ p # a /\ Peer[p] = a /\ \A n \in Node : n # a /\ n # p => Peer[n] # a /\ Peer[n] # p
    BY Pairs
  <2>2. UNCHANGED tx /\ ~Sender(a)
    BY <1>4 DEF PollRecv, RecvNothing, RecvMalformed, RecvQuiet, RecvOverflow, RecvGrant,
                RecvCompleted, RecvPdu, MayRecv, Steady
  <2>3. tx[a].state = "Idle"
    BY <2>2, OneSender
  <2>4. UNCHANGED rx \/ \E r : rx' = [rx EXCEPT ![a] = r]
    BY <1>4 DEF PollRecv, RecvNothing, RecvMalformed, RecvQuiet, RecvOverflow, RecvGrant,
                RecvCompleted, RecvPdu
  <2>5. \/ \E q : inbox' = [inbox EXCEPT ![a] = q]
        \/ \E q, f : inbox' = [inbox EXCEPT ![a] = q, ![p] = Append(@, f)]
    BY <1>4 DEF PollRecv, RecvNothing, RecvMalformed, RecvQuiet, RecvOverflow, RecvGrant,
                RecvCompleted, Consume, Transmit, TransmitFails
  <2>6. \A n \in Node : n # a => rx'[n] = rx[n]
    BY <1>1, <2>4
  <2>7. \A n \in Node : n # a /\ n # p => inbox'[n] = inbox[n]
    BY <1>1, <2>5
  <2>8. ASSUME NEW n \in Node
        PROVE  Paired(n, tx'[n], inbox'[Peer[n]], inbox'[n], rx'[Peer[n]])
    <3>1. CASE n = a
      BY <2>2, <2>3, <3>1 DEF Paired
    <3>2. CASE n = p
      BY <1>4, <2>1, <2>2, <3>2, PollRecvPaired
    <3>3. CASE n # a /\ n # p
      <4>1. Peer[n] \in Node /\ Peer[n] # a /\ Peer[n] # p
        BY <2>1, <3>3, Pairs
      <4>2. inbox'[n] = inbox[n] /\ inbox'[Peer[n]] = inbox[Peer[n]] /\ rx'[Peer[n]] = rx[Peer[n]]
        BY <2>6, <2>7, <3>3, <4>1
      <4> QED BY <2>2, <4>2 DEF PairInv
    <3> QED BY <3>1, <3>2, <3>3
  <2> QED BY <2>8 DEF PairInv
<1>5. CASE Advance
  <2>1. tx' = [n \in Node |-> Later(tx[n])] /\ UNCHANGED <<rx, inbox>>
    BY <1>5 DEF Advance
  <2>2. ASSUME NEW n \in Node
        PROVE  Paired(n, tx'[n], inbox'[Peer[n]], inbox'[n], rx'[Peer[n]])
    <3>1. tx'[n] = Later(tx[n])
      BY <2>1
    <3>2. Paired(n, Later(tx[n]), inbox[Peer[n]], inbox[n], rx[Peer[n]])
      BY <1>1, PairedTick DEF PairInv
    <3> QED BY <2>1, <3>1, <3>2
  <2> QED BY <2>2 DEF PairInv
<1>6. ASSUME NEW a \in Node, Interfere(a) PROVE PairInv'
  <2>1. UNCHANGED <<tx, rx>>
    BY <1>6 DEF Interfere
  <2>2. PICK f \in Noise : inbox' = [inbox EXCEPT ![a] = Append(@, f)]
    BY <1>6 DEF Interfere
  <2>3. f.kind = "Foreign"
    BY DEF Steady, Orderly
  <2>4. \A n \in Node : inbox'[n] = inbox[n] \/ inbox'[n] = Append(inbox[n], f)
    BY <1>1, <2>2
  <2>5. ASSUME NEW n \in Node
        PROVE  Paired(n, tx'[n], inbox'[Peer[n]], inbox'[n], rx'[Peer[n]])
    <3> DEFINE q == inbox[Peer[n]]
               q2 == inbox'[Peer[n]]
               g == inbox[n]
               g2 == inbox'[n]
    <3>1. Paired(n, tx[n], q, g, rx[Peer[n]])
      BY DEF PairInv
    <3>2. Peer[n] \in Node /\ QueueFits(q) /\ QueueFits(g)
      BY <1>1, Pairs
    <3>3. (q2 = q \/ q2 = Append(q, f)) /\ (g2 = g \/ g2 = Append(g, f))
      BY <2>4, <3>2
    <3> HIDE DEF q, q2, g, g2
    <3>4. NoGrant(g2) <=> NoGrant(g)
      BY <2>3, <3>2, <3>3, NoneGranted
    <3>5. q2 = q \/ \E h : h.kind # "CF" /\ q2 = Append(q, h)
      BY <2>3, <3>3
    <3>6. Paired(n, tx[n], q2, g2, rx[Peer[n]])
      BY <3>1, <3>2, <3>4, <3>5, PairedAside
    <3> QED BY <2>1, <3>6 DEF q2, g2
  <2> QED BY <2>5 DEF PairInv
<1>7. ASSUME NEW a \in Node, Submit(a) \/ SendTimesOut(a) PROVE PairInv'
  BY <1>2, <1>7 DEF Submit, SendTimesOut
<1>8. ASSUME NEW a \in Node, Lose(a) PROVE PairInv'
  BY <1>8 DEF Lose, Fault, Steady
<1>9. CASE UNCHANGED vars
  BY <1>2, <1>9 DEF vars
<1> QED BY <1>3, <1>4, <1>5, <1>6, <1>7, <1>8, <1>9 DEF Next

(* Sender and receiver count the same frames of a transfer, in order, if   *)
(* no frame is lost.                                                       *)
LEMMA PairsKept ==
    ASSUME Steady
    PROVE  Spec => [](IInv /\ LinkInv /\ PairInv)
<1>1. Init => PairInv
  BY DEF Init, PairInv, Paired, TxIdle
<1>2. IInv /\ LinkInv /\ PairInv /\ [Next]_vars => PairInv'
  BY NextPaired
<1>3. Spec => [](IInv /\ LinkInv)
  BY LinkKept DEF Steady
<1> QED BY <1>1, <1>2, <1>3, PTL DEF Spec

(* The two sides of a pair know where the block ends.                      *)
LEMMA PairedBlocks ==
    ASSUME IInv, LinkInv, PairInv, NEW n \in Node, MidTransfer(n)
    PROVE  LET p == Peer[n]
               s == tx[n].session
           IN  /\ tx[n].state = "WaitingForFc" =>
                     \/ Count(n, "FC") > 0
                     \/ /\ rx[p].state = "Receiving"
                        /\ rx[p].block_size > 0
                        /\ rx[p].block_remaining = Count(p, "CF")
               /\ tx[n].state = "Sending" =>
                     IF rx[p].block_size = 0 THEN s.block_size = 0
                     ELSE rx[p].block_remaining = s.block_remaining + Count(p, "CF")
<1> DEFINE p == Peer[n]
           q == inbox[p]
           g == inbox[n]
           r == rx[p]
           t == tx[n]
<1>1. /\ p \in Node /\ QueueFits(q) /\ QueueFits(g) /\ RxFits(r) /\ TxFits(t)
      /\ Len(g) \in Nat
  BY Pairs, QueueKept DEF IInv, ReceiversFit, QueuesFit, SendersFit, SendFits
<1>2. t.state # "Idle" /\ t.session.offset > max_first_frame_payload(Cfg[n])
  BY DEF MidTransfer
<1>3. ~Begins(n, t)
  <2> DEFINE first == max_first_frame_payload(Cfg[n])
  <2>1. first \in Nat /\ At(n, 0) = first
    BY Steps
  <2> HIDE DEF first
  <2>2. ~(first > first)
    BY <2>1
  <2>3. t.session.offset > first
    BY <1>2 DEF first
  <2> QED BY <2>1, <2>2, <2>3 DEF Begins
<1>4. Paired(n, t, q, g, r)
  BY DEF PairInv
<1>5. t.state # "WaitingForFc" => NoGrant(g)
  <2>1. PICK k \in Nat : LinkAt(n, submitted[n], app[n], t, q, g, r, delivered[p], k)
    BY DEF LinkInv, OneWay, Link
  <2> QED BY <2>1, GrantAwaited
<1>6. CASE NoGrant(g)
  <2>1. PICK d \in Nat : Row(n, q, r, t, d) /\ Blocks(r, t, d)
    BY <1>2, <1>3, <1>4, <1>6 DEF Paired
  <2>2. Count(p, "CF") = d
    BY <1>1, <2>1, QueueIs, NumberedCount DEF Row, Count
  <2>3. r.state = "Receiving" /\ r.block_size \in Nat
    BY <1>1, <2>1 DEF Row, RxFits
  <2>4. ASSUME t.state = "WaitingForFc"
        PROVE  r.block_size > 0 /\ r.block_remaining = d
    <3>1. r.block_size # 0
      BY <2>1, <2>4 DEF Blocks
    <3>2. r.block_remaining = d + 0
      BY <2>1, <2>4, <3>1 DEF Blocks
    <3> QED BY <2>1, <2>3, <3>1, <3>2
  <2>5. ASSUME t.state = "Sending"
        PROVE  IF r.block_size = 0 THEN t.session.block_size = 0
               ELSE r.block_remaining = t.session.block_remaining + d
    <3>1. t.session.block_remaining \in Nat
      BY <1>1, <1>2 DEF TxFits, TxIdle, Session
    <3>2. CASE r.block_size = 0
      BY <2>1, <3>2 DEF Blocks
    <3>3. CASE r.block_size # 0
      <4>1. r.block_remaining = d + t.session.block_remaining
        BY <2>1, <2>5, <3>3 DEF Blocks
      <4> QED BY <3>1, <3>3, <4>1
    <3> QED BY <3>2, <3>3
  <2> QED BY <2>2, <2>3, <2>4, <2>5
<1>7. CASE ~NoGrant(g)
  <2> DEFINE I == {i \in 1..Len(g) : g[i].kind = "FC"}
  <2>1. PICK i \in 1..Len(g) : g[i].kind = "FC"
    BY <1>7 DEF NoGrant
  <2>2. IsFiniteSet(1..Len(g))
    BY <1>1, FS_Interval
  <2>3. IsFiniteSet(I)
    BY <2>2, FS_Subset
  <2>4. I # {}
    BY <2>1
  <2>5. Count(n, "FC") = Cardinality(I)
    BY DEF Count
  <2> HIDE DEF I
  <2>6. Cardinality(I) \in Nat /\ Cardinality(I) # 0
    BY <2>3, <2>4, FS_CardinalityType, FS_EmptySet
  <2>7. Count(n, "FC") > 0
    BY <2>5, <2>6
  <2>8. t.state # "Sending"
    BY <1>5, <1>7
  <2> QED BY <2>7, <2>8
<1> QED BY <1>6, <1>7

(* Sender and receiver agree where a block ends.                           *)
THEOREM BlocksHeld ==
    ASSUME Steady
    PROVE  Spec => []BlocksAgree
<1>1. IInv /\ LinkInv /\ PairInv => BlocksAgree
  <2> SUFFICES ASSUME IInv, LinkInv, PairInv, NEW n \in Node, MidTransfer(n)
               PROVE  LET p == Peer[n]
                          s == tx[n].session
                      IN  CASE tx[n].state = "WaitingForFc" ->
                                   \/ Count(n, "FC") > 0
                                   \/ /\ rx[p].state = "Receiving"
                                      /\ rx[p].block_size > 0
                                      /\ rx[p].block_remaining = Count(p, "CF")
                            [] tx[n].state = "Sending" ->
                                   IF rx[p].block_size = 0 THEN s.block_size = 0
                                   ELSE rx[p].block_remaining = s.block_remaining + Count(p, "CF")
    BY DEF BlocksAgree
  <2>1. tx[n].state = "WaitingForFc" \/ tx[n].state = "Sending"
    <3>1. TxFits(tx[n]) /\ tx[n].state # "Idle"
      BY DEF IInv, SendersFit, SendFits, MidTransfer
    <3> QED BY <3>1 DEF TxFits, TxIdle
  <2> QED BY <2>1, PairedBlocks
<1> QED BY <1>1, PairsKept, PTL

-----------------------------------------------------------------------------
(* No byte is lost, repeated or overtaken, if nothing is lost on the link. *)

(* Every message fits its sender and its receiver. *)
Roomy ==
    \A x \in Msg :
        /\ Length[x] <= Cfg[Source[x]].max_payload_len
        /\ Length[x] <= Room(Cfg[Peer[Source[x]]])

(* What the e-th Consecutive Frame of x adds. *)
Piece(n, x, e) == SubSeq(Payload(x), At(n, e) + 1, Lesser(At(n, e + 1), Length[x]))

(* Padding is cut off.                                                     *)
LEMMA PadCut ==
    ASSUME NEW data \in Seq(Byte), NEW k \in 0..Len(data), PaddedAt(data, k)
    PROVE  UpToPad(data) = SubSeq(data, 1, k)
<1> DEFINE I == {i \in 1..Len(data) : data[i] = Pad}
           j == SelectInSeq(data, LAMBDA b : b = Pad)
<1>1. j = IF I # {} THEN Min(I) ELSE 0
  BY DEF SelectInSeq
<1>2. Len(data) \in Nat /\ k \in Nat /\ k <= Len(data)
  OBVIOUS
<1>3. I \subseteq Nat /\ \A i \in I : i \in 1..Len(data) /\ ~(i \in 1..k)
  BY DEF PaddedAt
<1>4. UpToPad(data) = IF j = 0 THEN data ELSE SubSeq(data, 1, j - 1)
  BY DEF UpToPad
<1>5. CASE k = Len(data)
  <2>1. \A i \in I : FALSE
    BY <1>3, <1>5
  <2> HIDE DEF I
  <2>2. I = {}
    BY <2>1
  <2>3. SubSeq(data, 1, Len(data)) = data
    OBVIOUS
  <2> QED BY <1>1, <1>4, <1>5, <2>2, <2>3
<1>6. CASE k # Len(data)
  <2>1. k + 1 \in I
    BY <1>2, <1>6 DEF PaddedAt
  <2>2. \A i \in I : k + 1 <= i /\ i \in Nat
    BY <1>2, <1>3
  <2> HIDE DEF I
  <2> DEFINE z == k + 1
  <2>3. z \in I /\ \A i \in I : z <= i /\ i \in Nat
    BY <2>1, <2>2
  <2> HIDE DEF z
  <2>4. Min(I) \in I /\ \A i \in I : Min(I) <= i
    BY <2>3 DEF Min
  <2>5. Min(I) = z
    <3>1. Min(I) <= z /\ z <= Min(I) /\ Min(I) \in Nat /\ z \in Nat
      BY <2>3, <2>4
    <3> QED BY <3>1
  <2>6. j = k + 1
    BY <1>1, <2>3, <2>5 DEF z
  <2> HIDE DEF j
  <2>7. j # 0 /\ j - 1 = k
    BY <1>2, <2>6
  <2> QED BY <1>4, <2>7
<1> QED BY <1>5, <1>6

(* A byte of a payload is not padding.                                     *)
LEMMA PayloadUnpadded ==
    ASSUME NEW x \in Msg, NEW i \in 1..Length[x]
    PROVE  Payload(x)[i] # Pad
<1>1. Payload(x)[i] = <<x, i>> /\ i \in Nat
  BY PayloadByte
<1>2. <<x, i>> \in Msg \X Nat
  BY <1>1
<1> QED BY <1>1, <1>2, PadAssumption

(* The beginning of a payload and the next piece.                          *)
LEMMA PieceFits ==
    ASSUME NEW n \in Node, NEW x \in Msg, NEW e \in Nat, At(n, e) < Length[x]
    PROVE  LET b == Lesser(At(n, e + 1), Length[x])
           IN  /\ Prefix(n, x, e) \in Seq(Byte) /\ Len(Prefix(n, x, e)) = At(n, e)
               /\ Piece(n, x, e) \in Seq(Byte) /\ Len(Piece(n, x, e)) = b - At(n, e)
               /\ Len(Piece(n, x, e)) <= max_consecutive_frame_payload(Cfg[n])
               /\ \A i \in 1..Len(Piece(n, x, e)) : Piece(n, x, e)[i] # Pad
               /\ Prefix(n, x, e) \o Piece(n, x, e)
                    = IF At(n, e + 1) < Length[x] THEN Prefix(n, x, e + 1) ELSE Payload(x)
<1> DEFINE a == At(n, e)
           v == At(n, e + 1)
           l == Length[x]
           b == Lesser(v, l)
           p == Payload(x)
           w == max_consecutive_frame_payload(Cfg[n])
<1>1. a \in Nat /\ v = a + w /\ w \in Nat /\ l \in Nat /\ a < l
  BY Steps, PayloadByte
<1>2. p \in Seq(Byte) /\ Len(p) = l
  BY PayloadByte
<1>3. Prefix(n, x, e) = SubSeq(p, 1, a) /\ Piece(n, x, e) = SubSeq(p, a + 1, b)
      /\ Prefix(n, x, e + 1) = SubSeq(p, 1, v)
  BY DEF Prefix, Piece
<1>4. \A i \in 1..l : p[i] # Pad
  BY PayloadUnpadded
<1> HIDE DEF a, v, l, p, w
<1>5. b \in 0..Len(p) /\ a \in 0..b /\ a \in 0..Len(p) /\ b - a <= w /\ b \in Nat
      /\ \A i \in 1..(b - a) : a + i \in 1..l
  BY <1>1, <1>2 DEF Lesser
<1> HIDE DEF b
<1>6. /\ SubSeq(p, 1, a) \in Seq(Byte) /\ SubSeq(p, a + 1, b) \in Seq(Byte)
      /\ Len(SubSeq(p, a + 1, b)) = b - a
      /\ \A i \in 1..(b - a) : SubSeq(p, a + 1, b)[i] = p[a + i]
      /\ SubSeq(p, 1, a) \o SubSeq(p, a + 1, b) = SubSeq(p, 1, b)
  BY <1>2, <1>5, CutTwice
<1>7. Len(SubSeq(p, 1, a)) = a
  BY <1>2, <1>5, PrefixOf
<1>8. \A i \in 1..(b - a) : SubSeq(p, a + 1, b)[i] # Pad
  BY <1>4, <1>5, <1>6
<1>9. SubSeq(p, 1, b) = IF v < l THEN SubSeq(p, 1, v) ELSE p
  <2>1. CASE v < l
    BY <1>1, <2>1 DEF b, Lesser
  <2>2. CASE ~(v < l)
    <3>1. b = l
      BY <1>1, <2>2 DEF b, Lesser
    <3>2. SubSeq(p, 1, Len(p)) = p
      BY <1>2
    <3> QED BY <1>2, <2>2, <3>1, <3>2
  <2> QED BY <2>1, <2>2
<1> QED BY <1>3, <1>5, <1>6, <1>7, <1>8, <1>9 DEF a, v, l, p, w, b

(* A frame that ends with its data contributes all of it.                  *)
LEMMA AllBytes ==
    ASSUME NEW data \in Seq(Byte), \A i \in 1..Len(data) : data[i] # Pad
    PROVE  UpToPad(data) = data
<1>1. Len(data) \in 0..Len(data) /\ PaddedAt(data, Len(data)) /\ SubSeq(data, 1, Len(data)) = data
  BY DEF PaddedAt
<1> QED BY <1>1, PadCut

(* Whatever the frame.                                                     *)
LEMMA BytesFit ==
    ASSUME NEW f, FrameFits(f)
    PROVE  BytesOf(f) \in Seq(Byte)
<1>1. CASE f.kind \in {"SF", "FF", "CF"}
  <2> DEFINE data == f.data
             I == {i \in 1..Len(data) : data[i] = Pad}
             j == SelectInSeq(data, LAMBDA b : b = Pad)
  <2>1. data \in Seq(Byte) /\ BytesOf(f) = IF j = 0 THEN data ELSE SubSeq(data, 1, j - 1)
    BY <1>1 DEF FrameFits, BytesOf, UpToPad
  <2>2. j = IF I # {} THEN Min(I) ELSE 0
    BY DEF SelectInSeq
  <2>3. I \subseteq Nat /\ I \subseteq 1..Len(data)
    OBVIOUS
  <2> HIDE DEF I, data
  <2>4. j = 0 \/ j \in 1..Len(data)
    BY <2>2, <2>3, StopsAt
  <2> HIDE DEF j
  <2>5. CASE j \in 1..Len(data)
    <3>1. j - 1 \in 0..Len(data)
      BY <2>1, <2>5
    <3>2. SubSeq(data, 1, j - 1) \in Seq(Byte)
      BY <2>1, <3>1, PrefixOf
    <3> QED BY <2>1, <2>5, <3>2
  <2> QED BY <2>1, <2>4, <2>5
<1>2. CASE f.kind \notin {"SF", "FF", "CF"}
  BY <1>2 DEF BytesOf
<1> QED BY <1>1, <1>2

(* What each frame of a message contributes.                               *)
LEMMA FrameBytes ==
    ASSUME NonEmpty, NEW n \in Node, NEW f, NEW x \in Msg
    PROVE  /\ Sf(n, f, x) => BytesOf(f) = Payload(x)
           /\ Ff(n, f, x) => BytesOf(f) = Prefix(n, x, 0)
           /\ \A e \in Nat : Cf(n, f, x, e) => BytesOf(f) = Piece(n, x, e)
<1>1. Payload(x) \in Seq(Byte) /\ \A i \in 1..Len(Payload(x)) : Payload(x)[i] # Pad
  BY PayloadByte, PayloadUnpadded
<1>2. ASSUME Sf(n, f, x) PROVE BytesOf(f) = Payload(x)
  <2>1. f.kind = "SF" /\ f.data = Payload(x)
    BY <1>2, SfKnown
  <2> QED BY <1>1, <2>1, AllBytes DEF BytesOf
<1>3. ASSUME Ff(n, f, x) PROVE BytesOf(f) = Prefix(n, x, 0)
  <2> DEFINE d == f.data
  <2>1. f.kind = "FF" /\ d = Prefix(n, x, 0) /\ At(n, 0) < Length[x] /\ d \in Seq(Byte)
        /\ Len(d) = At(n, 0)
    BY <1>3, FfKnown
  <2>2. At(n, 0) \in 0..Len(Payload(x))
    <3> DEFINE a == At(n, 0)
               l == Length[x]
    <3>1. a \in Nat /\ l \in Nat /\ Len(Payload(x)) = l
      BY Steps, PayloadByte
    <3>2. a < l
      BY <2>1
    <3> HIDE DEF a, l
    <3>3. a \in 0..l
      BY <3>1, <3>2
    <3> QED BY <3>1, <3>3 DEF a, l
  <2>3. \A i \in 1..Len(d) : d[i] = Payload(x)[i] /\ i \in 1..Len(Payload(x))
    <3>1. \A i \in 1..At(n, 0) : SubSeq(Payload(x), 1, At(n, 0))[i] = Payload(x)[i]
      BY <1>1, <2>2, PrefixOf
    <3> QED BY <2>1, <2>2, <3>1 DEF Prefix
  <2>4. \A i \in 1..Len(d) : d[i] # Pad
    BY <1>1, <2>3
  <2> HIDE DEF d
  <2>5. UpToPad(d) = d
    BY <2>1, <2>4, AllBytes
  <2> QED BY <2>1, <2>5 DEF BytesOf, d
<1>4. ASSUME NEW e \in Nat, Cf(n, f, x, e) PROVE BytesOf(f) = Piece(n, x, e)
  <2> DEFINE c == Piece(n, x, e)
             d == f.data
             m == max_consecutive_frame_payload(Cfg[n])
             gap == m - Len(c)
             pad == [i \in 1..gap |-> Pad]
  <2>1. f.kind = "CF" /\ At(n, e) < Length[x] /\ d = Padded(Cfg[n], c)
    BY <1>4 DEF Cf, Piece
  <2>2. /\ c \in Seq(Byte) /\ Len(c) <= m /\ Len(c) \in Nat /\ m \in Nat
        /\ \A i \in 1..Len(c) : c[i] # Pad
    <3>1. m \in Nat
      BY Steps
    <3>2. c \in Seq(Byte) /\ Len(c) <= m /\ \A i \in 1..Len(c) : c[i] # Pad
      BY <2>1, PieceFits
    <3> QED BY <3>1, <3>2
  <2>3. d \in Seq(Byte) /\ Len(d) \in Len(c)..m /\ \A i \in 1..Len(c) : d[i] = c[i]
    BY <2>1, <2>2, PaddedFits
  <2>4. d = IF Cfg[n].padding THEN c \o pad ELSE c
    BY <2>1 DEF Padded
  <2> HIDE DEF c, d, m
  <2>5. gap \in Nat /\ Len(c) \in 0..Len(d) /\ Len(d) \in Nat
    BY <2>2, <2>3
  <2>6. Len(c) < Len(d) => d[Len(c) + 1] = Pad
    <3> SUFFICES ASSUME Len(c) < Len(d) PROVE d[Len(c) + 1] = Pad
      OBVIOUS
    <3>1. d = c \o pad
      <4>1. ~(Len(c) < Len(c))
        BY <2>2
      <4> QED BY <2>4, <4>1
    <3>2. pad \in [1..gap -> Byte]
      BY DEF Byte
    <3>3. pad \in Seq(Byte) /\ Len(pad) = gap
      BY <2>5, <3>2
    <3>4. \A i \in 1..gap : pad[i] = Pad
      OBVIOUS
    <3> HIDE DEF pad
    <3>5. /\ Len(c \o pad) = Len(c) + Len(pad)
          /\ \A i \in 1..(Len(c) + Len(pad)) :
                (c \o pad)[i] = IF i <= Len(c) THEN c[i] ELSE pad[i - Len(c)]
      BY <2>2, <3>3, ConcatProperties
    <3> DEFINE z == Len(c) + 1
    <3>6. z \in 1..(Len(c) + Len(pad)) /\ ~(z <= Len(c)) /\ z - Len(c) = 1 /\ 1 \in 1..gap
      BY <2>2, <2>5, <3>1, <3>3, <3>5
    <3> HIDE DEF z, gap
    <3>7. (c \o pad)[z] = pad[1]
      BY <3>5, <3>6
    <3> QED BY <3>1, <3>4, <3>6, <3>7 DEF z
  <2>7. PaddedAt(d, Len(c))
    BY <2>2, <2>3, <2>6 DEF PaddedAt
  <2>8. UpToPad(d) = SubSeq(d, 1, Len(c))
    BY <2>3, <2>5, <2>7, PadCut
  <2>9. SubSeq(d, 1, Len(c)) = c
    <3>1. SubSeq(d, 1, Len(c)) \in Seq(Byte) /\ Len(SubSeq(d, 1, Len(c))) = Len(c)
          /\ \A i \in 1..Len(c) : SubSeq(d, 1, Len(c))[i] = d[i]
      BY <2>3, <2>5, PrefixOf
    <3> QED BY <2>2, <2>3, <3>1, SeqEqual
  <2> QED BY <2>1, <2>8, <2>9 DEF BytesOf, c, d
<1> QED BY <1>2, <1>3, <1>4

-----------------------------------------------------------------------------
(* Where a transfer has come to: the message, its Consecutive Frames so    *)
(* far and the number of the next; NoMsg between two transfers.            *)
Place == [msg : Msg \cup {NoMsg}, done : Nat, sn : 0..(SnMod - 1)]

Inside(n, a) == a.msg \in Msg /\ At(n, a.done) < Length[a.msg]

Follows(n, a, b) ==
    IF At(n, a.done + 1) < Length[a.msg]
    THEN b.msg = a.msg /\ b.done = a.done + 1 /\ b.sn = NextSn(a.sn)
    ELSE b.msg = NoMsg

Whole(n, f, a, b) == f.kind = "SF" /\ a.msg = NoMsg /\ b.msg = NoMsg /\ \E x \in Msg : Sf(n, f, x)

Opens(n, f, a, b) ==
    f.kind = "FF" /\ a.msg = NoMsg /\ b.msg \in Msg /\ Ff(n, f, b.msg) /\ b.done = 0 /\ b.sn = 1

Extends(n, f, a, b) ==
    Inside(n, a) /\ Cf(n, f, a.msg, a.done) /\ f.sn = a.sn /\ Follows(n, a, b)

(* The frame f of n leads from a to b. *)
Leads(n, f, a, b) ==
    \/ f.kind \notin DataKinds /\ b = a
    \/ Whole(n, f, a, b) \/ Opens(n, f, a, b) \/ Extends(n, f, a, b)

LeadsAll(n, q, u) == \A j \in 1..Len(q) : Leads(n, q[j], u[j - 1], u[j])

(* The frames in q lead from a to b. *)
Path(n, q, a, b) ==
    \E u \in [0..Len(q) -> Place] : LeadsAll(n, q, u) /\ u[0] = a /\ u[Len(q)] = b

(* One frame more.                                                         *)
LEMMA PathGrows ==
    ASSUME NEW n, NEW q, QueueFits(q), NEW a, NEW b, Path(n, q, a, b),
           NEW f, NEW c \in Place, Leads(n, f, b, c)
    PROVE  Path(n, Append(q, f), a, c)
<1> DEFINE q2 == Append(q, f)
           l == Len(q)
<1>1. /\ l \in Nat /\ Len(q2) = l + 1 /\ q2[l + 1] = f
      /\ \A i \in 1..l : q2[i] = q[i]
      /\ \A i \in 1..Len(q2) : i \in 1..l \/ i = l + 1
  BY AppendAt
<1>2. PICK u \in [0..l -> Place] : LeadsAll(n, q, u) /\ u[0] = a /\ u[l] = b
  BY DEF Path
<1> HIDE DEF q2, l
<1> DEFINE v == [j \in 0..Len(q2) |-> IF j = l + 1 THEN c ELSE u[j]]
<1>3. v \in [0..Len(q2) -> Place]
  <2>1. \A j \in 0..Len(q2) : j = l + 1 \/ j \in 0..l
    BY <1>1
  <2> QED BY <1>2, <2>1
<1>4. v[0] = a /\ v[Len(q2)] = c /\ \A j \in 0..l : v[j] = u[j]
  <2>1. 0 \in 0..Len(q2) /\ 0 # l + 1 /\ Len(q2) \in 0..Len(q2) /\ Len(q2) = l + 1
        /\ \A j \in 0..l : j \in 0..Len(q2) /\ j # l + 1
    BY <1>1
  <2> QED BY <1>2, <2>1
<1> HIDE DEF v
<1>5. LeadsAll(n, q2, v)
  <2> SUFFICES ASSUME NEW j \in 1..Len(q2) PROVE Leads(n, q2[j], v[j - 1], v[j])
    BY DEF LeadsAll
  <2>1. CASE j = l + 1
    <3>1. j - 1 = l /\ l \in 0..l /\ j = Len(q2) /\ q2[j] = f
      BY <1>1, <2>1
    <3> QED BY <1>2, <1>4, <3>1
  <2>2. CASE j \in 1..l
    <3>1. j - 1 \in 0..l /\ j \in 0..l /\ q2[j] = q[j]
      BY <1>1, <2>2
    <3>2. Leads(n, q[j], u[j - 1], u[j])
      BY <1>2, <2>2 DEF LeadsAll, l
    <3> QED BY <1>4, <3>1, <3>2
  <2> QED BY <1>1, <2>1, <2>2
<1>6. Path(n, q2, a, c)
  BY <1>3, <1>4, <1>5 DEF Path
<1> QED BY <1>6 DEF q2

(* Frames without data lead nowhere.                                       *)
LEMMA PathStays ==
    ASSUME NEW n, NEW q, Len(q) \in Nat, NEW u \in [0..Len(q) -> Place], LeadsAll(n, q, u),
           NEW i \in 0..Len(q), \A j \in 1..i : q[j].kind \notin DataKinds
    PROVE  u[i] = u[0]
<1> DEFINE J == {j \in 0..i : u[j] # u[0]}
<1> SUFFICES ASSUME J # {} PROVE FALSE
  <2>1. i \in 0..i
    OBVIOUS
  <2> QED BY <2>1
<1>1. J \subseteq Nat
  OBVIOUS
<1>2. PICK j \in J : \A h \in J : j <= h
  BY <1>1, HasLeast
<1>3. j \in 0..i /\ u[j] # u[0]
  OBVIOUS
<1>4. j \in 1..i /\ j \in 1..Len(q) /\ j - 1 \in 0..i /\ ~(j <= j - 1)
  <2>1. j # 0
    BY <1>3
  <2> QED BY <1>3, <2>1
<1>5. u[j - 1] = u[0]
  BY <1>2, <1>4
<1>6. Leads(n, q[j], u[j - 1], u[j]) /\ q[j].kind \notin DataKinds
  BY <1>4 DEF LeadsAll
<1>7. u[j] = u[j - 1]
  BY <1>6 DEF Leads, Whole, Opens, Extends, Cf, DataKinds
<1> QED BY <1>3, <1>5, <1>7

(* The first frame with data.                                              *)
LEMMA PathTaken ==
    ASSUME NEW n, NEW q, Len(q) \in Nat, NEW a, NEW b, Path(n, q, a, b), NEW i \in 1..Len(q),
           \A j \in 1..(i - 1) : q[j].kind \notin DataKinds
    PROVE  \E c \in Place : Leads(n, q[i], a, c) /\ Path(n, After(q, i), c, b)
<1> DEFINE l == Len(q)
           q2 == After(q, i)
<1>1. PICK u \in [0..l -> Place] : LeadsAll(n, q, u) /\ u[0] = a /\ u[l] = b
  BY DEF Path
<1>2. i - 1 \in 0..l /\ i \in 0..l /\ l - i \in Nat /\ l \in Nat /\ i \in Nat
  OBVIOUS
<1>3. u[i - 1] = a
  <2> DEFINE h == i - 1
  <2>1. h \in 0..l /\ \A j \in 1..h : q[j].kind \notin DataKinds
    BY <1>2
  <2> HIDE DEF h
  <2>2. u[h] = u[0]
    BY <1>1, <2>1, PathStays
  <2> QED BY <1>1, <2>2 DEF h
<1>4. Leads(n, q[i], a, u[i]) /\ u[i] \in Place
  BY <1>1, <1>2, <1>3 DEF LeadsAll
<1>5. Len(q2) = l - i /\ \A j \in 1..(l - i) : q2[j] = q[i + j] /\ i + j \in 1..l
  BY <1>2 DEF After
<1> HIDE DEF q2, l
<1> DEFINE v == [j \in 0..Len(q2) |-> u[i + j]]
<1>6. \A j \in 0..(l - i) : i + j \in 0..l
  BY <1>2
<1>7. v \in [0..Len(q2) -> Place] /\ \A j \in 0..(l - i) : v[j] = u[i + j]
  BY <1>1, <1>5, <1>6
<1>8. v[0] = u[i] /\ v[Len(q2)] = b
  <2>1. 0 \in 0..(l - i) /\ l - i \in 0..(l - i) /\ i + (l - i) = l /\ i + 0 = i
    BY <1>2
  <2> HIDE DEF v
  <2>2. v[0] = u[i + 0] /\ v[l - i] = u[i + (l - i)]
    BY <1>7, <2>1
  <2> QED BY <1>1, <1>5, <2>1, <2>2
<1> HIDE DEF v
<1>9. LeadsAll(n, q2, v)
  <2> SUFFICES ASSUME NEW j \in 1..Len(q2) PROVE Leads(n, q2[j], v[j - 1], v[j])
    BY DEF LeadsAll
  <2>1. j \in 1..(l - i) /\ j \in 0..(l - i) /\ j - 1 \in 0..(l - i) /\ i + (j - 1) = (i + j) - 1
    BY <1>2, <1>5
  <2> DEFINE z == i + j
  <2>2. q2[j] = q[z] /\ z \in 1..l /\ v[j] = u[z] /\ v[j - 1] = u[z - 1]
    <3>1. v[j - 1] = u[i + (j - 1)]
      BY <1>7, <2>1
    <3> QED BY <1>5, <1>7, <2>1, <3>1
  <2> HIDE DEF z
  <2>3. Leads(n, q[z], u[z - 1], u[z])
    BY <1>1, <2>2 DEF LeadsAll, l
  <2> QED BY <2>2, <2>3
<1>10. Path(n, q2, u[i], b)
  BY <1>7, <1>8, <1>9 DEF Path
<1> QED BY <1>4, <1>10 DEF q2

(* No data, no way.                                                        *)
LEMMA PathEmpty ==
    ASSUME NEW n, NEW q, Len(q) \in Nat, NEW a, NEW b, Path(n, q, a, b),
           \A j \in 1..Len(q) : q[j].kind \notin DataKinds
    PROVE  a = b /\ Path(n, <<>>, a, b)
<1>1. PICK u \in [0..Len(q) -> Place] : LeadsAll(n, q, u) /\ u[0] = a /\ u[Len(q)] = b
  BY DEF Path
<1>2. Len(q) \in 0..Len(q) /\ 0 \in 0..Len(q)
  OBVIOUS
<1>3. a = b /\ a \in Place
  <2>1. u[Len(q)] = u[0]
    BY <1>1, <1>2, PathStays
  <2> QED BY <1>1, <1>2, <2>1
<1> DEFINE v == [j \in 0..0 |-> a]
<1>4. v \in [0..Len(<<>>) -> Place] /\ v[0] = a /\ v[Len(<<>>)] = a /\ LeadsAll(n, <<>>, v)
  BY <1>3 DEF LeadsAll
<1> HIDE DEF v
<1>5. Path(n, <<>>, a, b)
  BY <1>3, <1>4 DEF Path
<1> QED BY <1>3, <1>5

(* What of an open transfer the receiver holds. *)
Part(r) == IF r.state = "Receiving" THEN r.content ELSE <<>>

(* How much of y has left a sender in state t whose message is m. *)
SaidOf(m, t, y) ==
    IF m # y THEN Payload(y)
    ELSE IF t.state = "Idle" THEN <<>>
    ELSE SubSeq(Payload(y), 1, t.session.offset)

SaidBy(S, m, t) == [i \in 1..Len(S) |-> SaidOf(m, t, S[i])]
Carried(q) == [i \in 1..Len(q) |-> BytesOf(q[i])]

Balance(S, m, t, q, r, D) ==
    FlattenSeq(D) \o Part(r) \o FlattenSeq(Carried(q)) = FlattenSeq(SaidBy(S, m, t))

(* The receiver has come to a. *)
HeardTo(n, r, a) ==
    IF r.state = "Idle" THEN a.msg = NoMsg
    ELSE /\ Inside(n, a)
         /\ r.content = Prefix(n, a.msg, a.done) /\ r.expected_len = Length[a.msg]
         /\ r.next_sn = a.sn

(* The sender has come to b. *)
SaidTo(n, m, t, b) ==
    IF t.state = "Idle" THEN b.msg = NoMsg
    ELSE /\ m \in Msg /\ b.msg = m /\ Inside(n, b)
         /\ t.session.offset = At(n, b.done) /\ t.session.next_sn = b.sn
         /\ t.state = "WaitingForFc" => t.timer > 0

(* From where the receiver is the frames on the way lead to where the      *)
(* sender is; it is not in the transfer before it has granted it.          *)
Between(n, m, t, q, g, r, a, b) ==
    /\ Path(n, q, a, b) /\ HeardTo(n, r, a) /\ SaidTo(n, m, t, b)
    /\ Begins(n, t) /\ NoGrant(g) => a.msg # m

GrantsOnly(g) == \A i \in 1..Len(g) : g[i].kind = "FC" => g[i].status = "ClearToSend"

Flows(n, S, m, t, q, g, r, D) ==
    /\ \E a, b \in Place : Between(n, m, t, q, g, r, a, b)
    /\ GrantsOnly(g)
    /\ Balance(S, m, t, q, r, D)

(* What each frame in a queue carries.                                     *)
LEMMA CarriedFits ==
    ASSUME NEW q, QueueFits(q)
    PROVE  /\ Carried(q) \in Seq(Seq(Byte)) /\ Len(Carried(q)) = Len(q)
           /\ \A i \in 1..Len(q) : Carried(q)[i] = BytesOf(q[i])
           /\ \A f : FrameFits(f) => Carried(Append(q, f)) = Append(Carried(q), BytesOf(f))
<1> DEFINE c == Carried(q)
           l == Len(q)
<1>1. PICK S : q \in Seq(S) /\ \A f \in S : FrameFits(f)
  BY DEF QueueFits
<1>2. l \in Nat /\ \A i \in 1..l : FrameFits(q[i])
  BY <1>1
<1>3. \A i \in 1..l : BytesOf(q[i]) \in Seq(Byte)
  BY <1>2, BytesFit
<1>4. c \in Seq(Seq(Byte)) /\ Len(c) = l /\ \A i \in 1..l : c[i] = BytesOf(q[i])
  <2>1. c \in [1..l -> Seq(Byte)]
    BY <1>3 DEF Carried
  <2> QED BY <1>2, <2>1 DEF Carried
<1>5. ASSUME NEW f, FrameFits(f) PROVE Carried(Append(q, f)) = Append(c, BytesOf(f))
  <2> DEFINE q2 == Append(q, f)
             u == Carried(q2)
             v == Append(c, BytesOf(f))
  <2>1. /\ Len(q2) = l + 1 /\ q2[l + 1] = f
        /\ \A i \in 1..l : i \in 1..Len(q2) /\ q2[i] = q[i]
        /\ \A i \in 1..Len(q2) : i \in 1..l \/ i = l + 1
    BY AppendAt
  <2>2. BytesOf(f) \in Seq(Byte)
    BY <1>5, BytesFit
  <2>3. v \in Seq(Seq(Byte)) /\ Len(v) = l + 1 /\ v[l + 1] = BytesOf(f)
        /\ \A i \in 1..l : v[i] = c[i]
    <3> HIDE DEF c
    <3> QED BY <1>2, <1>4, <2>2
  <2> HIDE DEF v, q2, c
  <2>4. u = [i \in 1..(l + 1) |-> BytesOf(q2[i])]
    BY <2>1 DEF Carried
  <2>5. \A i \in 1..(l + 1) : BytesOf(q2[i]) = v[i]
    <3> SUFFICES ASSUME NEW i \in 1..(l + 1) PROVE BytesOf(q2[i]) = v[i]
      OBVIOUS
    <3>1. CASE i \in 1..l
      BY <1>4, <2>1, <2>3, <3>1
    <3>2. CASE i = l + 1
      BY <2>1, <2>3, <3>2
    <3> QED BY <2>1, <3>1, <3>2
  <2>6. u = [i \in 1..(l + 1) |-> v[i]]
    BY <2>4, <2>5
  <2> HIDE DEF u, l
  <2>7. v = [i \in 1..(l + 1) |-> v[i]]
    BY <2>3
  <2> QED BY <2>6, <2>7 DEF u, v, c, q2
<1> QED BY <1>4, <1>5

(* How much is out is a part of the payload.                               *)
LEMMA SaidFits ==
    ASSUME NEW S \in Seq(Msg), NEW m, NEW t,
           t.state # "Idle" /\ m \in Msg => t.session.offset \in 0..Length[m]
    PROVE  /\ SaidBy(S, m, t) \in Seq(Seq(Byte)) /\ Len(SaidBy(S, m, t)) = Len(S)
           /\ \A i \in 1..Len(S) : SaidBy(S, m, t)[i] = SaidOf(m, t, S[i])
<1> DEFINE l == Len(S)
<1>1. l \in Nat /\ \A i \in 1..l : S[i] \in Msg
  OBVIOUS
<1>2. ASSUME NEW i \in 1..l PROVE SaidOf(m, t, S[i]) \in Seq(Byte)
  <2> DEFINE y == S[i]
  <2>1. y \in Msg /\ Payload(y) \in Seq(Byte) /\ Len(Payload(y)) = Length[y]
    BY <1>1, PayloadByte
  <2>2. <<>> \in Seq(Byte)
    OBVIOUS
  <2> HIDE DEF y
  <2>3. ASSUME m = y, t.state # "Idle" PROVE SubSeq(Payload(y), 1, t.session.offset) \in Seq(Byte)
    <3>1. t.session.offset \in 0..Len(Payload(y))
      BY <2>1, <2>3
    <3> QED BY <2>1, <3>1, PrefixOf
  <2> QED BY <2>1, <2>2, <2>3 DEF SaidOf, y
<1>3. SaidBy(S, m, t) \in [1..l -> Seq(Byte)] /\ \A i \in 1..l : SaidBy(S, m, t)[i] = SaidOf(m, t, S[i])
  BY <1>2 DEF SaidBy
<1> HIDE DEF l
<1>4. SaidBy(S, m, t) \in Seq(Seq(Byte)) /\ Len(SaidBy(S, m, t)) = l
  BY <1>1, <1>3
<1> QED BY <1>3, <1>4 DEF l

(* Bytes leave the sender in a frame.                                      *)
LEMMA BalanceSent ==
    ASSUME NEW S, NEW m \in Msg, NEW D, Story(S, m, D), NEW q, QueueFits(q), NEW f, FrameFits(f),
           NEW r, r.content \in Seq(Byte), NEW t, NEW t2, NEW m2 \in {m, NoMsg},
           Balance(S, m, t, q, r, D),
           t.state # "Idle" => t.session.offset \in 0..Length[m],
           t2.state # "Idle" => t2.session.offset \in 0..Length[m],
           SaidOf(m2, t2, m) = SaidOf(m, t, m) \o BytesOf(f)
    PROVE  Balance(S, m2, t2, Append(q, f), r, D)
<1> DEFINE u == SaidBy(S, m, t)
           v == SaidBy(S, m2, t2)
           l == Len(S)
           d == BytesOf(f)
           c == Carried(q)
<1>1. m # NoMsg /\ NoMsg \notin Msg
  BY NodeAssumption
<1>2. /\ S \in Seq(Msg) /\ D \in Seq(Seq(Byte)) /\ l > 0 /\ m = S[l] /\ l \in Nat
      /\ \A i, j \in 1..l : S[i] = S[j] => i = j
  BY <1>1 DEF Story
<1>3. /\ u \in Seq(Seq(Byte)) /\ Len(u) = l /\ \A i \in 1..l : u[i] = SaidOf(m, t, S[i])
  BY <1>2, SaidFits
<1>4. /\ v \in Seq(Seq(Byte)) /\ Len(v) = l /\ \A i \in 1..l : v[i] = SaidOf(m2, t2, S[i])
  BY <1>1, <1>2, SaidFits
<1>5. d \in Seq(Byte) /\ c \in Seq(Seq(Byte)) /\ Carried(Append(q, f)) = Append(c, d)
  BY BytesFit, CarriedFits
<1>6. FlattenSeq(Append(c, d)) = FlattenSeq(c) \o d
  BY <1>5, FlatAppend
<1>7. \A i \in 1..(l - 1) : i \in 1..l /\ i # l
  BY <1>2
<1>8. \A i \in 1..(l - 1) : v[i] = u[i]
  <2> SUFFICES ASSUME NEW i \in 1..(l - 1) PROVE v[i] = u[i]
    OBVIOUS
  <2>1. i \in 1..l /\ l \in 1..l /\ i # l
    BY <1>2, <1>7
  <2>2. S[i] # m /\ S[i] \in Msg
    BY <1>2, <2>1
  <2>3. SaidOf(m, t, S[i]) = Payload(S[i]) /\ SaidOf(m2, t2, S[i]) = Payload(S[i])
    BY <1>1, <2>2 DEF SaidOf
  <2> QED BY <1>3, <1>4, <2>1, <2>3
<1>9. v[l] = u[l] \o d
  <2>1. l \in 1..l
    BY <1>2
  <2>2. u[l] = SaidOf(m, t, m) /\ v[l] = SaidOf(m2, t2, m)
    BY <1>2, <1>3, <1>4, <2>1
  <2> QED BY <2>2
<1> HIDE DEF u, v, l, d, c
<1>10. FlattenSeq(v) = FlattenSeq(u) \o d
  <2>1. Len(v) = Len(u) /\ Len(u) # 0 /\ v[Len(u)] = u[Len(u)] \o d
        /\ \A i \in 1..(Len(u) - 1) : v[i] = u[i]
    BY <1>2, <1>3, <1>4, <1>8, <1>9
  <2>2. u \in Seq(Seq(Byte)) /\ v \in Seq(Seq(Byte)) /\ d \in Seq(Byte)
    BY <1>3, <1>4, <1>5
  <2> QED BY <2>1, <2>2, FlatLonger
<1>11. /\ FlattenSeq(D) \in Seq(Byte) /\ FlattenSeq(c) \in Seq(Byte) /\ Part(r) \in Seq(Byte)
       /\ FlattenSeq(D) \o Part(r) \in Seq(Byte)
  <2>1. FlattenSeq(D) \in Seq(Byte) /\ FlattenSeq(c) \in Seq(Byte) /\ Part(r) \in Seq(Byte)
    BY <1>2, <1>5, FlatFits DEF Part
  <2> QED BY <2>1
<1> DEFINE h == FlattenSeq(D) \o Part(r)
           z == FlattenSeq(c)
<1>12. h \o z = FlattenSeq(u)
  BY DEF Balance, u, c
<1> HIDE DEF h
<1>13. h \o (z \o d) = (h \o z) \o d
  <2>1. Associates(Byte)
    BY AnyAssoc
  <2>2. h \in Seq(Byte) /\ z \in Seq(Byte)
    BY <1>11 DEF h
  <2> HIDE DEF z
  <2> QED BY <1>5, <2>1, <2>2 DEF Associates
<1>14. h \o FlattenSeq(Carried(Append(q, f))) = FlattenSeq(v)
  BY <1>5, <1>6, <1>10, <1>12, <1>13
<1> QED BY <1>14 DEF Balance, h, v

(* A Consecutive Frame tells its message.                                  *)
LEMMA CfTells ==
    ASSUME NEW n \in Node, NEW f, NEW x \in Msg, NEW j \in Nat, Cf(n, f, x, j),
           NEW y \in Msg, NEW k \in Nat, Cf(n, f, y, k)
    PROVE  x = y
<1>1. ASSUME NEW z \in Msg, NEW e \in Nat, Cf(n, f, z, e)
      PROVE  \E i \in Nat : f.data[1] = <<z, i>>
  <2> DEFINE u == At(n, e)
             v == At(n, e + 1)
             l == Length[z]
             w == max_consecutive_frame_payload(Cfg[n])
             b == Lesser(v, l)
             p == Payload(z)
             c == Piece(n, z, e)
  <2>1. u \in Nat /\ v = u + w /\ w \in Nat \ {0} /\ l \in Nat
    BY Steps, PayloadByte
  <2>2. u < l /\ f.data = Padded(Cfg[n], c)
    BY <1>1 DEF Cf, Piece
  <2>3. p \in Seq(Byte) /\ Len(p) = l /\ \A i \in 1..l : p[i] = <<z, i>>
    BY PayloadByte
  <2>4. c = SubSeq(p, u + 1, b)
    BY DEF Piece
  <2>5. c \in Seq(Byte) /\ Len(c) <= w
    BY <2>2, PieceFits
  <2> HIDE DEF u, v, l, w, p, c
  <2>6. b \in 0..Len(p) /\ u \in 0..b /\ b - u > 0 /\ u + 1 \in 1..l /\ b - u \in Nat
    BY <2>1, <2>2, <2>3 DEF Lesser
  <2> HIDE DEF b
  <2>7. Len(c) = b - u /\ \A i \in 1..(b - u) : c[i] = p[u + i]
    BY <2>3, <2>4, <2>6, CutTwice
  <2>8. 1 \in 1..(b - u)
    BY <2>6
  <2>9. c[1] = <<z, u + 1>>
    BY <2>3, <2>6, <2>7, <2>8
  <2>10. f.data[1] = c[1]
    <3>1. \A i \in 1..Len(c) : Padded(Cfg[n], c)[i] = c[i]
      BY <2>5, PaddedFits DEF w
    <3> QED BY <2>2, <2>7, <2>8, <3>1
  <2>11. u + 1 \in Nat
    BY <2>1
  <2> QED BY <2>9, <2>10, <2>11
<1>2. PICK i \in Nat : f.data[1] = <<x, i>>
  BY <1>1
<1>3. PICK h \in Nat : f.data[1] = <<y, h>>
  BY <1>1
<1> QED BY <1>2, <1>3

(* A message that did not begin is not being received.                     *)
LEMMA NotYetHeard ==
    ASSUME NEW n \in Node, NEW S, NEW m \in Msg, NEW t, NEW q, NEW g, NEW r, NEW D, NEW k \in Nat,
           LinkAt(n, S, m, t, q, g, r, D, k), t.state = "Idle", QueueFits(q),
           NEW a \in Place, NEW b \in Place, Between(n, m, t, q, g, r, a, b)
    PROVE  a.msg # m
<1> SUFFICES ASSUME a.msg = m PROVE FALSE
  OBVIOUS
<1>1. NoMsg \notin Msg /\ Len(q) \in Nat
  BY NodeAssumption, QueueKept
<1>2. Path(n, q, a, b) /\ b.msg = NoMsg /\ r.state # "Idle"
  BY <1>1 DEF Between, HeardTo, SaidTo
<1>3. PICK j \in 1..Len(q) : q[j].kind \in DataKinds
  <2> SUFFICES ASSUME \A j \in 1..Len(q) : q[j].kind \notin DataKinds PROVE FALSE
    OBVIOUS
  <2>1. a = b
    BY <1>1, <1>2, PathEmpty
  <2> QED BY <1>1, <1>2, <2>1
<1>4. PICK i \in 1..j : /\ q[i].kind \in DataKinds
                        /\ \A h \in 1..(i - 1) : q[h].kind \notin DataKinds
  BY <1>1, <1>3, LeastData
<1>5. i \in 1..Len(q)
  BY <1>1
<1>6. PICK c \in Place : Leads(n, q[i], a, c)
  BY <1>1, <1>2, <1>4, <1>5, PathTaken
<1>7. Cf(n, q[i], m, a.done) /\ a.done \in Nat /\ q[i].kind = "CF"
  BY <1>1, <1>4, <1>6 DEF Leads, Whole, Opens, Extends, Cf, Place
<1>8. PICK x \in Msg, e \in Nat : Opened(n, S, m, t, q, g, r, D, k, x, e)
  BY <1>2 DEF LinkAt
<1>9. PICK no \in Nat : Cf(n, q[i], x, no)
  BY <1>5, <1>7, <1>8 DEF Opened, QueueFollows
<1>10. x = m
  BY <1>7, <1>9, CfTells
<1> QED BY <1>8, <1>10 DEF Opened, OpenFor

(* How far a session is.                                                   *)
LEMMA SaidWithin ==
    ASSUME NEW n \in Node, NEW m, NEW t, NEW b \in Place, SaidTo(n, m, t, b), t.state # "Idle"
    PROVE  /\ m \in Msg /\ b.done \in Nat /\ b.sn \in 0..(SnMod - 1)
           /\ t.session.offset = At(n, b.done) /\ At(n, b.done) < Length[m]
           /\ t.session.offset \in 0..Length[m]
<1> DEFINE u == At(n, b.done)
           l == Length[m]
<1>1. /\ m \in Msg /\ b.done \in Nat /\ b.sn \in 0..(SnMod - 1)
      /\ t.session.offset = u /\ u < l
  BY DEF SaidTo, Inside, Place
<1>2. u \in Nat /\ l \in Nat
  BY <1>1, Steps, PayloadByte
<1> HIDE DEF u, l
<1>3. t.session.offset \in 0..l
  BY <1>1, <1>2
<1> QED BY <1>1, <1>3 DEF u, l

(* start_send, Single Frame.                                               *)
LEMMA FlowSingle ==
    ASSUME NonEmpty, NEW n \in Node, NEW S, NEW m \in Msg, NEW t, NEW q, NEW g, NEW r, NEW D,
           NEW k, LinkAt(n, S, m, t, q, g, r, D, k), Flows(n, S, m, t, q, g, r, D),
           t.state = "Idle", QueueFits(q), r.content \in Seq(Byte),
           Length[m] <= max_single_frame_payload(Cfg[n])
    PROVE  Flows(n, S, NoMsg, t, Append(q, SingleFrame(Payload(m))), g, r, D)
<1> DEFINE f == SingleFrame(Payload(m))
<1>1. Payload(m) \in Seq(Byte) /\ Sf(n, f, m) /\ f.kind = "SF"
  BY PayloadByte DEF Sf, SingleFrame
<1>2. FrameFits(f) /\ BytesOf(f) = Payload(m)
  <2>1. BytesOf(f) = Payload(m)
    BY <1>1, FrameBytes
  <2> QED BY <1>1, <2>1, FramesFit
<1> HIDE DEF f
<1>3. PICK a, b \in Place : Between(n, m, t, q, g, r, a, b)
  BY DEF Flows
<1>4. Path(n, q, a, b) /\ HeardTo(n, r, a) /\ b.msg = NoMsg
  BY <1>3 DEF Between, SaidTo
<1>5. Leads(n, f, b, b)
  BY <1>1, <1>4 DEF Leads, Whole
<1>6. Path(n, Append(q, f), a, b)
  BY <1>4, <1>5, PathGrows
<1>7. Between(n, NoMsg, t, Append(q, f), g, r, a, b)
  BY <1>4, <1>6 DEF Between, SaidTo, Begins
<1>8. SaidOf(NoMsg, t, m) = SaidOf(m, t, m) \o BytesOf(f)
  <2>1. NoMsg # m
    BY NodeAssumption
  <2>2. <<>> \o Payload(m) = Payload(m)
    BY <1>1
  <2> QED BY <1>2, <2>1, <2>2 DEF SaidOf
<1>9. Balance(S, NoMsg, t, Append(q, f), r, D)
  <2>1. Story(S, m, D) /\ Balance(S, m, t, q, r, D) /\ NoMsg \in {m, NoMsg}
    BY DEF LinkAt, Flows
  <2> QED BY <1>2, <1>8, <2>1, BalanceSent
<1> QED BY <1>7, <1>9 DEF Flows, f

(* start_send, First Frame.                                                *)
LEMMA FlowFirst ==
    ASSUME NonEmpty, NEW n \in Node, NEW S, NEW m \in Msg, NEW t, NEW q, NEW g, NEW r, NEW D,
           NEW k \in Nat, LinkAt(n, S, m, t, q, g, r, D, k), Flows(n, S, m, t, q, g, r, D),
           t.state = "Idle", QueueFits(q), r.content \in Seq(Byte),
           Length[m] > max_single_frame_payload(Cfg[n]), NEW timer, timer > 0
    PROVE  Flows(n, S, m, WaitingForFc(NewSession(Cfg[n], Payload(m)), timer),
                 Append(q, FirstFrameOf(Cfg[n], Payload(m))), g, r, D)
<1> DEFINE f == FirstFrameOf(Cfg[n], Payload(m))
           s == NewSession(Cfg[n], Payload(m))
           t2 == WaitingForFc(s, timer)
           b2 == [msg |-> m, done |-> 0, sn |-> 1]
<1>1. Payload(m) \in Seq(Byte) /\ Len(Payload(m)) = Length[m] /\ Ff(n, f, m) /\ f.kind = "FF"
  BY PayloadByte DEF Ff, FirstFrameOf, FirstFrame
<1>2. FrameFits(f) /\ BytesOf(f) = Prefix(n, m, 0)
  <2>1. BytesOf(f) = Prefix(n, m, 0)
    BY <1>1, FrameBytes
  <2> QED BY <1>1, <2>1, FramesFit
<1>3. /\ t2.state = "WaitingForFc" /\ t2.timer = timer /\ t2.session.next_sn = 1
      /\ t2.session.offset = At(n, 0)
  <2>1. At(n, 0) = max_first_frame_payload(Cfg[n])
    BY Steps
  <2> QED BY <2>1 DEF WaitingForFc, NewSession
<1>4. b2 \in Place /\ b2.msg = m /\ b2.done = 0 /\ b2.sn = 1
  <2>1. 1 \in 0..(SnMod - 1)
    BY SnModAssumption
  <2> QED BY <2>1 DEF Place
<1>5. At(n, 0) < Length[m]
  BY <1>1, FfKnown
<1> HIDE DEF f, s, t2, b2
<1>6. PICK a, b \in Place : Between(n, m, t, q, g, r, a, b)
  BY DEF Flows
<1>7. Path(n, q, a, b) /\ HeardTo(n, r, a) /\ b.msg = NoMsg
  BY <1>6 DEF Between, SaidTo
<1>8. Leads(n, f, b, b2)
  BY <1>1, <1>4, <1>7 DEF Leads, Opens
<1>9. Path(n, Append(q, f), a, b2)
  BY <1>4, <1>7, <1>8, PathGrows
<1>10. a.msg # m
  BY <1>6, NotYetHeard
<1>11. SaidTo(n, m, t2, b2)
  BY <1>3, <1>4, <1>5 DEF SaidTo, Inside
<1>12. Between(n, m, t2, Append(q, f), g, r, a, b2)
  BY <1>7, <1>9, <1>10, <1>11 DEF Between
<1>13. SaidOf(m, t2, m) = SaidOf(m, t, m) \o BytesOf(f)
  <2>1. <<>> \o Prefix(n, m, 0) = Prefix(n, m, 0)
    <3>1. Prefix(n, m, 0) \in Seq(Byte)
      BY <1>2, BytesFit
    <3> QED BY <3>1
  <2> QED BY <1>2, <1>3, <2>1 DEF SaidOf, Prefix
<1>14. Balance(S, m, t2, Append(q, f), r, D)
  <2>1. Story(S, m, D) /\ Balance(S, m, t, q, r, D) /\ m \in {m, NoMsg}
    BY DEF LinkAt, Flows
  <2>2. t2.session.offset \in 0..Length[m]
    BY <1>3, <1>4, <1>11, SaidWithin
  <2> QED BY <1>2, <1>13, <2>1, <2>2, BalanceSent
<1> QED BY <1>4, <1>12, <1>14 DEF Flows, f, t2, s

(* continue_send.                                                          *)
LEMMA FlowConsecutive ==
    ASSUME NonEmpty, NEW n \in Node, Cfg[n].n_bs > 0, NEW S, NEW m \in Msg, NEW t, NEW q, NEW g,
           NEW r, NEW D, NEW k \in Nat, LinkAt(n, S, m, t, q, g, r, D, k),
           Flows(n, S, m, t, q, g, r, D),
           t.state = "Sending", t.session \in Session, QueueFits(q), r.content \in Seq(Byte)
    PROVE  LET t2 == AfterFrame(Cfg[n], t.session, Payload(m))
           IN  Flows(n, S, IF t2.state = "Idle" THEN NoMsg ELSE m, t2,
                     Append(q, NextFrame(Cfg[n], t.session, Payload(m))), g, r, D)
<1> DEFINE s == t.session
           f == NextFrame(Cfg[n], s, Payload(m))
           t2 == AfterFrame(Cfg[n], s, Payload(m))
           m2 == IF t2.state = "Idle" THEN NoMsg ELSE m
<1>1. PICK a, b \in Place : Between(n, m, t, q, g, r, a, b)
  BY DEF Flows
<1>2. Path(n, q, a, b) /\ HeardTo(n, r, a) /\ SaidTo(n, m, t, b)
  BY <1>1 DEF Between
<1> DEFINE e == b.done
           u == At(n, e)
           v == At(n, e + 1)
           l == Length[m]
<1>3. /\ e \in Nat /\ b.sn \in 0..(SnMod - 1) /\ s.offset = u /\ u < l /\ s.offset \in 0..l
      /\ s.next_sn = b.sn /\ b.msg = m /\ Inside(n, b)
  BY <1>2, SaidWithin DEF SaidTo
<1>4. s.payload_len = l /\ s \in Session
  BY DEF LinkAt, SessionOf
<1>5. u \in Nat /\ v \in Nat /\ l \in Nat /\ e + 1 \in Nat
  <2>1. e + 1 \in Nat /\ e \in Nat
    BY <1>3
  <2> HIDE DEF e
  <2>2. At(n, e) \in Nat /\ At(n, e + 1) \in Nat
    BY <2>1, Steps
  <2>3. l \in Nat
    BY PayloadByte
  <2> QED BY <2>1, <2>2, <2>3
<1>6. Payload(m) \in Seq(Byte) /\ Len(Payload(m)) = l
  BY PayloadByte
<1>7. Cf(n, f, m, e) /\ f.kind = "CF"
  <2> HIDE DEF f
  <2>1. Cf(n, f, m, e)
    BY <1>3, <1>4, NextIsCf DEF f
  <2> QED BY <2>1 DEF Cf
<1>8. f.sn = b.sn
  <2>1. f.sn = s.next_sn % SnMod
    BY DEF NextFrame, ConsecutiveFrame
  <2> QED BY <1>3, <2>1, NextSnFits
<1>9. FrameFits(f)
  <2>1. s.offset < s.payload_len /\ s.payload_len = Len(Payload(m))
    BY <1>3, <1>4, <1>6
  <2> QED BY <1>4, <1>6, <2>1, FramesFit
<1>10. BytesOf(f) = Piece(n, m, e)
  BY <1>3, <1>7, FrameBytes
<1>11. Prefix(n, m, e) \o Piece(n, m, e) = IF v < l THEN Prefix(n, m, e + 1) ELSE Payload(m)
  BY <1>3, PieceFits
<1>12. SaidOf(m, t, m) = Prefix(n, m, e)
  BY <1>3 DEF SaidOf, Prefix
<1>13. Story(S, m, D) /\ Balance(S, m, t, q, r, D) /\ m # NoMsg /\ m2 \in {m, NoMsg}
  BY NodeAssumption DEF LinkAt, Flows
<1> SUFFICES ASSUME TRUE
             PROVE  /\ \E b2 \in Place : Between(n, m2, t2, Append(q, f), g, r, a, b2)
                    /\ t2.state # "Idle" => t2.session.offset \in 0..l
                    /\ SaidOf(m2, t2, m) = Prefix(n, m, e) \o Piece(n, m, e)
  <2>1. Balance(S, m2, t2, Append(q, f), r, D)
    <3> HIDE DEF f, t2, m2, s, e, u, v, l
    <3>1. SaidOf(m2, t2, m) = SaidOf(m, t, m) \o BytesOf(f)
      BY <1>10, <1>12
    <3>2. t.state # "Idle" => t.session.offset \in 0..Length[m]
      BY <1>3 DEF s, l
    <3>3. t2.state # "Idle" => t2.session.offset \in 0..Length[m]
      BY DEF l
    <3> QED BY <1>9, <1>13, <3>1, <3>2, <3>3, BalanceSent
  <2> QED BY <2>1 DEF Flows
<1>14. CASE v >= l
  <2> DEFINE b2 == [msg |-> NoMsg, done |-> 0, sn |-> 0]
  <2>1. t2 = TxIdle
    BY <1>3, <1>4, <1>14, AfterFrameAt
  <2>2. t2.state = "Idle" /\ m2 = NoMsg
    BY <2>1 DEF TxIdle
  <2>3. b2 \in Place /\ b2.msg = NoMsg
    <3>1. 0 \in 0..(SnMod - 1)
      BY SnModAssumption
    <3> QED BY <3>1 DEF Place
  <2>4. ~(v < l)
    BY <1>5, <1>14
  <2> HIDE DEF f, t2, m2, b2, s
  <2>5. Follows(n, b, b2)
    BY <1>3, <2>3, <2>4 DEF Follows
  <2>6. Leads(n, f, b, b2)
    BY <1>3, <1>7, <1>8, <2>5 DEF Leads, Extends
  <2>7. Path(n, Append(q, f), a, b2)
    BY <1>2, <2>3, <2>6, PathGrows
  <2>8. Between(n, m2, t2, Append(q, f), g, r, a, b2)
    BY <1>2, <2>2, <2>3, <2>7 DEF Between, SaidTo, Begins
  <2>9. SaidOf(m2, t2, m) = Payload(m)
    BY <1>13, <2>2 DEF SaidOf
  <2> QED BY <1>11, <2>2, <2>3, <2>4, <2>8, <2>9
<1>15. CASE v < l
  <2> DEFINE b2 == [msg |-> m, done |-> e + 1, sn |-> NextSn(b.sn)]
  <2>1. /\ t2.session.offset = v /\ t2.session.next_sn = NextSn(s.next_sn)
        /\ t2.state = "Sending" \/ (t2.state = "WaitingForFc" /\ t2.timer = Timer(Cfg[n].n_bs))
    BY <1>3, <1>4, <1>15, AfterFrameAt, FrameNumbered
  <2>2. t2.state # "Idle" /\ m2 = m
    BY <2>1
  <2>3. b2 \in Place /\ b2.msg = m /\ b2.done = e + 1 /\ b2.sn = NextSn(b.sn)
    BY <1>3, <1>5, NextSnFits DEF Place
  <2>4. Timer(Cfg[n].n_bs) > 0
    BY CfgNumbers, TimerRuns
  <2> HIDE DEF f, t2, m2, b2, s
  <2>5. Follows(n, b, b2)
    BY <1>3, <1>15, <2>3 DEF Follows
  <2>6. Leads(n, f, b, b2)
    BY <1>3, <1>7, <1>8, <2>5 DEF Leads, Extends
  <2>7. Path(n, Append(q, f), a, b2)
    BY <1>2, <2>3, <2>6, PathGrows
  <2>8. SaidTo(n, m, t2, b2)
    BY <1>3, <1>15, <2>1, <2>2, <2>3, <2>4 DEF SaidTo, Inside
  <2>9. ~Begins(n, t2)
    <3>1. At(n, 0) \in Nat /\ At(n, 0) < v
      <4>1. e + 1 \in Nat /\ 0 < e + 1
        BY <1>3
      <4> HIDE DEF e
      <4> QED BY <4>1, Steps
    <3> HIDE DEF v
    <3>2. At(n, 0) # v
      BY <1>5, <3>1
    <3> QED BY <2>1, <3>2 DEF Begins
  <2>10. Between(n, m2, t2, Append(q, f), g, r, a, b2)
    BY <1>2, <2>2, <2>7, <2>8, <2>9 DEF Between
  <2>11. SaidOf(m2, t2, m) = Prefix(n, m, e + 1)
    BY <2>1, <2>2 DEF SaidOf, Prefix
  <2>12. t2.session.offset \in 0..l
    <3> HIDE DEF v, l
    <3>1. v \in 0..l
      BY <1>5, <1>15
    <3> QED BY <2>1, <3>1
  <2> QED BY <1>11, <1>15, <2>3, <2>10, <2>11, <2>12
<1> QED BY <1>5, <1>14, <1>15

(* continue_wait_for_fc, ClearToSend.                                      *)
LEMMA FlowCleared ==
    ASSUME NEW n \in Node, NEW S, NEW m, NEW t, NEW q, NEW g, NEW r, NEW D,
           Flows(n, S, m, t, q, g, r, D), t.state = "WaitingForFc", t.session \in Session,
           QueueFits(g), NEW i \in 1..Len(g), NEW f, NEW timer
    PROVE  Flows(n, S, m, Sending(Cleared(Cfg[n], t.session, f), timer), q, After(g, i), r, D)
<1> DEFINE s == Cleared(Cfg[n], t.session, f)
           t2 == Sending(s, timer)
<1>1. s.offset = t.session.offset /\ s.next_sn = t.session.next_sn
  BY DEF Cleared, Session
<1>2. t2.state = "Sending" /\ t2.session = s
  BY DEF Sending
<1> HIDE DEF s, t2
<1>3. PICK a, b \in Place : Between(n, m, t, q, g, r, a, b)
  BY DEF Flows
<1>4. Between(n, m, t2, q, After(g, i), r, a, b)
  BY <1>1, <1>2, <1>3 DEF Between, SaidTo, Begins
<1>5. GrantsOnly(After(g, i))
  <2>1. i \in 0..Len(g)
    OBVIOUS
  <2>2. \A j \in 1..Len(After(g, i)) : i + j \in 1..Len(g) /\ After(g, i)[j] = g[i + j]
    BY <2>1, RestAt
  <2> QED BY <2>2 DEF GrantsOnly, Flows
<1>6. SaidBy(S, m, t2) = SaidBy(S, m, t)
  BY <1>1, <1>2 DEF SaidBy, SaidOf
<1> QED BY <1>4, <1>5, <1>6 DEF Flows, Balance, t2, s

(* Answers and the clock.                                                  *)
LEMMA FlowAside ==
    ASSUME NEW n, NEW S, NEW m, NEW t, NEW q, NEW g, NEW r, NEW D,
           Flows(n, S, m, t, q, g, r, D), NEW g2, GrantsOnly(g2), NoGrant(g2) => NoGrant(g),
           NEW t2, t2 = t \/ (TxFits(t) /\ t2 = Later(t) /\ (t.state = "WaitingForFc" => t.timer # 1))
    PROVE  Flows(n, S, m, t2, q, g2, r, D)
<1>1. PICK a, b \in Place : Between(n, m, t, q, g, r, a, b)
  BY DEF Flows
<1>2. /\ t2.state = t.state /\ (t.state # "Idle" => t2.session = t.session)
      /\ t.state = "WaitingForFc" /\ t.timer > 0 => t2.timer > 0
  <2>1. CASE t2 = t
    BY <2>1
  <2>2. CASE TxFits(t) /\ t2 = Later(t) /\ (t.state = "WaitingForFc" => t.timer # 1)
    <3>1. t2.state = t.state /\ (t.state # "Idle" => t2.session = t.session)
      BY <2>2, LaterFits
    <3>2. ASSUME t.state = "WaitingForFc", t.timer > 0 PROVE t2.timer > 0
      <4>1. t.timer \in Nat /\ DOMAIN t = {"state", "session", "timer"}
        BY <2>2, <3>2 DEF TxFits, TxIdle
      <4>2. t2.timer = Saturating(t.timer, 1)
        BY <2>2, <3>2, <4>1 DEF Later
      <4> QED BY <2>2, <3>2, <4>1, <4>2 DEF Saturating
    <3> QED BY <3>1, <3>2
  <2> QED BY <2>1, <2>2
<1>3. Between(n, m, t2, q, g2, r, a, b)
  BY <1>1, <1>2 DEF Between, SaidTo, Begins
<1>4. SaidBy(S, m, t2) = SaidBy(S, m, t)
  BY <1>2 DEF SaidBy, SaidOf
<1> QED BY <1>3, <1>4 DEF Flows, Balance

(* Another station's frame.                                                *)
LEMMA FlowForeign ==
    ASSUME NEW n, NEW S, NEW m, NEW t, NEW q, NEW g, NEW r, NEW D,
           Flows(n, S, m, t, q, g, r, D), QueueFits(q), NEW f, f.kind = "Foreign"
    PROVE  Flows(n, S, m, t, Append(q, f), g, r, D)
<1>1. PICK a, b \in Place : Between(n, m, t, q, g, r, a, b)
  BY DEF Flows
<1>2. Leads(n, f, b, b)
  BY DEF Leads, DataKinds
<1>3. Path(n, Append(q, f), a, b)
  BY <1>1, <1>2, PathGrows DEF Between
<1>4. Between(n, m, t, Append(q, f), g, r, a, b)
  BY <1>1, <1>3 DEF Between
<1>5. FrameFits(f) /\ BytesOf(f) = <<>>
  BY DEF FrameFits, BytesOf
<1> DEFINE c == Carried(q)
<1>6. c \in Seq(Seq(Byte)) /\ Carried(Append(q, f)) = Append(c, <<>>)
  BY <1>5, CarriedFits
<1> HIDE DEF c
<1>7. FlattenSeq(Append(c, <<>>)) = FlattenSeq(c)
  <2>1. <<>> \in Seq(Byte) /\ FlattenSeq(c) \in Seq(Byte)
    BY <1>6, FlatFits
  <2>2. FlattenSeq(Append(c, <<>>)) = FlattenSeq(c) \o <<>>
    BY <1>6, <2>1, FlatAppend
  <2> QED BY <2>1, <2>2
<1>8. Balance(S, m, t, Append(q, f), r, D)
  BY <1>6, <1>7 DEF Flows, Balance, c
<1> QED BY <1>4, <1>8 DEF Flows

(* The application submits its next message.                               *)
LEMMA FlowSubmit ==
    ASSUME NEW n, NEW S \in Seq(Msg), NEW t, NEW q, NEW g, NEW r, NEW D,
           Flows(n, S, NoMsg, t, q, g, r, D), t.state = "Idle",
           NEW x \in Msg, ~Contains(S, x)
    PROVE  Flows(n, Append(S, x), x, t, q, g, r, D)
<1>1. PICK a, b \in Place : Between(n, NoMsg, t, q, g, r, a, b)
  BY DEF Flows
<1>2. Between(n, x, t, q, g, r, a, b)
  BY <1>1 DEF Between, SaidTo, Begins
<1> DEFINE S2 == Append(S, x)
           u == SaidBy(S, NoMsg, t)
           v == SaidBy(S2, x, t)
           w == Append(u, <<>>)
           l == Len(S)
<1>3. l \in Nat /\ Len(S2) = l + 1 /\ S2[l + 1] = x /\ \A i \in 1..l : S2[i] = S[i] /\ S[i] \in Msg
  OBVIOUS
<1>4. \A i \in 1..l : S[i] # x
  BY DEF Contains
<1>5. u \in Seq(Seq(Byte)) /\ Len(u) = l /\ \A i \in 1..l : u[i] = SaidOf(NoMsg, t, S[i])
  BY SaidFits
<1>6. v = [i \in 1..Len(S2) |-> SaidOf(x, t, S2[i])]
  BY DEF SaidBy
<1> HIDE DEF S2, u, v, l
<1>7. w \in Seq(Seq(Byte)) /\ Len(w) = l + 1 /\ w[l + 1] = <<>> /\ \A i \in 1..l : w[i] = u[i]
  <2>1. <<>> \in Seq(Byte)
    OBVIOUS
  <2> QED BY <1>3, <1>5, <2>1
<1> HIDE DEF w
<1>8. \A i \in 1..(l + 1) : SaidOf(x, t, S2[i]) = w[i]
  <2> SUFFICES ASSUME NEW i \in 1..(l + 1) PROVE SaidOf(x, t, S2[i]) = w[i]
    OBVIOUS
  <2>1. CASE i \in 1..l
    <3>1. SaidOf(x, t, S[i]) = Payload(S[i]) /\ SaidOf(NoMsg, t, S[i]) = Payload(S[i])
      BY <1>3, <1>4, <2>1, NodeAssumption DEF SaidOf
    <3> QED BY <1>3, <1>5, <1>7, <2>1, <3>1
  <2>2. CASE i = l + 1
    BY <1>3, <1>7, <2>2 DEF SaidOf
  <2>3. i \in 1..l \/ i = l + 1
    BY <1>3
  <2> QED BY <2>1, <2>2, <2>3
<1>9. v = w
  <2>1. v = [i \in 1..(l + 1) |-> w[i]]
    BY <1>3, <1>6, <1>8
  <2>2. w = [i \in 1..(l + 1) |-> w[i]]
    BY <1>7
  <2> QED BY <2>1, <2>2
<1>10. FlattenSeq(v) = FlattenSeq(u)
  <2>1. <<>> \in Seq(Byte) /\ FlattenSeq(u) \in Seq(Byte)
    BY <1>5, FlatFits
  <2>2. FlattenSeq(w) = FlattenSeq(u) \o <<>>
    BY <1>5, <2>1, FlatAppend DEF w
  <2> QED BY <1>9, <2>1, <2>2
<1>11. Balance(S2, x, t, q, r, D)
  BY <1>10 DEF Flows, Balance, u, v
<1> QED BY <1>2, <1>11 DEF Flows, S2

(* All messages are of n. *)
Sole(n) == \A x \in Msg : Source[x] = n

(* The receiver r takes all the bytes of f, and goes from a to c. *)
Takes(n, r, f, u, a, c) ==
    /\ u.out \in {"None", "SendFlowControl", "Completed"}
    /\ u.rx.content = Part(r) \o BytesOf(f)
    /\ u.rx.state = "Idle" <=> u.out = "Completed"
    /\ HeardTo(n, u.rx, c)
    /\ u.out # "SendFlowControl" => c.msg \in {a.msg, NoMsg}

(* There is room for each message.                                         *)
LEMMA RoomFor ==
    ASSUME Roomy, NEW n \in Node, Sole(n), NEW x \in Msg
    PROVE  /\ Length[x] <= Cfg[n].max_payload_len
           /\ ~(Length[x] > Room(Cfg[Peer[n]])) /\ ~(Length[x] > Cfg[Peer[n]].capacity)
<1> DEFINE c == Cfg[Peer[n]]
<1>1. Length[x] <= Cfg[n].max_payload_len /\ Length[x] <= Room(c)
  BY DEF Roomy, Sole
<1>2. c.max_payload_len \in Nat /\ c.capacity \in Nat /\ Length[x] \in Nat
  BY Pairs, CfgAssumption, PayloadByte DEF ValidConfig
<1> HIDE DEF c
<1> QED BY <1>1, <1>2 DEF Room, Lesser, c

(* handle_single and handle_first.                                         *)
LEMMA StartTaken ==
    ASSUME NonEmpty, Roomy, NEW n \in Node, Sole(n), NEW r, RxFits(r), NEW f,
           NEW a \in Place, NEW c \in Place, HeardTo(n, r, a),
           Whole(n, f, a, c) \/ Opens(n, f, a, c),
           NEW u, u = on_pdu(Cfg[Peer[n]], r, f)
    PROVE  Takes(n, r, f, u, a, c)
<1> DEFINE w == Cfg[Peer[n]]
<1>1. r.state = "Idle" /\ Part(r) = <<>> /\ a.msg = NoMsg
  BY NodeAssumption DEF Whole, Opens, HeardTo, Inside, Part
<1>2. CASE Whole(n, f, a, c)
  <2>1. PICK x \in Msg : Sf(n, f, x)
    BY <1>2 DEF Whole
  <2>2. f.kind = "SF" /\ f.data = Payload(x) /\ BytesOf(f) = Payload(x) /\ c.msg = NoMsg
    BY <1>2, <2>1, SfKnown, FrameBytes DEF Whole
  <2>3. Payload(x) \in Seq(Byte) /\ ~(Len(Payload(x)) > Room(w))
    BY RoomFor, PayloadByte
  <2> HIDE DEF w
  <2>4. u = Returns([r EXCEPT !.content = f.data], "Completed")
    BY <1>1, <2>2, <2>3 DEF on_pdu, handle_single, w
  <2>5. u.out = "Completed" /\ u.rx.content = Payload(x) /\ u.rx.state = "Idle"
    BY <1>1, <2>2, <2>4 DEF Returns, RxFits, RxFields
  <2>6. <<>> \o Payload(x) = Payload(x)
    BY <2>3
  <2> QED BY <1>1, <2>2, <2>5, <2>6 DEF Takes, HeardTo
<1>3. CASE Opens(n, f, a, c)
  <2> DEFINE x == c.msg
             d == f.data
  <2>1. /\ x \in Msg /\ f.kind = "FF" /\ f.len = Length[x] /\ d = Prefix(n, x, 0) /\ d \in Seq(Byte)
        /\ Len(d) = At(n, 0) /\ At(n, 0) < Length[x] /\ BytesOf(f) = d /\ c.done = 0 /\ c.sn = 1
    BY <1>3, FfKnown, FrameBytes DEF Opens
  <2>2. ~(Length[x] > Room(w)) /\ Length[x] \in Nat
    BY <2>1, RoomFor, PayloadByte
  <2> HIDE DEF x, d, w
  <2>3. SubSeq(d, 1, Lesser(Len(d), f.len)) = d
    <3>1. Lesser(Len(d), f.len) = Len(d)
      BY <2>1, <2>2 DEF Lesser
    <3> QED BY <2>1, <3>1
  <2> DEFINE r2 == [state |-> "Receiving", content |-> d, expected_len |-> f.len, next_sn |-> 1,
                    block_size |-> w.block_size, block_remaining |-> w.block_size]
  <2>4. u = Returns(r2, "SendFlowControl")
    BY <1>1, <2>1, <2>2, <2>3 DEF on_pdu, handle_first, w, d
  <2>5. u.out = "SendFlowControl" /\ u.rx = r2
    BY <2>4 DEF Returns
  <2>6. <<>> \o d = d
    BY <2>1
  <2>7. HeardTo(n, r2, c)
    BY <2>1 DEF HeardTo, Inside, x
  <2> QED BY <1>1, <2>1, <2>5, <2>6, <2>7 DEF Takes
<1> QED BY <1>2, <1>3

(* handle_consecutive.                                                     *)
LEMMA ChunkTaken ==
    ASSUME NonEmpty, Roomy, NEW n \in Node, Sole(n), NEW r, RxFits(r), NEW f,
           NEW a \in Place, NEW c \in Place, HeardTo(n, r, a), Extends(n, f, a, c),
           NEW u, u = on_pdu(Cfg[Peer[n]], r, f)
    PROVE  Takes(n, r, f, u, a, c)
<1> DEFINE w == Cfg[Peer[n]]
           x == a.msg
           e == a.done
           l == Length[x]
           v == At(n, e + 1)
           all == r.content \o Chunk(r, f.data)
           z == Extended(r, f.data)
<1>1. /\ x \in Msg /\ e \in Nat /\ At(n, e) < l /\ Cf(n, f, x, e) /\ f.kind = "CF" /\ f.sn = a.sn
      /\ Follows(n, a, c)
  BY DEF Extends, Inside, Place, Cf
<1>2. /\ r.state = "Receiving" /\ r.content = Prefix(n, x, e) /\ r.expected_len = l /\ r.next_sn = a.sn
      /\ Part(r) = r.content /\ r.content \in Seq(Byte)
  BY <1>1, NodeAssumption DEF HeardTo, RxFits, Part
<1>3. BytesOf(f) = Piece(n, x, e)
  BY <1>1, FrameBytes
<1>4. Prefix(n, x, e) \o Piece(n, x, e) = IF v < l THEN Prefix(n, x, e + 1) ELSE Payload(x)
  BY <1>1, PieceFits
<1>5. Len(r.content) = At(n, e) /\ At(n, e) \in Nat /\ v \in Nat /\ l \in Nat
  <2>1. Len(r.content) = At(n, e) /\ l \in Nat
    BY <1>1, <1>2, PieceFits, PayloadByte
  <2>2. e + 1 \in Nat /\ e \in Nat
    BY <1>1
  <2> HIDE DEF e
  <2>3. At(n, e) \in Nat /\ At(n, e + 1) \in Nat
    BY <2>2, Steps
  <2> QED BY <2>1, <2>3
<1>6. ~(Len(r.content) >= r.expected_len) /\ Len(r.content) < l /\ Len(r.content) <= At(n, e)
  <2> HIDE DEF l, e, v, x
  <2> QED BY <1>1, <1>2, <1>5
<1>7. /\ Len(all) = Lesser(v, l) /\ all = SubSeq(Payload(x), 1, Lesser(v, l))
      /\ Len(all) \in Nat /\ Len(all) <= l
  <2>1. Heard(n, x, e, e, r.content, all)
    BY <1>1, <1>2, <1>6, ChunkHeard
  <2> QED BY <1>2, <2>1 DEF Heard
<1>8. all = r.content \o BytesOf(f)
  <2>1. CASE v < l
    <3>1. Lesser(v, l) = v
      BY <1>5, <2>1 DEF Lesser
    <3>2. all = Prefix(n, x, e + 1)
      BY <1>7, <3>1 DEF Prefix
    <3> QED BY <1>2, <1>3, <1>4, <2>1, <3>2
  <2>2. CASE ~(v < l)
    <3>1. Lesser(v, l) = l
      <4> HIDE DEF v, l
      <4> QED BY <1>5, <2>2 DEF Lesser
    <3>2. Payload(x) \in Seq(Byte) /\ Len(Payload(x)) = l
      BY <1>1, PayloadByte
    <3>3. SubSeq(Payload(x), 1, Len(Payload(x))) = Payload(x)
      BY <3>2
    <3>4. all = Payload(x)
      BY <1>7, <3>1, <3>2, <3>3
    <3> QED BY <1>2, <1>3, <1>4, <2>2, <3>4
  <2> QED BY <2>1, <2>2
<1>9. ~(Len(all) > w.capacity)
  <2>1. ~(l > w.capacity)
    BY <1>1, RoomFor
  <2>2. w.capacity \in Nat
    BY Pairs, CfgAssumption
  <2> HIDE DEF l, w, all
  <2> QED BY <1>5, <1>7, <2>1, <2>2
<1>10. /\ z.content = all /\ z.next_sn = NextSn(r.next_sn) /\ z.state = r.state
       /\ z.expected_len = r.expected_len /\ z.block_size = r.block_size /\ DOMAIN z = RxFields
  BY DEF Extended, RxFits, RxFields
<1>11. u = AfterChunk(z)
  <2>1. u = handle_consecutive(w, r, f)
    BY <1>1 DEF on_pdu
  <2>2. ~(r.state # "Receiving") /\ ~(f.sn # r.next_sn)
    BY <1>1, <1>2
  <2> HIDE DEF w, z
  <2> QED BY <1>6, <1>9, <2>1, <2>2 DEF handle_consecutive, z
<1> HIDE DEF z, all, w
<1> DEFINE left == Saturating(z.block_remaining, 1)
<1>12. CASE v < l
  <2>1. Lesser(v, l) = v
    BY <1>5, <1>12 DEF Lesser
  <2>2. ~(Len(z.content) >= z.expected_len)
    <3> HIDE DEF v, l
    <3> QED BY <1>2, <1>5, <1>7, <1>10, <1>12, <2>1
  <2>3. all = Prefix(n, x, e + 1)
    BY <1>7, <2>1 DEF Prefix
  <2> DEFINE less == [z EXCEPT !.block_remaining = left]
  <2>4. u \in {Returns(z, "None"), Returns(Reloaded(z), "SendFlowControl"), Returns(less, "None")}
    BY <1>11, <2>2 DEF AfterChunk
  <2> HIDE DEF left
  <2>5. \A h \in {z, Reloaded(z), less} :
            /\ h.content = z.content /\ h.next_sn = z.next_sn /\ h.state = z.state
            /\ h.expected_len = z.expected_len
    BY <1>10 DEF Reloaded, RxFields
  <2> HIDE DEF less
  <2>6. u.rx \in {z, Reloaded(z), less} /\ u.out \in {"None", "SendFlowControl"}
    BY <2>4 DEF Returns
  <2>7. /\ u.rx.content = all /\ u.rx.next_sn = NextSn(a.sn) /\ u.rx.state = "Receiving"
        /\ u.rx.expected_len = l
    BY <1>2, <1>10, <2>5, <2>6
  <2>8. c.msg = x /\ c.done = e + 1 /\ c.sn = NextSn(a.sn)
    BY <1>1, <1>12 DEF Follows
  <2>9. HeardTo(n, u.rx, c)
    BY <1>1, <1>12, <2>3, <2>7, <2>8 DEF HeardTo, Inside
  <2> QED BY <1>2, <1>8, <2>6, <2>7, <2>8, <2>9 DEF Takes
<1>13. CASE ~(v < l)
  <2>1. Lesser(v, l) = l
    <3> HIDE DEF v, l
    <3> QED BY <1>5, <1>13 DEF Lesser
  <2>2. Len(z.content) >= z.expected_len
    <3> HIDE DEF v, l
    <3> QED BY <1>2, <1>5, <1>7, <1>10, <2>1
  <2>3. u = Returns([z EXCEPT !.state = "Idle"], "Completed")
    BY <1>11, <2>2 DEF AfterChunk
  <2>4. u.rx.state = "Idle" /\ u.rx.content = all /\ u.out = "Completed"
    BY <1>10, <2>3 DEF Returns, RxFields
  <2>5. c.msg = NoMsg
    BY <1>1, <1>13 DEF Follows
  <2> QED BY <1>2, <1>8, <2>4, <2>5 DEF Takes, HeardTo
<1> QED BY <1>12, <1>13

(* The bytes of a frame go over to the receiver.                           *)
LEMMA BalanceTaken ==
    ASSUME NEW S, NEW m, NEW t, NEW q, QueueFits(q), NEW r, RxFits(r), NEW D \in Seq(Seq(Byte)),
           Balance(S, m, t, q, r, D), NEW i \in 1..Len(q),
           \A j \in 1..(i - 1) : q[j].kind \notin DataKinds,
           NEW r2, r2.content = Part(r) \o BytesOf(q[i]),
           r2.state \in {"Idle", "Receiving"}, NEW D2,
           D2 = IF r2.state = "Idle" THEN Append(D, r2.content) ELSE D
    PROVE  Balance(S, m, t, After(q, i), r2, D2)
<1> DEFINE q2 == After(q, i)
           c == Carried(q)
           c2 == Carried(q2)
           d == BytesOf(q[i])
           h == FlattenSeq(D)
           p == Part(r)
           z == FlattenSeq(c2)
           l == Len(q)
<1>1. /\ l \in Nat /\ Len(q2) = l - i /\ QueueFits(q2) /\ FrameFits(q[i])
      /\ \A j \in 1..Len(q2) : q2[j] = q[i + j] /\ i + j \in 1..l
  <2>1. i \in 0..Len(q) /\ i # 0
    BY QueueKept
  <2> QED BY <2>1, QueueKept, RestAt
<1>2. c \in Seq(Seq(Byte)) /\ Len(c) = l /\ \A j \in 1..l : c[j] = BytesOf(q[j])
  BY CarriedFits
<1>3. c2 \in Seq(Seq(Byte)) /\ Len(c2) = Len(q2) /\ \A j \in 1..Len(q2) : c2[j] = BytesOf(q2[j])
  BY <1>1, CarriedFits
<1>4. \A j \in 1..(i - 1) : BytesOf(q[j]) = <<>>
  BY DEF BytesOf, DataKinds
<1>5. d \in Seq(Byte) /\ h \in Seq(Byte) /\ p \in Seq(Byte)
  BY <1>1, BytesFit, FlatFits DEF Part, RxFits
<1> HIDE DEF q2, c, c2, d, h, p, l
<1>6. /\ i \in 1..Len(c) /\ \A j \in 1..(i - 1) : c[j] = <<>>
      /\ Len(c2) = Len(c) - i /\ \A j \in 1..Len(c2) : c2[j] = c[j + i]
  <2>1. i \in 1..l
    BY DEF l
  <2>2. \A j \in 1..(i - 1) : j \in 1..l
    BY <1>1, <2>1
  <2>3. \A j \in 1..Len(c2) : c2[j] = c[j + i]
    <3> SUFFICES ASSUME NEW j \in 1..Len(c2) PROVE c2[j] = c[j + i]
      OBVIOUS
    <3>1. i + j = j + i /\ i + j \in 1..l /\ q2[j] = q[i + j]
      BY <1>1, <1>3, <2>1
    <3> QED BY <1>2, <1>3, <3>1
  <2> QED BY <1>1, <1>2, <1>3, <1>4, <2>1, <2>2, <2>3
<1>7. FlattenSeq(c) = d \o z
  <2>1. c[i] = d
    BY <1>2, <1>6 DEF d
  <2> HIDE DEF z
  <2>2. FlattenSeq(c) = c[i] \o FlattenSeq(c2)
    <3>1. c \in Seq(Seq(Byte)) /\ c2 \in Seq(Seq(Byte)) /\ i \in 1..Len(c)
      BY <1>2, <1>3, <1>6
    <3>2. \A j \in 1..(i - 1) : c[j] = <<>>
      BY <1>6
    <3>3. Len(c2) = Len(c) - i /\ \A j \in 1..Len(c2) : c2[j] = c[j + i]
      BY <1>6
    <3> QED BY ONLY <3>1, <3>2, <3>3, FlatTaken
  <2> QED BY <2>1, <2>2 DEF z
<1>8. z \in Seq(Byte)
  BY <1>3, FlatFits
<1>9. (h \o p) \o (d \o z) = FlattenSeq(SaidBy(S, m, t))
  BY <1>7 DEF Balance, h, p, c
<1> HIDE DEF z
<1>10. (h \o (p \o d)) \o z = (h \o p) \o (d \o z)
  <2>1. Associates(Byte)
    BY AnyAssoc
  <2>2. h \o p \in Seq(Byte)
    BY <1>5
  <2>3. ((h \o p) \o d) \o z = (h \o p) \o (d \o z)
    BY <1>5, <1>8, <2>1, <2>2 DEF Associates
  <2>4. (h \o p) \o d = h \o (p \o d)
    BY <1>5, <2>1 DEF Associates
  <2> QED BY <2>3, <2>4
<1>11. r2.content = p \o d /\ p \o d \in Seq(Byte)
  BY <1>5 DEF p, d
<1>12. FlattenSeq(D2) \o Part(r2) = h \o (p \o d)
  <2>1. CASE r2.state = "Idle"
    <3>1. FlattenSeq(Append(D, r2.content)) = h \o r2.content
      BY <1>11, FlatAppend DEF h
    <3>2. Part(r2) = <<>>
      BY <2>1 DEF Part
    <3>3. h \o (p \o d) \in Seq(Byte)
      BY <1>5, <1>11
    <3>4. (h \o (p \o d)) \o <<>> = h \o (p \o d)
      BY <3>3
    <3> QED BY <1>11, <2>1, <3>1, <3>2, <3>4
  <2>2. CASE r2.state = "Receiving"
    BY <1>11, <2>2 DEF Part, h
  <2> QED BY <2>1, <2>2
<1> QED BY <1>9, <1>10, <1>12 DEF Balance, z, c2, q2

(* The first frame with data is taken.                                     *)
LEMMA FirstDataTaken ==
    ASSUME NonEmpty, Roomy, NEW n \in Node, Sole(n), NEW m, NEW t, NEW q, QueueFits(q), NEW g,
           NEW r, RxFits(r), NEW a \in Place, NEW b \in Place, Between(n, m, t, q, g, r, a, b),
           NEW i \in 1..Len(q), q[i].kind \in DataKinds,
           \A j \in 1..(i - 1) : q[j].kind \notin DataKinds
    PROVE  \E c \in Place : /\ Takes(n, r, q[i], on_pdu(Cfg[Peer[n]], r, q[i]), a, c)
                            /\ Path(n, After(q, i), c, b)
<1>1. Len(q) \in Nat /\ Path(n, q, a, b) /\ HeardTo(n, r, a)
  BY QueueKept DEF Between
<1>2. PICK c \in Place : Leads(n, q[i], a, c) /\ Path(n, After(q, i), c, b)
  BY <1>1, PathTaken
<1>3. Whole(n, q[i], a, c) \/ Opens(n, q[i], a, c) \/ Extends(n, q[i], a, c)
  BY <1>2 DEF Leads
<1>4. Takes(n, r, q[i], on_pdu(Cfg[Peer[n]], r, q[i]), a, c)
  BY <1>1, <1>3, StartTaken, ChunkTaken
<1> QED BY <1>2, <1>4

(* None is passed over.                                                    *)
LEMMA NonePassed ==
    ASSUME NonEmpty, Roomy, NEW n \in Node, Sole(n), NEW m, NEW t, NEW q, QueueFits(q), NEW g,
           NEW r, RxFits(r), NEW a \in Place, NEW b \in Place, Between(n, m, t, q, g, r, a, b),
           NEW j \in 1..Len(q), q[j].kind \in DataKinds
    PROVE  \E i \in 1..j : /\ i \in 1..Len(q) /\ q[i].kind \in DataKinds
                           /\ on_pdu(Cfg[Peer[n]], r, q[i]).out # "UnexpectedPdu"
<1>1. Len(q) \in Nat
  BY QueueKept
<1>2. PICK i \in 1..j : /\ q[i].kind \in DataKinds
                        /\ \A h \in 1..(i - 1) : q[h].kind \notin DataKinds
  BY <1>1, LeastData
<1>3. i \in 1..Len(q)
  BY <1>1
<1>4. PICK c \in Place : Takes(n, r, q[i], on_pdu(Cfg[Peer[n]], r, q[i]), a, c)
  BY <1>2, <1>3, FirstDataTaken
<1> QED BY <1>2, <1>3, <1>4 DEF Takes

(* poll_recv takes a frame.                                                *)
LEMMA FlowTaken ==
    ASSUME NonEmpty, Roomy, NEW n \in Node, Sole(n), NEW S, NEW m, NEW t, NEW q, QueueFits(q),
           NEW g, QueueFits(g), NEW r, RxFits(r), NEW D \in Seq(Seq(Byte)),
           Flows(n, S, m, t, q, g, r, D),
           NEW i \in 1..Len(q), q[i].kind \in DataKinds,
           \A j \in 1..Len(q) : j < i /\ q[j].kind \in DataKinds =>
               on_pdu(Cfg[Peer[n]], r, q[j]).out = "UnexpectedPdu",
           NEW u, u = on_pdu(Cfg[Peer[n]], r, q[i])
    PROVE  /\ u.out \in {"None", "SendFlowControl", "Completed"}
           /\ u.out = "None" => Flows(n, S, m, t, After(q, i), g, u.rx, D)
           /\ u.out = "Completed" => Flows(n, S, m, t, After(q, i), g, u.rx, Append(D, u.rx.content))
           /\ u.out = "SendFlowControl" => \A f : f.kind = "FC" /\ f.status = "ClearToSend" =>
                 Flows(n, S, m, t, After(q, i), Append(g, f), u.rx, D)
<1> DEFINE q2 == After(q, i)
<1>1. PICK a, b \in Place : Between(n, m, t, q, g, r, a, b)
  BY DEF Flows
<1>2. \A j \in 1..(i - 1) : q[j].kind \notin DataKinds
  <2> SUFFICES ASSUME NEW j \in 1..(i - 1), q[j].kind \in DataKinds PROVE FALSE
    OBVIOUS
  <2>1. j \in 1..Len(q) /\ Len(q) \in Nat
    BY QueueKept
  <2>2. PICK h \in 1..j : /\ h \in 1..Len(q) /\ q[h].kind \in DataKinds
                          /\ on_pdu(Cfg[Peer[n]], r, q[h]).out # "UnexpectedPdu"
    BY <1>1, <2>1, NonePassed
  <2>3. h < i
    BY <2>1
  <2> QED BY <2>2, <2>3
<1>3. PICK c \in Place : Takes(n, r, q[i], u, a, c) /\ Path(n, q2, c, b)
  BY <1>1, <1>2, FirstDataTaken
<1>4. /\ u.out \in {"None", "SendFlowControl", "Completed"}
      /\ u.rx.content = Part(r) \o BytesOf(q[i])
      /\ u.rx.state = "Idle" <=> u.out = "Completed"
      /\ HeardTo(n, u.rx, c)
      /\ u.out # "SendFlowControl" => c.msg \in {a.msg, NoMsg}
  BY <1>3 DEF Takes
<1>5. u.rx.state \in {"Idle", "Receiving"}
  <2>1. FrameFits(q[i])
    <3>1. Len(q) \in Nat
      BY QueueKept
    <3>2. i \in 0..Len(q) /\ i # 0
      BY <3>1
    <3> QED BY <3>2, QueueKept
  <2>2. RxFits(on_pdu(Cfg[Peer[n]], r, q[i]).rx)
    BY <2>1, Pairs, OnPduFits
  <2> QED BY <2>2 DEF RxFits
<1> HIDE DEF q2
<1>6. ASSUME NEW g2, u.out = "SendFlowControl" => ~NoGrant(g2),
             u.out # "SendFlowControl" => g2 = g
      PROVE  Between(n, m, t, q2, g2, u.rx, c, b)
  <2>1. SaidTo(n, m, t, b) /\ (Begins(n, t) /\ NoGrant(g) => a.msg # m)
    BY <1>1 DEF Between
  <2>2. Begins(n, t) /\ NoGrant(g2) => c.msg # m
    <3> SUFFICES ASSUME Begins(n, t), NoGrant(g2) PROVE c.msg # m
      OBVIOUS
    <3>1. g2 = g /\ c.msg \in {a.msg, NoMsg} /\ a.msg # m
      BY <1>4, <1>6, <2>1
    <3>2. m # NoMsg
      BY <2>1, NodeAssumption DEF Begins, SaidTo
    <3> QED BY <3>1, <3>2
  <2> QED BY <1>3, <1>4, <2>1, <2>2 DEF Between
<1>7. Balance(S, m, t, q2, u.rx, IF u.rx.state = "Idle" THEN Append(D, u.rx.content) ELSE D)
  BY <1>2, <1>4, <1>5, BalanceTaken DEF Flows, q2
<1>8. ASSUME u.out = "None" PROVE Flows(n, S, m, t, q2, g, u.rx, D)
  <2>1. Between(n, m, t, q2, g, u.rx, c, b) /\ u.rx.state # "Idle"
    BY <1>4, <1>6, <1>8
  <2> QED BY <1>7, <2>1 DEF Flows
<1>9. ASSUME u.out = "Completed" PROVE Flows(n, S, m, t, q2, g, u.rx, Append(D, u.rx.content))
  <2>1. Between(n, m, t, q2, g, u.rx, c, b) /\ u.rx.state = "Idle"
    BY <1>4, <1>6, <1>9
  <2> QED BY <1>7, <2>1 DEF Flows
<1>10. ASSUME u.out = "SendFlowControl", NEW f, f.kind = "FC", f.status = "ClearToSend"
       PROVE  Flows(n, S, m, t, q2, Append(g, f), u.rx, D)
  <2> DEFINE g2 == Append(g, f)
  <2>1. /\ Len(g) + 1 \in 1..Len(g2) /\ g2[Len(g) + 1] = f
        /\ \A j \in 1..Len(g) : j \in 1..Len(g2) /\ g2[j] = g[j]
        /\ \A j \in 1..Len(g2) : j \in 1..Len(g) \/ j = Len(g) + 1
    <3>1. /\ Len(g) \in Nat /\ Len(g2) = Len(g) + 1 /\ g2[Len(g) + 1] = f
          /\ \A j \in 1..Len(g) : j \in 1..Len(g2) /\ g2[j] = g[j]
          /\ \A j \in 1..Len(g2) : j \in 1..Len(g) \/ j = Len(g) + 1
      BY AppendAt
    <3> HIDE DEF g2
    <3>2. Len(g) + 1 \in 1..Len(g2)
      BY <3>1
    <3> QED BY <3>1, <3>2
  <2> HIDE DEF g2
  <2>2. ~NoGrant(g2)
    BY <1>10, <2>1 DEF NoGrant
  <2>3. GrantsOnly(g2)
    BY <1>10, <2>1 DEF Flows, GrantsOnly
  <2>4. Between(n, m, t, q2, g2, u.rx, c, b) /\ u.rx.state # "Idle"
    BY <1>4, <1>6, <1>10, <2>2
  <2> QED BY <1>7, <2>3, <2>4 DEF Flows, g2
<1> QED BY <1>4, <1>8, <1>9, <1>10 DEF q2

(* poll_recv finds nothing to take.                                        *)
LEMMA FlowEmptied ==
    ASSUME NonEmpty, Roomy, NEW n \in Node, Sole(n), NEW S, NEW m, NEW t, NEW q, QueueFits(q),
           NEW g, NEW r, RxFits(r), NEW D, Flows(n, S, m, t, q, g, r, D),
           \A j \in 1..Len(q) : q[j].kind \in DataKinds =>
               on_pdu(Cfg[Peer[n]], r, q[j]).out = "UnexpectedPdu"
    PROVE  Flows(n, S, m, t, <<>>, g, r, D)
<1>1. PICK a, b \in Place : Between(n, m, t, q, g, r, a, b)
  BY DEF Flows
<1>2. \A j \in 1..Len(q) : q[j].kind \notin DataKinds
  BY <1>1, NonePassed
<1>3. Len(q) \in Nat
  BY QueueKept
<1>4. Path(n, <<>>, a, b)
  BY <1>1, <1>2, <1>3, PathEmpty DEF Between
<1>5. Between(n, m, t, <<>>, g, r, a, b)
  BY <1>1, <1>4 DEF Between
<1>6. FlattenSeq(Carried(q)) = <<>> /\ FlattenSeq(Carried(<<>>)) = <<>>
  <2>1. \A j \in 1..Len(q) : BytesOf(q[j]) = <<>>
    BY <1>2 DEF BytesOf, DataKinds
  <2>2. FlattenSeq(Carried(q)) = <<>>
    BY <2>1, CarriedFits, FlatNone
  <2>3. Carried(<<>>) = <<>>
    BY DEF Carried
  <2> QED BY <2>2, <2>3, FlatEmpty
<1>7. Balance(S, m, t, <<>>, r, D)
  BY <1>6 DEF Flows, Balance
<1> QED BY <1>5, <1>7 DEF Flows

-----------------------------------------------------------------------------
(* The streams of a link on which nothing is lost. *)

IsSource(n) == \E x \in Msg : Source[x] = n

NoData(q) == \A i \in 1..Len(q) : q[i].kind \notin DataKinds

FlowAt(n) ==
    Flows(n, submitted[n], app[n], tx[n], inbox[Peer[n]], inbox[n],
          rx[Peer[n]], delivered[Peer[n]])

(* The direction from n carries nothing. *)
Silent(n) ==
    /\ submitted[n] = <<>> /\ delivered[Peer[n]] = <<>>
    /\ rx[Peer[n]].state = "Idle" /\ NoData(inbox[Peer[n]])

StreamInv == \A n \in Node : IF IsSource(n) THEN FlowAt(n) ELSE Silent(n)

(* There is at most one source.                                            *)
LEMMA OneSource ==
    ASSUME Steady, NEW n \in Node, IsSource(n)
    PROVE  Sole(n) /\ \A k \in Node : k # n => ~IsSource(k)
BY DEF Steady, Orderly, IsSource, Sole

(* Only a source has something to send.                                    *)
LEMMA SendersAreSources ==
    ASSUME IInv, NEW a \in Node, Sender(a) \/ Submit(a)
    PROVE  IsSource(a)
BY DEF IInv, SendersFit, SendFits, AppFits, Sender, Submit, IsSource

(* What holds of the direction from a source.                              *)
LEMMA AtSource ==
    ASSUME Steady, IInv, LinkInv, NEW n \in Node
    PROVE  /\ DOMAIN inbox = Node /\ DOMAIN tx = Node /\ DOMAIN app = Node /\ DOMAIN rx = Node
           /\ DOMAIN delivered = Node /\ DOMAIN submitted = Node
           /\ Peer[n] \in Node /\ Peer[n] # n /\ Peer[Peer[n]] = n
           /\ TxFits(tx[n]) /\ RxFits(rx[Peer[n]]) /\ rx[Peer[n]].content \in Seq(Byte)
           /\ QueueFits(inbox[n]) /\ QueueFits(inbox[Peer[n]])
           /\ CleanQueue(inbox[n]) /\ CleanQueue(inbox[Peer[n]])
           /\ submitted[n] \in Seq(Msg) /\ delivered[Peer[n]] \in Seq(Seq(Byte))
           /\ \E k \in Nat : LinkAt(n, submitted[n], app[n], tx[n], inbox[Peer[n]], inbox[n],
                                    rx[Peer[n]], delivered[Peer[n]], k)
<1>1. Peer[n] \in Node /\ Peer[n] # n /\ Peer[Peer[n]] = n
  BY Pairs
<1>2. /\ DOMAIN inbox = Node /\ DOMAIN tx = Node /\ DOMAIN app = Node /\ DOMAIN rx = Node
      /\ TxFits(tx[n]) /\ RxFits(rx[Peer[n]])
      /\ QueueFits(inbox[n]) /\ QueueFits(inbox[Peer[n]])
  BY <1>1 DEF IInv, SendersFit, SendFits, ReceiversFit, QueuesFit
<1>3. rx[Peer[n]].content \in Seq(Byte)
  BY <1>2 DEF RxFits
<1>4. /\ DOMAIN delivered = Node /\ DOMAIN submitted = Node
      /\ CleanQueue(inbox[n]) /\ CleanQueue(inbox[Peer[n]])
  BY <1>1 DEF LinkInv
<1>5. PICK k \in Nat : LinkAt(n, submitted[n], app[n], tx[n], inbox[Peer[n]], inbox[n],
                              rx[Peer[n]], delivered[Peer[n]], k)
  BY DEF LinkInv, OneWay, Link
<1>6. submitted[n] \in Seq(Msg) /\ delivered[Peer[n]] \in Seq(Seq(Byte))
  BY <1>5 DEF LinkAt, Story
<1> QED BY <1>1, <1>2, <1>3, <1>4, <1>5, <1>6

(* continue_send.                                                          *)
LEMMA ContinueFlows ==
    ASSUME Steady, IInv, LinkInv, NEW a \in Node, Sender(a), NEW s \in Session,
           NEW t, t.state = "Sending", t.session = s, NEW rest, NEW k \in Nat,
           LinkAt(a, submitted[a], app[a], t, inbox[Peer[a]], rest,
                  rx[Peer[a]], delivered[Peer[a]], k),
           Flows(a, submitted[a], app[a], t, inbox[Peer[a]], rest,
                 rx[Peer[a]], delivered[Peer[a]]),
           ContinueSend(a, s, rest)
    PROVE  Flows(a, submitted[a], app'[a], tx'[a], inbox'[Peer[a]], inbox'[a],
                 rx[Peer[a]], delivered[Peer[a]])
<1> DEFINE p == Peer[a]
           x == app[a]
           f == NextFrame(Cfg[a], s, Payload(x))
           t2 == AfterFrame(Cfg[a], s, Payload(x))
           x2 == IF t2.state = "Idle" THEN NoMsg ELSE x
<1>1. /\ QueueFits(inbox[p]) /\ rx[p].content \in Seq(Byte) /\ DOMAIN inbox = Node
      /\ DOMAIN tx = Node /\ DOMAIN app = Node /\ p \in Node /\ p # a
  BY AtSource
<1>2. x \in Msg
  BY AtSender DEF Steady
<1>3. /\ Becomes(a, t2) /\ Transmit(a, rest, f)
      /\ IF t2.state = "Idle" THEN Return(a, "Completed") ELSE Continue
  BY DEF ContinueSend, TransmitFails, Fault, Steady
<1>4. tx'[a] = t2
  BY <1>1, <1>3 DEF Becomes
<1>5. inbox'[p] = Append(inbox[p], f) /\ inbox'[a] = rest
  BY <1>1, <1>3 DEF Transmit
<1>6. app'[a] = x2
  BY <1>1, <1>3 DEF Return, Continue
<1>7. Cfg[a].n_bs > 0 /\ NonEmpty
  BY DEF Steady, Orderly
<1>8. Flows(a, submitted[a], x2, t2, Append(inbox[p], f), rest, rx[p], delivered[p])
  BY <1>1, <1>2, <1>7, FlowConsecutive
<1> QED BY <1>4, <1>5, <1>6, <1>8

(* poll_send.                                                              *)
LEMMA PollSendFlows ==
    ASSUME Steady, Roomy, IInv, LinkInv, StreamInv, NEW a \in Node, PollSend(a)
    PROVE  Flows(a, submitted[a], app'[a], tx'[a], inbox'[Peer[a]], inbox'[a],
                 rx[Peer[a]], delivered[Peer[a]])
<1> DEFINE p == Peer[a]
           S == submitted[a]
           D == delivered[p]
           x == app[a]
           g == inbox[a]
           q == inbox[p]
           r == rx[p]
           t == tx[a]
           i == FcIndex(a)
<1>1. Sender(a) /\ IsSource(a) /\ Sole(a)
  <2>1. Sender(a)
    BY DEF PollSend, SendTooLong, SendSingle, SendFirst, SendMismatch, FcTimeout, NoFcYet, WaitBroken,
           GotClearToSend, GotWait, GotOverflow, GotFc, Awaits, Resumes, SendConsecutive
  <2> QED BY <2>1, SendersAreSources, OneSource
<1>2. /\ QueueFits(g) /\ QueueFits(q) /\ r.content \in Seq(Byte) /\ TxFits(t) /\ CleanQueue(g)
      /\ DOMAIN inbox = Node /\ DOMAIN tx = Node /\ DOMAIN app = Node /\ p \in Node /\ p # a
  BY AtSource
<1>3. PICK k \in Nat : LinkAt(a, S, x, t, q, g, r, D, k)
  BY AtSource
<1>4. Flows(a, S, x, t, q, g, r, D)
  BY <1>1 DEF StreamInv, FlowAt
<1>5. /\ x \in Msg
      /\ t.state # "Idle" => /\ Fits(a) /\ t.session.payload_len = Length[x]
                             /\ ~(t.session.wait_count > Cfg[a].wft_max)
                             /\ t.session \in Session
  BY <1>1, <1>2, AtSender DEF Steady, TxFits, TxIdle
<1>6. NonEmpty /\ Cfg[a].n_bs > 0 /\ ~Lossy
  BY DEF Steady, Orderly
<1>7. CASE SendTooLong(a)
  <2>1. Length[x] <= Cfg[a].max_payload_len
    BY <1>1, <1>5, RoomFor
  <2> QED BY <1>7, <2>1 DEF SendTooLong, Fits
<1>8. CASE SendSingle(a)
  <2> DEFINE f == SingleFrame(Payload(x))
  <2>1. /\ t.state = "Idle" /\ Transmit(a, g, f) /\ Return(a, "Completed") /\ UNCHANGED tx
        /\ Length[x] <= max_single_frame_payload(Cfg[a])
    BY <1>6, <1>8 DEF SendSingle, TransmitFails, Fault
  <2> HIDE DEF f
  <2>2. inbox'[p] = Append(q, f) /\ inbox'[a] = g /\ app'[a] = NoMsg /\ tx'[a] = t
    BY <1>2, <2>1 DEF Transmit, Return
  <2>3. Flows(a, S, NoMsg, t, Append(q, f), g, r, D)
    BY <1>2, <1>3, <1>4, <1>5, <1>6, <2>1, FlowSingle DEF f
  <2> QED BY <2>2, <2>3
<1>9. CASE SendFirst(a)
  <2> DEFINE timer == Timer(Cfg[a].n_bs)
             t2 == WaitingForFc(NewSession(Cfg[a], Payload(x)), timer)
             f == FirstFrameOf(Cfg[a], Payload(x))
  <2>1. /\ Becomes(a, t2) /\ t.state = "Idle" /\ Transmit(a, g, f) /\ Continue
        /\ Length[x] > max_single_frame_payload(Cfg[a])
    BY <1>6, <1>9 DEF SendFirst, TransmitFails, Fault
  <2>2. timer > 0
    BY <1>6, CfgNumbers, TimerRuns
  <2> HIDE DEF timer, t2, f
  <2>3. tx'[a] = t2 /\ inbox'[a] = g /\ inbox'[p] = Append(q, f) /\ app'[a] = x
    BY <1>2, <2>1 DEF Becomes, Transmit, Continue
  <2>4. Flows(a, S, x, t2, Append(q, f), g, r, D)
    BY <1>2, <1>3, <1>4, <1>5, <1>6, <2>1, <2>2, FlowFirst DEF t2, f
  <2> QED BY <2>3, <2>4
<1>10. CASE SendMismatch(a)
  BY <1>5, <1>10 DEF SendMismatch
<1>11. CASE FcTimeout(a)
  <2>1. t.state = "WaitingForFc" /\ t.timer = 0
    BY <1>5, <1>11 DEF FcTimeout, Resumes
  <2>2. t.timer > 0
    BY <1>4, <2>1 DEF Flows, Between, SaidTo
  <2> QED BY <2>1, <2>2
<1>12. CASE NoFcYet(a)
  <2>1. UNCHANGED <<tx, app>> /\ inbox' = [inbox EXCEPT ![a] = <<>>] /\ i = 0
    BY <1>12 DEF NoFcYet, Consume, Continue
  <2>2. inbox'[p] = q /\ inbox'[a] = <<>>
    BY <1>2, <2>1
  <2>3. NoGrant(g)
    BY <1>2, <2>1, NoneHeard
  <2>4. GrantsOnly(<<>>)
    BY DEF GrantsOnly
  <2>5. Flows(a, S, x, t, q, <<>>, r, D)
    BY <1>4, <2>3, <2>4, FlowAside
  <2> QED BY <2>1, <2>2, <2>5
<1>13. ASSUME NEW status, GotFc(a, status)
       PROVE  /\ i \in 1..Len(g) /\ g[i].kind = "FC" /\ g[i].status = status
              /\ t.state = "WaitingForFc"
  <2>1. i \in 1..Len(g) /\ g[i].kind = "FC" /\ g[i].status = status
    BY <1>13, FcHeard DEF IInv
  <2>2. t.state = "WaitingForFc"
    BY <1>13 DEF GotFc, Awaits, Resumes
  <2> QED BY <2>1, <2>2
<1>14. CASE WaitBroken(a)
  <2>1. i # 0 /\ g[i].kind = "Malformed"
    BY <1>14 DEF WaitBroken
  <2>2. i \in 1..Len(g)
    BY <1>2, <2>1, QueueKept, FcStopsAt
  <2> QED BY <1>2, <2>1, <2>2 DEF CleanQueue, DataKinds
<1>15. CASE GotWait(a) \/ GotOverflow(a)
  <2>1. i \in 1..Len(g) /\ g[i].kind = "FC" /\ g[i].status \in {"Wait", "Overflow"}
    BY <1>13, <1>15 DEF GotWait, GotOverflow
  <2>2. g[i].status = "ClearToSend"
    BY <1>4, <2>1 DEF Flows, GrantsOnly
  <2> QED BY <2>1, <2>2
<1>16. CASE GotClearToSend(a)
  <2> DEFINE s == Cleared(Cfg[a], t.session, g[i])
             rest == After(g, i)
             t2 == Sending(s, 0)
  <2>1. /\ i \in 1..Len(g) /\ g[i].kind = "FC" /\ g[i].status = "ClearToSend"
        /\ t.state = "WaitingForFc"
    BY <1>13, <1>16 DEF GotClearToSend
  <2>2. ContinueSend(a, s, rest)
    BY <1>16 DEF GotClearToSend
  <2>3. t.session \in Session
    BY <1>5, <2>1
  <2>4. FrameFits(g[i])
    <3>1. Len(g) \in Nat
      BY <1>2, QueueKept
    <3>2. i \in 0..Len(g) /\ i # 0
      BY <2>1, <3>1
    <3> HIDE DEF i
    <3> QED BY <1>2, <3>2, QueueKept
  <2>5. s \in Session
    BY <2>1, <2>3, <2>4, ClearedFits
  <2> HIDE DEF i
  <2>6. LinkAt(a, S, x, t2, q, rest, r, D, k)
    BY <1>2, <1>3, <2>1, <2>3, LinkCleared
  <2>7. Flows(a, S, x, t2, q, rest, r, D)
    BY <1>2, <1>4, <2>1, <2>3, FlowCleared
  <2> HIDE DEF s
  <2>8. t2.state = "Sending" /\ t2.session = s
    BY DEF Sending
  <2> HIDE DEF t2, rest
  <2> QED BY <1>1, <2>2, <2>5, <2>6, <2>7, <2>8, ContinueFlows
<1>17. CASE SendConsecutive(a)
  <2>1. t.state = "Sending" /\ ContinueSend(a, t.session, g)
    BY <1>17 DEF SendConsecutive, Resumes
  <2> QED BY <1>1, <1>3, <1>4, <1>5, <2>1, ContinueFlows
<1> QED BY <1>7, <1>8, <1>9, <1>10, <1>11, <1>12, <1>14, <1>15, <1>16, <1>17 DEF PollSend

(* poll_recv, at the end of the direction from a source.                   *)
LEMMA PollRecvFlows ==
    ASSUME Steady, Roomy, IInv, LinkInv, StreamInv, NEW a \in Node, PollRecv(a), IsSource(Peer[a])
    PROVE  Flows(Peer[a], submitted[Peer[a]], app[Peer[a]], tx[Peer[a]], inbox'[a], inbox'[Peer[a]],
                 rx'[a], delivered'[a])
<1> DEFINE p == Peer[a]
           S == submitted[p]
           x == app[p]
           t == tx[p]
           D == delivered[a]
           i == RecvIndex(a)
           q == inbox[a]
           g == inbox[p]
           r == rx[a]
           u == Response(a, q[i])
           rest == After(q, i)
<1>1. p \in Node /\ p # a /\ Peer[p] = a
  BY Pairs
<1>2. /\ DOMAIN rx = Node /\ DOMAIN inbox = Node /\ DOMAIN delivered = Node
      /\ QueueFits(q) /\ QueueFits(g) /\ RxFits(r) /\ TxFits(t) /\ D \in Seq(Seq(Byte))
  BY <1>1, AtSource
<1>3. Len(q) \in Nat
  BY <1>2, QueueKept
<1>4. Flows(p, S, x, t, q, g, r, D)
  BY <1>1 DEF StreamInv, FlowAt
<1>5. Sole(p) /\ NonEmpty /\ ~Lossy
  BY <1>1, OneSource DEF Steady, Orderly
<1>6. ASSUME NEW j \in 1..Len(q), i = 0 \/ j < i, q[j].kind \in DataKinds
      PROVE  on_pdu(Cfg[a], r, q[j]).out = "UnexpectedPdu"
  <2>1. Skipped(a, q[j])
    BY <1>3, <1>6, PassedOver
  <2> QED BY <1>6, <2>1 DEF Skipped, Response, DataKinds
<1>7. CASE RecvNothing(a)
  <2>1. i = 0 /\ UNCHANGED <<rx, delivered>> /\ inbox' = [inbox EXCEPT ![a] = <<>>]
    BY <1>7 DEF RecvNothing, Consume
  <2>2. inbox'[a] = <<>> /\ inbox'[p] = g
    BY <1>1, <1>2, <2>1
  <2>3. \A j \in 1..Len(q) : q[j].kind \in DataKinds =>
            on_pdu(Cfg[Peer[p]], r, q[j]).out = "UnexpectedPdu"
    BY <1>1, <1>6, <2>1
  <2>4. Flows(p, S, x, t, <<>>, g, r, D)
    BY <1>1, <1>2, <1>4, <1>5, <2>3, FlowEmptied
  <2> QED BY <2>1, <2>2, <2>4
<1>8. CASE RecvMalformed(a)
  <2>1. i # 0 /\ q[i].kind = "Malformed"
    BY <1>8 DEF RecvMalformed
  <2>2. q[i].kind \in DataKinds
    BY <2>1, RecvAnswered DEF Steady
  <2> QED BY <2>1, <2>2 DEF DataKinds
<1>9. CASE RecvQuiet(a) \/ RecvOverflow(a) \/ RecvGrant(a) \/ RecvCompleted(a)
  <2>1. i # 0 /\ RecvRest(a) = rest /\ rx' = [rx EXCEPT ![a] = u.rx]
    BY <1>9 DEF RecvQuiet, RecvOverflow, RecvGrant, RecvCompleted, RecvPdu, RecvRest
  <2>2. rx'[a] = u.rx
    BY <1>2, <2>1
  <2>3. i \in 1..Len(q) /\ q[i].kind \in DataKinds
    BY <2>1, RecvAnswered DEF Steady
  <2>4. ~Skipped(a, q[i])
    BY <1>3, <2>1, StopsNotSkipped
  <2> HIDE DEF i
  <2>5. u = on_pdu(Cfg[Peer[p]], r, q[i])
    BY <1>1 DEF Response
  <2>6. \A j \in 1..Len(q) : j < i /\ q[j].kind \in DataKinds =>
            on_pdu(Cfg[Peer[p]], r, q[j]).out = "UnexpectedPdu"
    BY <1>1, <1>6
  <2> HIDE DEF u
  <2>7. /\ u.out \in {"None", "SendFlowControl", "Completed"}
        /\ u.out = "None" => Flows(p, S, x, t, rest, g, u.rx, D)
        /\ u.out = "Completed" => Flows(p, S, x, t, rest, g, u.rx, Append(D, u.rx.content))
        /\ u.out = "SendFlowControl" => \A f : f.kind = "FC" /\ f.status = "ClearToSend" =>
              Flows(p, S, x, t, rest, Append(g, f), u.rx, D)
    BY <1>1, <1>2, <1>4, <1>5, <2>3, <2>5, <2>6, FlowTaken
  <2> HIDE DEF rest
  <2>8. CASE RecvQuiet(a)
    <3>1. u.out = "None" /\ inbox' = [inbox EXCEPT ![a] = rest] /\ delivered' = delivered
      BY <2>1, <2>7, <2>8 DEF RecvQuiet, RecvPdu, Consume, u, i
    <3>2. inbox'[a] = rest /\ inbox'[p] = g
      BY <1>1, <1>2, <3>1
    <3> QED BY <2>2, <2>7, <3>1, <3>2
  <2>9. CASE RecvOverflow(a)
    <3>1. u.out = "Overflow"
      BY <2>9 DEF RecvOverflow, RecvPdu, u, i
    <3> QED BY <2>7, <3>1
  <2>10. CASE RecvGrant(a)
    <3> DEFINE f == Grant(Cfg[a], rx'[a])
    <3>1. u.out = "SendFlowControl" /\ Transmit(a, rest, f) /\ delivered' = delivered
      BY <1>5, <2>1, <2>10 DEF RecvGrant, RecvPdu, TransmitFails, Fault, u, i
    <3>2. f.kind = "FC" /\ f.status = "ClearToSend"
      BY DEF Grant, FlowControl
    <3> HIDE DEF f
    <3>3. inbox'[a] = rest /\ inbox'[p] = Append(g, f)
      BY <1>1, <1>2, <3>1 DEF Transmit
    <3> QED BY <2>2, <2>7, <3>1, <3>2, <3>3
  <2>11. CASE RecvCompleted(a)
    <3>1. /\ u.out = "Completed" /\ inbox' = [inbox EXCEPT ![a] = rest]
          /\ delivered' = [delivered EXCEPT ![a] = Append(@, rx'[a].content)]
      BY <2>1, <2>11 DEF RecvCompleted, RecvPdu, Consume, u, i
    <3>2. inbox'[a] = rest /\ inbox'[p] = g
      BY <1>1, <1>2, <3>1
    <3>3. delivered'[a] = Append(D, u.rx.content)
      BY <1>2, <2>2, <3>1
    <3> QED BY <2>2, <2>7, <3>1, <3>2, <3>3
  <2> QED BY <1>9, <2>8, <2>9, <2>10, <2>11
<1> QED BY <1>7, <1>8, <1>9 DEF PollRecv

(* poll_recv of a source has nothing to take.                              *)
LEMMA QuietRecv ==
    ASSUME Steady, IInv, LinkInv, NEW a \in Node, NoData(inbox[a]), PollRecv(a)
    PROVE  inbox' = [inbox EXCEPT ![a] = <<>>] /\ UNCHANGED <<rx, delivered, app, tx, submitted>>
<1>1. RecvIndex(a) = 0
  <2> SUFFICES ASSUME RecvIndex(a) # 0 PROVE FALSE
    OBVIOUS
  <2>1. RecvIndex(a) \in 1..Len(inbox[a]) /\ inbox[a][RecvIndex(a)].kind \in DataKinds
    BY RecvAnswered DEF Steady
  <2> QED BY <2>1 DEF NoData
<1>2. RecvNothing(a) /\ UNCHANGED <<app, ret, tx, submitted>>
  BY <1>1 DEF PollRecv, RecvMalformed, RecvQuiet, RecvOverflow, RecvGrant, RecvCompleted, RecvPdu
<1> QED BY <1>2 DEF RecvNothing, Consume

(* While a sender waits, either its answer is on the way or a frame is     *)
(* that will be answered.                                                  *)
LEMMA NotInVain ==
    ASSUME IInv, LinkInv, PairInv, StreamInv, NEW n \in Node, IsSource(n),
           tx[n].state = "WaitingForFc", inbox[n] = <<>>, inbox[Peer[n]] = <<>>
    PROVE  FALSE
<1> DEFINE p == Peer[n]
           t == tx[n]
           r == rx[p]
<1>1. p \in Node /\ RxFits(r) /\ QueueFits(inbox[p]) /\ Len(<<>>) = 0
  BY Pairs DEF IInv, ReceiversFit, QueuesFit
<1>2. PICK u \in Place, v \in Place : Between(n, app[n], t, <<>>, <<>>, r, u, v)
  BY DEF StreamInv, FlowAt, Flows
<1>3. u = v
  <2>1. Path(n, <<>>, u, v)
    BY <1>2 DEF Between
  <2>2. \A j \in 1..Len(<<>>) : <<>>[j].kind \notin DataKinds
    BY <1>1
  <2> QED BY <1>1, <2>1, <2>2, PathEmpty
<1>4. u.msg = app[n]
  BY <1>2, <1>3 DEF Between, SaidTo
<1>5. NoGrant(<<>>)
  BY <1>1 DEF NoGrant
<1>6. ~Begins(n, t)
  BY <1>2, <1>4, <1>5 DEF Between
<1>7. Paired(n, t, <<>>, <<>>, r)
  BY DEF PairInv
<1>8. PICK d \in Nat : Row(n, <<>>, r, t, d) /\ Blocks(r, t, d)
  BY <1>5, <1>6, <1>7 DEF Paired
<1>9. d = 0
  <2> DEFINE I == {i \in 1..Len(<<>>) : <<>>[i].kind = "CF"}
  <2>1. I = {}
    BY <1>1
  <2>2. Cardinality(I) = d
    BY <1>1, <1>8, QueueIs, NumberedCount DEF Row
  <2> HIDE DEF I
  <2> QED BY <2>1, <2>2, FS_EmptySet
<1>10. r.block_size # 0 /\ r.block_remaining = d + 0
  BY <1>8 DEF Blocks
<1>11. r.block_size > 0 => r.block_remaining \in 1..r.block_size
  <2>1. r.state # "Idle"
    BY <1>8 DEF Row
  <2>2. PICK k \in Nat : LinkAt(n, submitted[n], app[n], t, inbox[p], inbox[n], r, delivered[p], k)
    BY DEF LinkInv, OneWay, Link
  <2> QED BY <2>1, <2>2 DEF LinkAt, Opened, OpenFor
<1>12. r.block_size \in Nat
  BY <1>1 DEF RxFits
<1> QED BY <1>9, <1>10, <1>11, <1>12

(* N_Bs does not expire.                                                   *)
LEMMA TickFlows ==
    ASSUME Steady, IInv, LinkInv, PairInv, StreamInv, NEW n \in Node, IsSource(n), Advance
    PROVE  Flows(n, submitted[n], app[n], Later(tx[n]), inbox[Peer[n]], inbox[n],
                 rx[Peer[n]], delivered[Peer[n]])
<1> DEFINE p == Peer[n]
<1>1. p \in Node /\ p # n /\ TxFits(tx[n])
  BY AtSource
<1>2. Flows(n, submitted[n], app[n], tx[n], inbox[p], inbox[n], rx[p], delivered[p])
  BY DEF StreamInv, FlowAt
<1>3. tx[n].state = "WaitingForFc" => tx[n].timer # 1
  <2> SUFFICES ASSUME tx[n].state = "WaitingForFc", tx[n].timer = 1 PROVE FALSE
    OBVIOUS
  <2>1. Drained
    BY DEF Advance, LastCall, Steady, Orderly
  <2>2. ~Sender(p)
    BY <1>1, OneSource, SendersAreSources
  <2>3. Reads(n) /\ Reads(p)
    BY <2>2 DEF Reads
  <2>4. inbox[n] = <<>> /\ inbox[p] = <<>>
    BY <1>1, <2>1, <2>3 DEF Drained
  <2> QED BY <2>4, NotInVain
<1>4. GrantsOnly(inbox[n])
  BY <1>2 DEF Flows
<1> QED BY <1>1, <1>2, <1>3, <1>4, FlowAside

(* A queue without data is cut down or gets a frame without data.          *)
LEMMA NoDataKept ==
    ASSUME NEW q, QueueFits(q), NoData(q)
    PROVE  /\ NoData(<<>>)
           /\ \A k \in 0..Len(q) : NoData(After(q, k))
           /\ \A f : f.kind \notin DataKinds => NoData(Append(q, f))
<1>1. NoData(<<>>)
  BY DEF NoData
<1>2. ASSUME NEW k \in 0..Len(q) PROVE NoData(After(q, k))
  <2>1. \A j \in 1..Len(After(q, k)) : k + j \in 1..Len(q) /\ After(q, k)[j] = q[k + j]
    BY RestAt
  <2> HIDE DEF After
  <2> QED BY <2>1 DEF NoData
<1>3. ASSUME NEW f, f.kind \notin DataKinds PROVE NoData(Append(q, f))
  <2> DEFINE q2 == Append(q, f)
  <2>1. /\ q2[Len(q) + 1] = f
        /\ \A i \in 1..Len(q) : i \in 1..Len(q2) /\ q2[i] = q[i]
        /\ \A i \in 1..Len(q2) : i \in 1..Len(q) \/ i = Len(q) + 1
    BY AppendAt
  <2> HIDE DEF q2
  <2>2. NoData(q2)
    BY <1>3, <2>1 DEF NoData
  <2> QED BY <2>2 DEF q2
<1> QED BY <1>1, <1>2, <1>3

(* The frame sent does not come from the other side.                       *)
LEMMA SendCuts ==
    ASSUME IInv, LinkInv, NEW a \in Node, PollSend(a), NoData(inbox[a])
    PROVE  NoData(inbox'[a]) /\ \A n \in Node : n # a /\ n # Peer[a] => inbox'[n] = inbox[n]
<1> DEFINE p == Peer[a]
<1>1. p \in Node /\ p # a /\ DOMAIN inbox = Node /\ QueueFits(inbox[a])
  BY Pairs DEF IInv, QueuesFit
<1>2. QueueStep(a)
  BY CallQueues
<1>3. CASE UNCHANGED inbox
  BY <1>3
<1>4. CASE \E rest \in {inbox[a], <<>>} \cup {After(inbox[a], k) : k \in 0..Len(inbox[a])} :
              \/ inbox' = [inbox EXCEPT ![a] = rest]
              \/ \E f : Transmit(a, rest, f) /\ GrantsOwn(a, f)
  <2>1. PICK rest \in {inbox[a], <<>>} \cup {After(inbox[a], k) : k \in 0..Len(inbox[a])} :
              \/ inbox' = [inbox EXCEPT ![a] = rest]
              \/ \E f : Transmit(a, rest, f) /\ GrantsOwn(a, f)
    BY <1>4
  <2>2. NoData(rest)
    BY <1>1, NoDataKept
  <2>3. CASE inbox' = [inbox EXCEPT ![a] = rest]
    BY <1>1, <2>2, <2>3
  <2>4. CASE \E f : Transmit(a, rest, f) /\ GrantsOwn(a, f)
    <3>1. PICK f : Transmit(a, rest, f)
      BY <2>4
    <3>2. inbox' = [inbox EXCEPT ![a] = rest, ![p] = Append(@, f)]
      BY <3>1 DEF Transmit
    <3> HIDE DEF p
    <3>3. inbox'[a] = rest
      BY <1>1, <3>2
    <3>4. ASSUME NEW n \in Node, n # a, n # p PROVE inbox'[n] = inbox[n]
      BY <1>1, <3>2, <3>4
    <3> QED BY <2>2, <3>3, <3>4 DEF p
  <2> QED BY <2>1, <2>3, <2>4
<1> QED BY <1>2, <1>3, <1>4 DEF QueueStep

(* poll_send keeps the streams.                                            *)
LEMMA PollSendStream ==
    ASSUME Steady, Roomy, IInv, LinkInv, StreamInv, NEW a \in Node, PollSend(a)
    PROVE  StreamInv'
<1> DEFINE p == Peer[a]
<1>1. IsSource(a) /\ UNCHANGED <<rx, submitted, delivered>>
  <2>1. Sender(a)
    BY DEF PollSend, SendTooLong, SendSingle, SendFirst, SendMismatch, FcTimeout, NoFcYet, WaitBroken,
           GotClearToSend, GotWait, GotOverflow, GotFc, Awaits, Resumes, SendConsecutive
  <2> QED BY <2>1, SendersAreSources DEF PollSend
<1>2. \A n \in Node : n # a => ~IsSource(n) /\ Silent(n)
  BY <1>1, OneSource DEF StreamInv
<1>3. p \in Node /\ p # a /\ Peer[p] = a
  BY Pairs
<1>4. NoData(inbox[a])
  BY <1>2, <1>3 DEF Silent
<1>5. NoData(inbox'[a]) /\ \A n \in Node : n # a /\ n # p => inbox'[n] = inbox[n]
  BY <1>4, SendCuts
<1>6. FlowAt(a)'
  BY <1>1, PollSendFlows DEF FlowAt
<1>7. ASSUME NEW n \in Node, n # a PROVE Silent(n)'
  <2>1. NoData(inbox'[Peer[n]])
    <3>1. CASE n = p
      BY <1>3, <1>5, <3>1
    <3>2. CASE n # p
      <4>1. Peer[n] \in Node /\ Peer[n] # a /\ Peer[n] # p
        BY <1>7, <3>2, Pairs
      <4>2. NoData(inbox[Peer[n]])
        BY <1>2, <1>7 DEF Silent
      <4> QED BY <1>5, <4>1, <4>2
    <3> QED BY <3>1, <3>2
  <2>2. Silent(n)
    BY <1>2, <1>7
  <2> QED BY <1>1, <2>1, <2>2 DEF Silent
<1>8. ASSUME NEW n \in Node PROVE IF IsSource(n) THEN FlowAt(n)' ELSE Silent(n)'
  BY <1>1, <1>2, <1>6, <1>7
<1> QED BY <1>8 DEF StreamInv, IsSource

(* poll_recv keeps the streams.                                            *)
LEMMA PollRecvStream ==
    ASSUME Steady, Roomy, IInv, LinkInv, StreamInv, NEW a \in Node, PollRecv(a)
    PROVE  StreamInv'
<1> DEFINE p == Peer[a]
<1>1. /\ p \in Node /\ p # a /\ Peer[p] = a
      /\ \A n \in Node : n # a /\ n # p => Peer[n] \in Node /\ Peer[n] # a /\ Peer[n] # p
  BY Pairs
<1>2. /\ DOMAIN inbox = Node /\ DOMAIN rx = Node /\ DOMAIN delivered = Node
      /\ QueueFits(inbox[a]) /\ QueueFits(inbox[p])
  BY <1>1, AtSource
<1>3. UNCHANGED <<app, tx, submitted>> /\ ~Sender(a) /\ ~Lossy
  BY DEF PollRecv, RecvNothing, RecvMalformed, RecvQuiet, RecvOverflow, RecvGrant, RecvCompleted,
         RecvPdu, MayRecv, Steady
<1>4. /\ UNCHANGED rx \/ \E r : rx' = [rx EXCEPT ![a] = r]
      /\ UNCHANGED delivered \/ \E d : delivered' = [delivered EXCEPT ![a] = d]
  BY DEF PollRecv, RecvNothing, RecvMalformed, RecvQuiet, RecvOverflow, RecvGrant, RecvCompleted,
         RecvPdu
<1>5. \E h : \/ inbox' = [inbox EXCEPT ![a] = h]
             \/ \E f : f.kind = "FC" /\ inbox' = [inbox EXCEPT ![a] = h, ![p] = Append(@, f)]
  <2>1. OverflowFc(Cfg[a]).kind = "FC" /\ Grant(Cfg[a], rx'[a]).kind = "FC"
    BY DEF OverflowFc, Grant, FlowControl
  <2> QED BY <1>3, <2>1 DEF PollRecv, RecvNothing, RecvMalformed, RecvQuiet, RecvOverflow, RecvGrant,
               RecvCompleted, Consume, Transmit, TransmitFails
<1>6. \A n \in Node : n # a => rx'[n] = rx[n] /\ delivered'[n] = delivered[n]
  BY <1>2, <1>4
<1>7. \A n \in Node : n # a /\ n # p => inbox'[n] = inbox[n]
  BY <1>2, <1>5
<1>8. inbox'[p] = inbox[p] \/ \E f : f.kind = "FC" /\ inbox'[p] = Append(inbox[p], f)
  BY <1>1, <1>2, <1>5
<1>9. ~IsSource(p) => /\ inbox' = [inbox EXCEPT ![a] = <<>>] /\ UNCHANGED <<rx, delivered>>
                      /\ Silent(p)
  <2> SUFFICES ASSUME ~IsSource(p)
               PROVE  /\ inbox' = [inbox EXCEPT ![a] = <<>>] /\ UNCHANGED <<rx, delivered>>
                      /\ Silent(p)
    OBVIOUS
  <2>1. Silent(p)
    BY <1>1 DEF StreamInv
  <2>2. NoData(inbox[a])
    BY <1>1, <2>1 DEF Silent
  <2> QED BY <2>1, <2>2, QuietRecv
<1>10. IF IsSource(p) THEN FlowAt(p)' ELSE Silent(p)'
  <2>1. CASE IsSource(p)
    <3>1. FlowAt(p)'
      BY <1>1, <1>3, <2>1, PollRecvFlows DEF FlowAt
    <3> QED BY <2>1, <3>1
  <2>2. CASE ~IsSource(p)
    <3>1. inbox'[a] = <<>> /\ UNCHANGED <<rx, delivered>> /\ Silent(p)
      BY <1>2, <1>9, <2>2
    <3>2. NoData(inbox'[a])
      BY <3>1 DEF NoData
    <3>3. Silent(p)'
      BY <1>1, <1>3, <3>1, <3>2 DEF Silent
    <3> QED BY <2>2, <3>3
  <2> QED BY <2>1, <2>2
<1>11. IF IsSource(a) THEN FlowAt(a)' ELSE Silent(a)'
  <2>1. CASE IsSource(a)
    <3>1. ~IsSource(p)
      BY <1>1, <2>1, OneSource
    <3>2. inbox' = [inbox EXCEPT ![a] = <<>>] /\ UNCHANGED <<rx, delivered>>
      BY <1>9, <3>1
    <3>3. inbox'[a] = <<>> /\ inbox'[p] = inbox[p]
      BY <1>1, <1>2, <3>2
    <3>4. Flows(a, submitted[a], app[a], tx[a], inbox[p], inbox[a], rx[p], delivered[p])
      BY <2>1 DEF StreamInv, FlowAt
    <3>5. NoGrant(inbox[a])
      <4>1. tx[a].state = "Idle"
        BY <1>3, OneSender
      <4>2. PICK k \in Nat : LinkAt(a, submitted[a], app[a], tx[a], inbox[p], inbox[a],
                                    rx[p], delivered[p], k)
        BY AtSource
      <4> QED BY <4>1, <4>2, GrantAwaited
    <3>6. GrantsOnly(<<>>)
      BY DEF GrantsOnly
    <3>7. Flows(a, submitted[a], app[a], tx[a], inbox[p], <<>>, rx[p], delivered[p])
      BY <3>4, <3>5, <3>6, FlowAside
    <3>8. FlowAt(a)'
      BY <1>3, <3>2, <3>3, <3>7 DEF FlowAt
    <3> QED BY <2>1, <3>8
  <2>2. CASE ~IsSource(a)
    <3>1. Silent(a)
      BY <2>2 DEF StreamInv
    <3>2. NoData(inbox'[p])
      <4>1. NoData(inbox[p])
        BY <3>1 DEF Silent
      <4>2. \A f : f.kind = "FC" => f.kind \notin DataKinds
        BY DEF DataKinds
      <4> QED BY <1>2, <1>8, <4>1, <4>2, NoDataKept
    <3>3. Silent(a)'
      BY <1>1, <1>3, <1>6, <3>1, <3>2 DEF Silent
    <3> QED BY <2>2, <3>3
  <2> QED BY <2>1, <2>2
<1>12. ASSUME NEW n \in Node, n # a, n # p PROVE IF IsSource(n) THEN FlowAt(n)' ELSE Silent(n)'
  <2>1. Peer[n] \in Node /\ Peer[n] # a /\ Peer[n] # p
    BY <1>1, <1>12
  <2>2. /\ inbox'[n] = inbox[n] /\ inbox'[Peer[n]] = inbox[Peer[n]]
        /\ rx'[Peer[n]] = rx[Peer[n]] /\ delivered'[Peer[n]] = delivered[Peer[n]]
    BY <1>6, <1>7, <1>12, <2>1
  <2>3. IF IsSource(n) THEN FlowAt(n) ELSE Silent(n)
    BY DEF StreamInv
  <2> QED BY <1>3, <2>2, <2>3 DEF FlowAt, Silent
<1>13. ASSUME NEW n \in Node PROVE IF IsSource(n) THEN FlowAt(n)' ELSE Silent(n)'
  BY <1>10, <1>11, <1>12
<1> QED BY <1>13 DEF StreamInv, IsSource

(* The clock keeps the streams.                                            *)
LEMMA TickStream ==
    ASSUME Steady, IInv, LinkInv, PairInv, StreamInv, Advance
    PROVE  StreamInv'
<1>1. /\ tx' = [n \in Node |-> Later(tx[n])]
      /\ UNCHANGED <<app, rx, inbox, submitted, delivered>>
  BY DEF Advance
<1>2. ASSUME NEW n \in Node PROVE IF IsSource(n) THEN FlowAt(n)' ELSE Silent(n)'
  <2>1. CASE IsSource(n)
    <3>1. tx'[n] = Later(tx[n])
      BY <1>1
    <3>2. Flows(n, submitted[n], app[n], Later(tx[n]), inbox[Peer[n]], inbox[n],
                rx[Peer[n]], delivered[Peer[n]])
      BY <2>1, TickFlows
    <3>3. FlowAt(n)'
      BY <1>1, <3>1, <3>2 DEF FlowAt
    <3> QED BY <2>1, <3>3
  <2>2. CASE ~IsSource(n)
    <3>1. Silent(n)
      BY <2>2 DEF StreamInv
    <3> QED BY <1>1, <2>2, <3>1 DEF Silent
  <2> QED BY <2>1, <2>2
<1> QED BY <1>2 DEF StreamInv, IsSource

(* Other stations are no part of the streams.                              *)
LEMMA NoiseStream ==
    ASSUME Steady, IInv, LinkInv, StreamInv, NEW a \in Node, Interfere(a)
    PROVE  StreamInv'
<1>1. UNCHANGED <<app, tx, rx, submitted, delivered>>
  BY DEF Interfere
<1>2. PICK f \in Noise : inbox' = [inbox EXCEPT ![a] = Append(@, f)]
  BY DEF Interfere
<1>3. f.kind = "Foreign"
  BY DEF Steady, Orderly
<1>4. \A n \in Node : inbox'[n] = inbox[n] \/ inbox'[n] = Append(inbox[n], f)
  BY <1>2 DEF IInv, QueuesFit
<1>5. ASSUME NEW n \in Node PROVE IF IsSource(n) THEN FlowAt(n)' ELSE Silent(n)'
  <2> DEFINE p == Peer[n]
             q == inbox[p]
             q2 == inbox'[p]
             g == inbox[n]
             g2 == inbox'[n]
  <2>1. p \in Node /\ QueueFits(q) /\ QueueFits(g)
    BY AtSource
  <2>2. (q2 = q \/ q2 = Append(q, f)) /\ (g2 = g \/ g2 = Append(g, f))
    BY <1>4, <2>1
  <2> HIDE DEF q2, g2
  <2>3. CASE IsSource(n)
    <3>1. Flows(n, submitted[n], app[n], tx[n], q, g, rx[p], delivered[p])
      BY <2>3 DEF StreamInv, FlowAt
    <3>2. Flows(n, submitted[n], app[n], tx[n], q2, g, rx[p], delivered[p])
      BY <1>3, <2>1, <2>2, <3>1, FlowForeign
    <3>3. GrantsOnly(g)
      BY <3>1 DEF Flows
    <3> HIDE DEF g
    <3>4. GrantsOnly(g2) /\ (NoGrant(g2) => NoGrant(g))
      <4>1. CASE g2 = g
        BY <3>3, <4>1
      <4>2. CASE g2 = Append(g, f)
        <5>1. /\ g2[Len(g) + 1] = f
              /\ \A j \in 1..Len(g) : j \in 1..Len(g2) /\ g2[j] = g[j]
              /\ \A j \in 1..Len(g2) : j \in 1..Len(g) \/ j = Len(g) + 1
          BY <2>1, <4>2, AppendAt
        <5>2. GrantsOnly(g2)
          BY <1>3, <3>3, <5>1 DEF GrantsOnly
        <5>3. NoGrant(g2) => NoGrant(g)
          BY <5>1 DEF NoGrant
        <5> QED BY <5>2, <5>3
      <4> QED BY <2>2, <4>1, <4>2
    <3>5. Flows(n, submitted[n], app[n], tx[n], q2, g2, rx[p], delivered[p])
      BY <3>2, <3>4, FlowAside
    <3>6. FlowAt(n)'
      BY <1>1, <3>5 DEF FlowAt, q2, g2
    <3> QED BY <2>3, <3>6
  <2>4. CASE ~IsSource(n)
    <3>1. Silent(n)
      BY <2>4 DEF StreamInv
    <3>2. NoData(q2)
      <4>1. NoData(q) /\ f.kind \notin DataKinds
        BY <1>3, <3>1 DEF Silent, DataKinds
      <4> QED BY <2>1, <2>2, <4>1, NoDataKept
    <3>3. Silent(n)'
      BY <1>1, <3>1, <3>2 DEF Silent, q2
    <3> QED BY <2>4, <3>3
  <2> QED BY <2>3, <2>4
<1> QED BY <1>5 DEF StreamInv, IsSource

(* A new message has said nothing yet.                                     *)
LEMMA SubmitStream ==
    ASSUME Steady, IInv, LinkInv, StreamInv, NEW a \in Node, Submit(a)
    PROVE  StreamInv'
<1>1. ~Sender(a) /\ IsSource(a) /\ UNCHANGED <<tx, rx, inbox, delivered>>
  BY SendersAreSources DEF Submit
<1>2. PICK x \in Msg : /\ ~Contains(submitted[a], x)
                       /\ app' = [app EXCEPT ![a] = x]
                       /\ submitted' = [submitted EXCEPT ![a] = Append(@, x)]
  BY DEF Submit
<1>3. DOMAIN app = Node /\ DOMAIN submitted = Node /\ submitted[a] \in Seq(Msg)
  BY AtSource
<1>4. app[a] = NoMsg /\ tx[a].state = "Idle"
  BY <1>1, OneSender DEF Sender
<1>5. app'[a] = x /\ submitted'[a] = Append(submitted[a], x)
  BY <1>2, <1>3
<1>6. Flows(a, submitted[a], NoMsg, tx[a], inbox[Peer[a]], inbox[a], rx[Peer[a]], delivered[Peer[a]])
  BY <1>1, <1>4 DEF StreamInv, FlowAt
<1>7. Flows(a, Append(submitted[a], x), x, tx[a], inbox[Peer[a]], inbox[a],
            rx[Peer[a]], delivered[Peer[a]])
  BY <1>2, <1>3, <1>4, <1>6, FlowSubmit
<1>8. FlowAt(a)'
  BY <1>1, <1>5, <1>7 DEF FlowAt
<1>9. ASSUME NEW n \in Node, n # a PROVE ~IsSource(n) /\ Silent(n)'
  <2>1. ~IsSource(n) /\ Silent(n)
    BY <1>1, <1>9, OneSource DEF StreamInv
  <2>2. submitted'[n] = submitted[n]
    BY <1>2, <1>3, <1>9
  <2> QED BY <1>1, <2>1, <2>2 DEF Silent
<1>10. ASSUME NEW n \in Node PROVE IF IsSource(n) THEN FlowAt(n)' ELSE Silent(n)'
  BY <1>1, <1>8, <1>9
<1> QED BY <1>10 DEF StreamInv, IsSource

(* Every step keeps the streams.                                           *)
LEMMA NextStream ==
    ASSUME Steady, Roomy, IInv, LinkInv, PairInv, StreamInv, [Next]_vars
    PROVE  StreamInv'
<1>1. CASE UNCHANGED vars
  <2>1. UNCHANGED <<app, tx, rx, inbox, submitted, delivered>>
    BY <1>1 DEF vars
  <2> QED BY <2>1 DEF StreamInv, FlowAt, Silent, IsSource
<1>2. ASSUME NEW a \in Node, SendTimesOut(a) \/ Lose(a) PROVE StreamInv'
  BY <1>2 DEF SendTimesOut, Lose, Fault, Steady, Orderly
<1> QED BY <1>1, <1>2, PollSendStream, PollRecvStream, TickStream, NoiseStream, SubmitStream DEF Next

(* At first nothing was said and nothing was heard.                        *)
LEMMA InitStream ==
    ASSUME Init
    PROVE  StreamInv
<1> SUFFICES ASSUME NEW n \in Node PROVE IF IsSource(n) THEN FlowAt(n) ELSE Silent(n)
  BY DEF StreamInv
<1> DEFINE p == Peer[n]
           o == [msg |-> NoMsg, done |-> 0, sn |-> 0]
<1>1. p \in Node
  BY Pairs
<1>2. /\ app[n] = NoMsg /\ tx[n] = TxIdle /\ rx[p] = RxNew
      /\ inbox[n] = <<>> /\ inbox[p] = <<>> /\ submitted[n] = <<>> /\ delivered[p] = <<>>
  BY <1>1 DEF Init
<1>3. RxNew.state = "Idle" /\ TxIdle.state = "Idle" /\ Len(<<>>) = 0
  BY DEF RxNew, TxIdle
<1>4. Silent(n)
  BY <1>2, <1>3 DEF Silent, NoData
<1>5. Between(n, NoMsg, TxIdle, <<>>, <<>>, RxNew, o, o) /\ o \in Place
  <2>1. o \in Place
    BY SnModAssumption DEF Place
  <2>2. Path(n, <<>>, o, o)
    <3> DEFINE u == [j \in 0..0 |-> o]
    <3>1. u \in [0..Len(<<>>) -> Place] /\ u[0] = o
      BY <1>3, <2>1
    <3>2. LeadsAll(n, <<>>, u)
      BY <1>3 DEF LeadsAll
    <3> HIDE DEF u
    <3> QED BY <1>3, <3>1, <3>2 DEF Path
  <2>3. HeardTo(n, RxNew, o) /\ SaidTo(n, NoMsg, TxIdle, o)
    BY <1>3 DEF HeardTo, SaidTo
  <2>4. ~Begins(n, TxIdle)
    BY <1>3 DEF Begins
  <2> QED BY <2>1, <2>2, <2>3, <2>4 DEF Between
<1>6. GrantsOnly(<<>>)
  BY <1>3 DEF GrantsOnly
<1>7. Balance(<<>>, NoMsg, TxIdle, <<>>, RxNew, <<>>)
  <2>1. Carried(<<>>) = <<>> /\ SaidBy(<<>>, NoMsg, TxIdle) = <<>>
    BY <1>3 DEF Carried, SaidBy
  <2>2. Part(RxNew) = <<>>
    BY <1>3 DEF Part
  <2>3. <<>> \o <<>> = <<>>
    OBVIOUS
  <2> QED BY <2>1, <2>2, <2>3, FlatEmpty DEF Balance
<1>8. FlowAt(n)
  BY <1>2, <1>5, <1>6, <1>7 DEF FlowAt, Flows
<1> QED BY <1>4, <1>8

(* What the streams say of the queues is what is claimed.                  *)
LEMMA StreamsConserve ==
    ASSUME Steady, IInv, LinkInv, StreamInv
    PROVE  StreamConserved
<1> SUFFICES ASSUME NEW n \in Node
             PROVE  FlattenSeq(delivered[Peer[n]]) \o Partial(Peer[n]) \o InFlight(Peer[n])
                      = FlattenSeq([i \in 1..Len(submitted[n]) |-> Sent(n, submitted[n][i])])
  BY DEF StreamConserved
<1> DEFINE p == Peer[n]
           S == submitted[n]
<1>1. Partial(p) = Part(rx[p])
  BY DEF Partial, Part
<1>2. InFlight(p) = FlattenSeq(Carried(inbox[p]))
  BY DEF InFlight, Carried
<1>3. [i \in 1..Len(S) |-> Sent(n, S[i])] = SaidBy(S, app[n], tx[n])
  BY DEF Sent, SaidBy, SaidOf
<1>4. CASE IsSource(n)
  <2>1. Balance(S, app[n], tx[n], inbox[p], rx[p], delivered[p])
    BY <1>4 DEF StreamInv, FlowAt, Flows
  <2> QED BY <1>1, <1>2, <1>3, <2>1 DEF Balance
<1>5. CASE ~IsSource(n)
  <2>1. /\ S = <<>> /\ delivered[p] = <<>> /\ rx[p].state = "Idle" /\ NoData(inbox[p])
    BY <1>5 DEF StreamInv, Silent
  <2>2. QueueFits(inbox[p])
    BY AtSource
  <2>3. FlattenSeq(Carried(inbox[p])) = <<>>
    <3>1. /\ Carried(inbox[p]) \in Seq(Seq(Byte)) /\ Len(Carried(inbox[p])) = Len(inbox[p])
          /\ \A i \in 1..Len(inbox[p]) : Carried(inbox[p])[i] = BytesOf(inbox[p][i])
      BY <2>2, CarriedFits
    <3>2. \A i \in 1..Len(inbox[p]) : BytesOf(inbox[p][i]) = <<>>
      BY <2>1 DEF NoData, BytesOf, DataKinds
    <3> QED BY <3>1, <3>2, FlatNone
  <2>4. SaidBy(S, app[n], tx[n]) = <<>>
    BY <2>1 DEF SaidBy
  <2>5. Part(rx[p]) = <<>>
    BY <2>1 DEF Part
  <2>6. <<>> \o <<>> = <<>>
    OBVIOUS
  <2> QED BY <1>1, <1>2, <1>3, <2>1, <2>3, <2>4, <2>5, <2>6, FlatEmpty
<1> QED BY <1>4, <1>5

(* If the bus loses nothing and every message fits its receiver, no call   *)
(* of poll_send or poll_recv loses, repeats or reorders a byte: what was   *)
(* delivered, what the receiver holds and what is on the way are together  *)
(* what has left the sender.                                               *)
THEOREM StreamHeld ==
    ASSUME Steady, Roomy
    PROVE  Spec => []StreamConserved
<1>1. Init => StreamInv
  BY InitStream
<1>2. IInv /\ LinkInv /\ PairInv /\ StreamInv /\ [Next]_vars => StreamInv'
  BY NextStream
<1>3. IInv /\ LinkInv /\ StreamInv => StreamConserved
  BY StreamsConserve
<1> QED BY <1>1, <1>2, <1>3, PairsKept, PTL DEF Spec
=============================================================================
