-------------------------- MODULE RxMachineProofs --------------------------
(***************************************************************************)
(* The properties of the receive machine, for every configuration, every   *)
(* set of bytes, every modulus of the sequence number and frames of any    *)
(* length.  The named parts of the invariant are the properties of module  *)
(* RxMachine; together they are inductive.                                 *)
(***************************************************************************)
EXTENDS RxMachine, SequenceTheorems, TLAPS

(* The remainder is the one number in 0..n-1 that division by n leaves: the *)
(* prover knows it for constants only, the sequence nibble has SnMod.       *)
LEMMA ModUnique ==
    ASSUME NEW n \in Nat, n >= 2, NEW q \in Nat, NEW r \in 0..(n - 1)
    PROVE  (n * q + r) % n = r
<1> DEFINE c == n * q + r
<1>1. c \in Nat
  OBVIOUS
<1>2. c = n * (c \div n) + (c % n) /\ c % n \in 0..(n - 1) /\ c \div n \in Int
  BY <1>1
<1>3. n * (q - (c \div n)) = (c % n) - r
  BY <1>2
<1>4. q - (c \div n) = 0
  <2>1. CASE q - (c \div n) >= 1
    BY <1>2, <1>3, <2>1
  <2>2. CASE q - (c \div n) <= -1
    BY <1>2, <1>3, <2>2
  <2> QED BY <1>2, <2>1, <2>2
<1> QED BY <1>2, <1>3, <1>4

(* Wrapping after every step (rx.rs: `(next_sn + 1) & 0x0F`) is the same as *)
(* wrapping once at the end.                                                *)
LEMMA ModStep ==
    ASSUME NEW c \in Nat
    PROVE  ((c % SnMod) + 1) % SnMod = (c + 1) % SnMod
<1>1. SnMod \in Nat /\ SnMod >= 2
  BY SnModAssumption
<1> DEFINE q == c \div SnMod
           r == c % SnMod
<1>2. q \in Nat /\ r \in 0..(SnMod - 1) /\ c = SnMod * q + r
  BY <1>1
<1>3. CASE r + 1 < SnMod
  <2>1. r + 1 \in 0..(SnMod - 1)
    BY <1>1, <1>2, <1>3
  <2>2. (SnMod * q + (r + 1)) % SnMod = r + 1
    BY <1>1, <1>2, <2>1, ModUnique
  <2> QED BY <1>1, <1>2, <2>1, <2>2
<1>4. CASE r + 1 = SnMod
  <2>1. c + 1 = SnMod * (q + 1) + 0
    BY <1>1, <1>2, <1>4
  <2>2. (SnMod * (q + 1) + 0) % SnMod = 0
    BY <1>1, <1>2, ModUnique
  <2>3. (SnMod * 1 + 0) % SnMod = 0
    BY <1>1, ModUnique
  <2> QED BY <1>1, <1>4, <2>1, <2>2, <2>3
<1> QED BY <1>1, <1>2, <1>3, <1>4

-----------------------------------------------------------------------------
(* What the parts of the proof need of the data. *)

(* Lesser of two ordered numbers.                                           *)
LEMMA LesserIsFirst ==
    ASSUME NEW a \in Int, NEW b \in Int, a <= b
    PROVE  Lesser(a, b) = a
BY DEF Lesser

(* Lesser is a number that neither argument is below.                       *)
LEMMA LesserBounds ==
    ASSUME NEW a \in Nat, NEW b \in Nat
    PROVE  Lesser(a, b) \in Nat /\ Lesser(a, b) <= a /\ Lesser(a, b) <= b
<1>1. CASE a <= b
  BY <1>1 DEF Lesser
<1>2. CASE ~(a <= b)
  BY <1>2 DEF Lesser
<1> QED BY <1>1, <1>2

(* What the machine accepts fits its buffer (handle_single, handle_first).  *)
LEMMA RoomBounds == Room(Config) \in Nat /\ Room(Config) <= Config.capacity
<1>1. Config.max_payload_len \in Nat /\ Config.capacity \in Nat
  BY ConfigAssumption DEF ValidConfig
<1> QED BY <1>1, LesserBounds DEF Room

(* The data of a frame is a sequence of bytes.                              *)
LEMMA DataIsSeq == Data \subseteq Seq(Byte)
<1> SUFFICES ASSUME NEW n \in 0..MaxData, NEW d \in [1..n -> Byte]
             PROVE  d \in Seq(Byte)
  BY DEF Data
<1>1. n \in Nat
  BY BoundsAssumption
<1> QED BY <1>1

(* The first n elements of a sequence, as copied into the buffer.           *)
LEMMA PrefixProperties ==
    ASSUME NEW S, NEW s \in Seq(S), NEW n \in 0..Len(s)
    PROVE  /\ SubSeq(s, 1, n) \in Seq(S)
           /\ Len(SubSeq(s, 1, n)) = n
           /\ \A i \in 1..n : SubSeq(s, 1, n)[i] = s[i]
<1>1. Len(s) \in Nat /\ \A i \in 1..n : s[i] \in S
  OBVIOUS
<1> QED BY <1>1, SubSeqProperties

(* Appending the first k elements of b to a gives a prefix of a \o b: the    *)
(* copy of handle_consecutive adds the bytes that come next.                *)
LEMMA ConcatPrefix ==
    ASSUME NEW S, NEW a \in Seq(S), NEW b \in Seq(S), NEW k \in 0..Len(b)
    PROVE  a \o SubSeq(b, 1, k) = SubSeq(a \o b, 1, Len(a) + k)
<1> DEFINE p == SubSeq(b, 1, k)
           t == SubSeq(a \o b, 1, Len(a) + k)
<1>1. p \in Seq(S) /\ Len(p) = k /\ \A i \in 1..k : p[i] = b[i]
  BY PrefixProperties
<1>2. /\ a \o b \in Seq(S) /\ Len(a \o b) = Len(a) + Len(b)
      /\ \A i \in 1..(Len(a) + Len(b)) :
             (a \o b)[i] = IF i <= Len(a) THEN a[i] ELSE b[i - Len(a)]
  BY ConcatProperties
<1>3. Len(a) \in Nat /\ Len(b) \in Nat
  OBVIOUS
<1>4. /\ t \in Seq(S) /\ Len(t) = Len(a) + k
      /\ \A i \in 1..(Len(a) + k) : t[i] = (a \o b)[i]
  <2>1. Len(a) + k \in 0..Len(a \o b)
    BY <1>2, <1>3
  <2> QED BY <1>2, <2>1, PrefixProperties
<1>5. /\ a \o p \in Seq(S) /\ Len(a \o p) = Len(a) + k
      /\ \A i \in 1..(Len(a) + k) :
             (a \o p)[i] = IF i <= Len(a) THEN a[i] ELSE p[i - Len(a)]
  <2> HIDE DEF p
  <2> QED BY <1>1, ConcatProperties
<1>6. \A i \in 1..(Len(a) + k) : (a \o p)[i] = t[i]
  <2> SUFFICES ASSUME NEW i \in 1..(Len(a) + k) PROVE (a \o p)[i] = t[i]
    OBVIOUS
  <2> HIDE DEF p, t
  <2>1. i \in 1..(Len(a) + Len(b))
    BY <1>3
  <2>2. t[i] = IF i <= Len(a) THEN a[i] ELSE b[i - Len(a)]
    BY <1>2, <1>4, <2>1
  <2>3. ~(i <= Len(a)) => p[i - Len(a)] = b[i - Len(a)]
    <3> SUFFICES ASSUME ~(i <= Len(a)) PROVE p[i - Len(a)] = b[i - Len(a)]
      OBVIOUS
    <3>1. i - Len(a) \in 1..k
      BY <1>3
    <3> QED BY <1>1, <3>1
  <2> QED BY <1>5, <2>2, <2>3
<1> HIDE DEF t, p
<1>7. a \o p = t
  BY <1>4, <1>5, <1>6, SeqEqual
<1> QED BY <1>7 DEF p, t

(* A Consecutive Frame is refused and changes nothing, or is the one        *)
(* expected and extends the buffer by its first bytes.                      *)
LEMMA ConsecutiveStep ==
    ASSUME NEW m \in Machine, NEW sn \in Nat, NEW d \in Seq(Byte)
    PROVE  LET r == handle_consecutive(Config, m, ConsecutiveFrame(sn, d))
               e == Extended(m, d)
           IN  \/ r.out \in Errors /\ r.rx = m
               \/ /\ m.state = "Receiving"
                  /\ sn = m.next_sn
                  /\ Len(m.content) < m.expected_len
                  /\ r = AfterChunk(e)
<1> DEFINE p == ConsecutiveFrame(sn, d)
<1>1. p.sn = sn /\ p.data = d
  BY DEF ConsecutiveFrame
<1>2. Len(m.content) \in Nat /\ m.expected_len \in Nat
  BY DEF Machine
<1> QED BY <1>1, <1>2 DEF handle_consecutive, Returns, Errors

(* Accepting the data of a Consecutive Frame changes the count and the      *)
(* buffer only, and the buffer holds the old bytes and the new ones up to   *)
(* the announced length.                                                    *)
LEMMA ExtendedType ==
    ASSUME NEW m \in Machine, NEW d \in Seq(Byte), Len(m.content) < m.expected_len
    PROVE  LET e == Extended(m, d)
           IN  /\ e \in Machine
               /\ e.state = m.state /\ e.expected_len = m.expected_len
               /\ e.block_size = m.block_size
               /\ e.block_remaining = m.block_remaining
               /\ e.next_sn = (m.next_sn + 1) % SnMod
               /\ e.content = SubSeq(m.content \o d, 1,
                                     Lesser(Len(m.content) + Len(d), m.expected_len))
<1> DEFINE k == Lesser(Len(d), m.expected_len - Len(m.content))
           e == Extended(m, d)
<1>1. /\ m.content \in Seq(Byte) /\ Len(m.content) \in Nat /\ Len(d) \in Nat
      /\ m.expected_len \in Nat /\ m.next_sn \in Nat
  BY SnModAssumption DEF Machine
<1>2. k \in 0..Len(d)
  BY <1>1 DEF Lesser
<1>3. Chunk(m, d) \in Seq(Byte) /\ Chunk(m, d) = SubSeq(d, 1, k)
  BY <1>1, <1>2, PrefixProperties DEF Chunk
<1>4. (m.next_sn + 1) % SnMod \in 0..(SnMod - 1)
  BY <1>1, SnModAssumption
<1>5. e \in Machine
  <2>1. m.content \o Chunk(m, d) \in Seq(Byte)
    BY <1>1, <1>3, ConcatProperties
  <2> QED BY <1>4, <2>1 DEF Extended, NextSn, Machine
<1>6. /\ e.next_sn = (m.next_sn + 1) % SnMod
      /\ e.content = m.content \o Chunk(m, d)
      /\ e.state = m.state /\ e.expected_len = m.expected_len
      /\ e.block_size = m.block_size /\ e.block_remaining = m.block_remaining
  BY <1>1 DEF Extended, NextSn, Machine
<1>7. m.content \o Chunk(m, d) = SubSeq(m.content \o d, 1,
                                       Lesser(Len(m.content) + Len(d), m.expected_len))
  <2>1. Lesser(Len(m.content) + Len(d), m.expected_len) = Len(m.content) + k
    BY <1>1 DEF Lesser
  <2>2. m.content \o SubSeq(d, 1, k) = SubSeq(m.content \o d, 1, Len(m.content) + k)
    BY <1>1, <1>2, ConcatPrefix
  <2> QED BY <1>3, <2>1, <2>2
<1> QED BY <1>5, <1>6, <1>7

(* What AfterChunk answers, case by case. *)
LEMMA AfterChunkCases ==
    ASSUME NEW m \in Machine
    PROVE  LET r == AfterChunk(m)
           IN  \/ /\ Len(m.content) >= m.expected_len
                  /\ r.out = "Completed"
                  /\ r.rx = [m EXCEPT !.state = "Idle"]
               \/ /\ Len(m.content) < m.expected_len
                  /\ m.block_size = 0
                  /\ r.out = "None" /\ r.rx = m
               \/ /\ Len(m.content) < m.expected_len
                  /\ m.block_size > 0 /\ m.block_remaining <= 1
                  /\ r.out = "SendFlowControl"
                  /\ r.rx = [m EXCEPT !.block_remaining = m.block_size]
               \/ /\ Len(m.content) < m.expected_len
                  /\ m.block_size > 0 /\ m.block_remaining > 1
                  /\ r.out = "None"
                  /\ r.rx = [m EXCEPT !.block_remaining = m.block_remaining - 1]
<1>1. /\ Len(m.content) \in Nat /\ m.expected_len \in Nat
      /\ m.block_size \in Nat /\ m.block_remaining \in Nat
  BY DEF Machine
<1> QED BY <1>1 DEF AfterChunk, Reloaded, Returns, Saturating

-----------------------------------------------------------------------------
(* The invariant.  The buffer stays the heard bytes only because the length *)
(* accepted is within the room, the count of a block only because it never  *)
(* reaches zero between calls: neither part is inductive without the types  *)
(* and without its own bounds.                                              *)

IInv ==
    /\ TypeOK
    /\ BufferIsWhatWasHeard
    /\ CompletedIsTheAnnouncedPayload
    /\ SequenceCountsFrames
    /\ BlockIsAnswered

(* A new machine (RxMachine::new) satisfies the invariant.                  *)
LEMMA InitIInv == Init => IInv
<1> SUFFICES ASSUME Init PROVE IInv
  OBVIOUS
<1>1. <<>> \in Seq(Byte) /\ 0 \in 0..(SnMod - 1)
  BY SnModAssumption
<1> QED BY <1>1 DEF Init, IInv, TypeOK, Machine, RxNew, Outcomes, Silence,
          BufferIsWhatWasHeard, CompletedIsTheAnnouncedPayload,
          SequenceCountsFrames, BlockIsAnswered

(* RxMachine::reset gives up the transfer and keeps the invariant.          *)
LEMMA ResetIInv == IInv /\ Reset => IInv'
<1> SUFFICES ASSUME IInv, Reset PROVE IInv'
  OBVIOUS
<1>1. <<>> \in Seq(Byte) /\ 0 \in 0..(SnMod - 1)
  BY SnModAssumption
<1> QED BY <1>1 DEF Reset, RxReset, RxNew, IInv, TypeOK, Machine, Outcomes, Silence,
          BufferIsWhatWasHeard, CompletedIsTheAnnouncedPayload,
          SequenceCountsFrames, BlockIsAnswered

(* A call that returns an error leaves everything as it was.                *)
LEMMA RefusedIInv ==
    ASSUME IInv, rx' = rx, heard' = heard, out' \in Errors
    PROVE  IInv'
BY DEF IInv, TypeOK, Errors, Outcomes, BufferIsWhatWasHeard,
       CompletedIsTheAnnouncedPayload, SequenceCountsFrames, BlockIsAnswered

(* handle_single keeps the invariant.                                       *)
LEMMA SingleIInv ==
    ASSUME IInv, NEW d \in Data, OnPdu(SingleFrame(d))
    PROVE  IInv'
<1> DEFINE p == SingleFrame(d)
           r == handle_single(Config, rx, p)
<1>1. p.kind = "SF" /\ p.data = d
  BY DEF SingleFrame
<1>2. /\ rx' = r.rx /\ out' = r.out
      /\ \/ r.out \in Errors /\ heard' = heard
         \/ r.out \notin Errors /\ HearStart(p, Len(d))
  BY <1>1 DEF OnPdu, on_pdu
<1>3. \/ r.out \in Errors /\ r.rx = rx
      \/ /\ rx.state = "Idle" /\ r.out = "Completed"
         /\ r.rx = [rx EXCEPT !.content = d]
  <2>1. rx.state \in {"Idle", "Receiving"}
    BY DEF IInv, TypeOK, Machine
  <2> QED BY <1>1, <2>1 DEF handle_single, Returns, Errors
<1>4. CASE r.out \in Errors
  <2>1. rx' = rx /\ heard' = heard /\ out' \in Errors
    BY <1>2, <1>3, <1>4 DEF Errors
  <2> QED BY <2>1, RefusedIInv
<1>5. CASE r.out \notin Errors
  <2>1. /\ rx.state = "Idle" /\ out' = "Completed"
        /\ rx' = [rx EXCEPT !.content = d]
        /\ heard' = [Silence EXCEPT !.len = Len(d), !.stream = d]
    BY <1>1, <1>2, <1>3, <1>5 DEF HearStart
  <2>2. d \in Seq(Byte) /\ Len(d) \in Nat /\ SubSeq(d, 1, Len(d)) = d
    BY DataIsSeq, SubSeqFull
  <2>3. TypeOK'
    BY <2>1, <2>2 DEF IInv, TypeOK, Machine, Outcomes, Silence
  <2>4. CompletedIsTheAnnouncedPayload'
    BY <2>1, <2>2 DEF IInv, TypeOK, Machine, Silence, CompletedIsTheAnnouncedPayload
  <2>5. rx'.state = "Idle"
    BY <2>1 DEF IInv, TypeOK, Machine
  <2> QED BY <2>3, <2>4, <2>5 DEF IInv, BufferIsWhatWasHeard, SequenceCountsFrames,
             BlockIsAnswered
<1> QED BY <1>4, <1>5

(* handle_first keeps the invariant.                                        *)
LEMMA FirstIInv ==
    ASSUME IInv, NEW n \in 1..MaxLen, NEW d \in Data, OnPdu(FirstFrame(n, d))
    PROVE  IInv'
<1> DEFINE p == FirstFrame(n, d)
           r == handle_first(Config, rx, p)
<1>1. p.kind = "FF" /\ p.data = d /\ p.len = n
  BY DEF FirstFrame
<1>2. /\ rx' = r.rx /\ out' = r.out /\ n > Len(d)
      /\ \/ r.out \in Errors /\ heard' = heard
         \/ r.out \notin Errors /\ HearStart(p, n)
  BY <1>1 DEF OnPdu, on_pdu
<1>3. d \in Seq(Byte) /\ Len(d) \in Nat /\ n \in Nat /\ SubSeq(d, 1, Len(d)) = d
  BY DataIsSeq, SubSeqFull, BoundsAssumption
<1>4. Len(d) < n /\ Lesser(Len(d), n) = Len(d)
  <2>1. Len(d) < n
    BY <1>2, <1>3
  <2> QED BY <1>3, <2>1, LesserIsFirst
<1> DEFINE m == [state |-> "Receiving", content |-> d, expected_len |-> n, next_sn |-> 1,
                 block_size |-> Config.block_size,
                 block_remaining |-> Config.block_size]
<1>5. \/ r.out \in Errors /\ r.rx = rx
      \/ r.out = "SendFlowControl" /\ r.rx = m /\ n <= Room(Config)
  <2>1. Room(Config) \in Nat
    BY RoomBounds
  <2> QED BY <1>1, <1>3, <1>4, <2>1 DEF handle_first, Returns, Errors
<1>6. CASE r.out \in Errors
  <2>1. rx' = rx /\ heard' = heard /\ out' \in Errors
    BY <1>2, <1>5, <1>6 DEF Errors
  <2> QED BY <2>1, RefusedIInv
<1>7. CASE r.out \notin Errors
  <2>1. /\ rx' = m /\ out' = "SendFlowControl"
        /\ heard' = [len |-> n, stream |-> d, cfs |-> 0, since_fc |-> 0]
        /\ n <= Room(Config)
    BY <1>1, <1>2, <1>5, <1>7 DEF HearStart, Silence
  <2>2. (1 + 0) % SnMod = 1
    <3>1. SnMod \in Nat /\ SnMod >= 2 /\ 1 \in 0..(SnMod - 1)
      BY SnModAssumption
    <3>2. (SnMod * 0 + 1) % SnMod = 1
      BY <3>1, ModUnique
    <3> QED BY <3>1, <3>2
  <2>3. TypeOK'
    BY <1>3, <2>1, SnModAssumption, ConfigAssumption DEF TypeOK, Machine, Outcomes
  <2>4. BufferIsWhatWasHeard'
    BY <1>3, <1>4, <2>1 DEF BufferIsWhatWasHeard
  <2>5. SequenceCountsFrames'
    BY <2>1, <2>2 DEF SequenceCountsFrames
  <2>8. BlockIsAnswered'
    BY <2>1, ConfigAssumption DEF BlockIsAnswered
  <2>9. CompletedIsTheAnnouncedPayload'
    BY <2>1 DEF CompletedIsTheAnnouncedPayload
  <2> QED BY <2>3, <2>4, <2>5, <2>8, <2>9 DEF IInv
<1> QED BY <1>6, <1>7

(* An accepted Consecutive Frame, before the outcome is decided: the buffer *)
(* is the announced part of what was heard, the new frame included.         *)
LEMMA AcceptedFrame ==
    ASSUME IInv, NEW d \in Data, rx.state = "Receiving"
    PROVE  LET e == Extended(rx, d)
               s == heard.stream \o d
           IN  /\ e \in Machine /\ e.state = "Receiving"
               /\ e.expected_len = heard.len /\ heard.len <= Room(Config)
               /\ e.block_size = rx.block_size
               /\ e.block_remaining = rx.block_remaining
               /\ e.next_sn = (1 + (heard.cfs + 1)) % SnMod
               /\ s \in Seq(Byte)
               /\ e.content = SubSeq(s, 1, Lesser(Len(s), heard.len))
               /\ Len(e.content) = Lesser(Len(s), heard.len)
               /\ Len(s) <= heard.len => e.content = s
<1> DEFINE e == Extended(rx, d)
           s == heard.stream \o d
<1>1. /\ rx \in Machine /\ d \in Seq(Byte) /\ heard.stream \in Seq(Byte)
      /\ heard.len \in Nat /\ heard.cfs \in Nat
      /\ rx.content = heard.stream /\ rx.expected_len = heard.len
      /\ Len(rx.content) < rx.expected_len
      /\ heard.len <= Room(Config)
      /\ rx.next_sn = (1 + heard.cfs) % SnMod
  BY DataIsSeq DEF IInv, TypeOK, BufferIsWhatWasHeard, SequenceCountsFrames
<1>2. /\ e \in Machine
      /\ e.state = rx.state /\ e.expected_len = rx.expected_len
      /\ e.block_size = rx.block_size
      /\ e.block_remaining = rx.block_remaining
      /\ e.next_sn = (rx.next_sn + 1) % SnMod
      /\ e.content = SubSeq(s, 1, Lesser(Len(heard.stream) + Len(d), heard.len))
  <2>1. /\ e \in Machine
        /\ e.state = rx.state /\ e.expected_len = rx.expected_len
        /\ e.block_size = rx.block_size
        /\ e.block_remaining = rx.block_remaining
        /\ e.next_sn = (rx.next_sn + 1) % SnMod
        /\ e.content = SubSeq(rx.content \o d, 1,
                              Lesser(Len(rx.content) + Len(d), rx.expected_len))
    BY <1>1, ExtendedType
  <2> HIDE DEF e
  <2> QED BY <1>1, <2>1
<1>3. s \in Seq(Byte) /\ Len(s) = Len(heard.stream) + Len(d)
  BY <1>1, ConcatProperties
<1>4. e.next_sn = (1 + (heard.cfs + 1)) % SnMod
  <2>1. 1 + heard.cfs \in Nat /\ (1 + heard.cfs) + 1 = 1 + (heard.cfs + 1)
    BY <1>1
  <2>2. (((1 + heard.cfs) % SnMod) + 1) % SnMod = ((1 + heard.cfs) + 1) % SnMod
    BY <2>1, ModStep
  <2> QED BY <1>1, <1>2, <2>1, <2>2
<1> HIDE DEF e, s
<1>5. Len(s) \in Nat /\ Lesser(Len(s), heard.len) \in 0..Len(s)
  BY <1>1, <1>3 DEF Lesser
<1>6. /\ e.content = SubSeq(s, 1, Lesser(Len(s), heard.len))
      /\ Len(e.content) = Lesser(Len(s), heard.len)
  BY <1>2, <1>3, <1>5, PrefixProperties
<1>7. Len(s) <= heard.len => e.content = s
  BY <1>1, <1>3, <1>5, <1>6, LesserIsFirst, SubSeqFull
<1> QED BY <1>1, <1>2, <1>3, <1>4, <1>6, <1>7 DEF e, s

(* handle_consecutive keeps the invariant: it refuses the frame, completes  *)
(* the transfer, or goes on, within a block or at the end of one.           *)
LEMMA ConsecutiveIInv ==
    ASSUME IInv, NEW sn \in 0..(SnMod - 1), NEW d \in Data,
           OnPdu(ConsecutiveFrame(sn, d))
    PROVE  IInv'
<1> DEFINE p == ConsecutiveFrame(sn, d)
           r == handle_consecutive(Config, rx, p)
           e == Extended(rx, d)
           s == heard.stream \o d
           granted == r.out = "SendFlowControl"
<1>1. p.kind = "CF" /\ p.data = d /\ p.sn = sn
  BY DEF ConsecutiveFrame
<1>2. /\ rx' = r.rx /\ out' = r.out
      /\ \/ r.out \in Errors /\ heard' = heard
         \/ r.out \notin Errors /\ HearMore(p, granted)
  BY <1>1 DEF OnPdu, on_pdu
<1>3. rx \in Machine /\ d \in Seq(Byte) /\ sn \in Nat
  BY DataIsSeq, SnModAssumption DEF IInv, TypeOK
<1>4. \/ r.out \in Errors /\ r.rx = rx
      \/ rx.state = "Receiving" /\ r = AfterChunk(e)
  BY <1>3, ConsecutiveStep
<1>5. CASE r.out \in Errors /\ r.rx = rx
  <2>1. rx' = rx /\ heard' = heard /\ out' \in Errors
    BY <1>2, <1>5
  <2> QED BY <2>1, RefusedIInv
<1>6. CASE rx.state = "Receiving" /\ r = AfterChunk(e)
  <2>1. /\ e \in Machine /\ e.state = "Receiving"
        /\ e.expected_len = heard.len /\ heard.len <= Room(Config)
        /\ e.block_size = rx.block_size
        /\ e.block_remaining = rx.block_remaining
        /\ e.next_sn = (1 + (heard.cfs + 1)) % SnMod
        /\ s \in Seq(Byte)
        /\ e.content = SubSeq(s, 1, Lesser(Len(s), heard.len))
        /\ Len(e.content) = Lesser(Len(s), heard.len)
        /\ Len(s) <= heard.len => e.content = s
    BY <1>6, AcceptedFrame
  <2>2. /\ heard \in [len : Nat, stream : Seq(Byte), cfs : Nat, since_fc : Nat]
        /\ rx.block_size > 0 =>
              /\ rx.block_size = Config.block_size
              /\ rx.block_remaining + heard.since_fc = rx.block_size
              /\ heard.since_fc < rx.block_size
        /\ rx.block_size \in Nat /\ rx.block_remaining \in Nat
    BY <1>3, <1>6 DEF IInv, TypeOK, BlockIsAnswered, Machine
  <2> HIDE DEF e, s
  <2>3. r.out \notin Errors
    BY <1>6, <2>1, AfterChunkCases DEF Errors
  <2>4. heard' = [len |-> heard.len, stream |-> s, cfs |-> heard.cfs + 1,
                  since_fc |-> IF granted THEN 0 ELSE heard.since_fc + 1]
    BY <1>1, <1>2, <2>2, <2>3 DEF HearMore, s
  <2> DEFINE done == Len(e.content) >= e.expected_len
  <2>5. /\ Len(s) \in Nat /\ heard.len \in Nat /\ e.content \in Seq(Byte)
        /\ Len(e.content) \in Nat /\ e.expected_len \in Nat
        /\ heard.cfs \in Nat /\ heard.since_fc \in Nat
    <3>1. e.content \in Seq(Byte) /\ e.expected_len \in Nat
      BY <2>1 DEF Machine
    <3>2. heard.len \in Nat /\ heard.cfs \in Nat /\ heard.since_fc \in Nat
      BY <2>2
    <3>3. Len(s) \in Nat /\ Len(e.content) \in Nat
      BY <2>1, <3>1
    <3> QED BY <3>1, <3>2, <3>3
  <2>6. heard' \in [len : Nat, stream : Seq(Byte), cfs : Nat, since_fc : Nat]
    <3> DEFINE more == heard.cfs + 1
               since == IF granted THEN 0 ELSE heard.since_fc + 1
    <3>1. more \in Nat /\ since \in Nat
      BY <2>5
    <3> HIDE DEF more, since
    <3>2. heard' = [len |-> heard.len, stream |-> s, cfs |-> more, since_fc |-> since]
      BY <2>4 DEF more, since
    <3> QED BY <2>1, <2>5, <3>1, <3>2
  <2>7. \/ /\ done /\ out' = "Completed" /\ rx' = [e EXCEPT !.state = "Idle"]
        \/ /\ ~done /\ rx.block_size = 0 /\ out' = "None" /\ rx' = e
        \/ /\ ~done /\ rx.block_size > 0 /\ rx.block_remaining <= 1
           /\ out' = "SendFlowControl"
           /\ rx' = [e EXCEPT !.block_remaining = rx.block_size]
        \/ /\ ~done /\ rx.block_size > 0 /\ rx.block_remaining > 1
           /\ out' = "None"
           /\ rx' = [e EXCEPT !.block_remaining = rx.block_remaining - 1]
    <3> DEFINE q == AfterChunk(e)
    <3>1. \/ /\ Len(e.content) >= e.expected_len
             /\ q.out = "Completed"
             /\ q.rx = [e EXCEPT !.state = "Idle"]
          \/ /\ Len(e.content) < e.expected_len
             /\ e.block_size = 0
             /\ q.out = "None" /\ q.rx = e
          \/ /\ Len(e.content) < e.expected_len
             /\ e.block_size > 0 /\ e.block_remaining <= 1
             /\ q.out = "SendFlowControl"
             /\ q.rx = [e EXCEPT !.block_remaining = e.block_size]
          \/ /\ Len(e.content) < e.expected_len
             /\ e.block_size > 0 /\ e.block_remaining > 1
             /\ q.out = "None"
             /\ q.rx = [e EXCEPT !.block_remaining = e.block_remaining - 1]
      BY <2>1, AfterChunkCases
    <3>2. rx' = q.rx /\ out' = q.out
      BY <1>2, <1>6
    <3> HIDE DEF q
    <3> QED BY <2>1, <2>5, <3>1, <3>2
  <2>8. CASE done
    <3>1. out' = "Completed" /\ rx' = [e EXCEPT !.state = "Idle"]
      BY <2>8, <2>7
    <3>2. rx' \in Machine /\ rx'.state = "Idle" /\ rx'.content = e.content
      BY <2>1, <3>1 DEF Machine
    <3>3. TypeOK'
      BY <2>6, <3>1, <3>2 DEF TypeOK, Outcomes
    <3>4. Len(e.content) = heard.len /\ e.content = SubSeq(s, 1, heard.len)
      BY <2>1, <2>5, <2>8 DEF Lesser
    <3>5. CompletedIsTheAnnouncedPayload'
      BY <2>4, <3>1, <3>2, <3>4 DEF CompletedIsTheAnnouncedPayload
    <3> QED BY <3>2, <3>3, <3>5 DEF IInv, BufferIsWhatWasHeard, SequenceCountsFrames,
               BlockIsAnswered
  <2>9. CASE ~done
    <3>1. Len(s) < heard.len /\ e.content = s
      BY <2>1, <2>5, <2>9 DEF Lesser
    <3>2. \/ /\ rx.block_size = 0 /\ out' = "None" /\ rx' = e
          \/ /\ rx.block_size > 0 /\ rx.block_remaining <= 1
             /\ out' = "SendFlowControl"
             /\ rx' = [e EXCEPT !.block_remaining = rx.block_size]
          \/ /\ rx.block_size > 0 /\ rx.block_remaining > 1
             /\ out' = "None"
             /\ rx' = [e EXCEPT !.block_remaining = rx.block_remaining - 1]
      BY <2>9, <2>7
    <3>3. /\ rx' \in Machine /\ rx'.state = "Receiving"
          /\ rx'.content = s /\ rx'.expected_len = heard.len
          /\ rx'.next_sn = (1 + (heard.cfs + 1)) % SnMod
          /\ rx'.block_size = rx.block_size
      <4>1. e = [e EXCEPT !.block_remaining = e.block_remaining]
        BY <2>1 DEF Machine
      <4>2. rx.block_remaining > 1 => rx.block_remaining - 1 \in Nat
        BY <2>2
      <4>3. PICK k \in Nat : rx' = [e EXCEPT !.block_remaining = k]
        BY <2>1, <2>2, <3>2, <4>1, <4>2
      <4>4. rx' \in Machine
        BY <2>1, <4>3 DEF Machine
      <4>5. /\ rx'.state = e.state /\ rx'.content = e.content
            /\ rx'.expected_len = e.expected_len /\ rx'.next_sn = e.next_sn
            /\ rx'.block_size = e.block_size
        BY <2>1, <4>3 DEF Machine
      <4> QED BY <2>1, <3>1, <4>4, <4>5
    <3>4. TypeOK'
      BY <2>6, <3>2, <3>3 DEF TypeOK, Outcomes
    <3>5. BufferIsWhatWasHeard'
      BY <2>1, <2>4, <3>1, <3>3 DEF BufferIsWhatWasHeard
    <3>6. SequenceCountsFrames'
      BY <2>4, <3>3 DEF SequenceCountsFrames
    <3>7. out' # "Completed"
      BY <3>2
    <3>8. BlockIsAnswered'
      <4>1. CASE rx.block_size = 0
        BY <3>3, <4>1 DEF BlockIsAnswered
      <4>2. CASE out' = "SendFlowControl" /\ rx.block_size > 0
        <5>1. rx'.block_remaining = rx.block_size
          BY <2>1, <3>2, <4>2 DEF Machine
        <5>2. heard'.since_fc = 0
          BY <1>2, <2>4, <4>2
        <5> QED BY <2>2, <2>5, <3>3, <5>1, <5>2, <4>2 DEF BlockIsAnswered
      <4>3. CASE out' = "None" /\ rx.block_size > 0
        <5>1. rx'.block_remaining = rx.block_remaining - 1 /\ rx.block_remaining > 1
          BY <2>1, <3>2, <4>3 DEF Machine
        <5>2. heard'.since_fc = heard.since_fc + 1
          BY <1>2, <2>4, <4>3
        <5>3. /\ rx.block_size = Config.block_size
              /\ rx.block_remaining + heard.since_fc = rx.block_size
              /\ rx.block_size \in Nat /\ rx.block_remaining \in Nat
          BY <2>2, <4>3
        <5>4. /\ (rx.block_remaining - 1) + (heard.since_fc + 1) = rx.block_size
              /\ heard.since_fc + 1 < rx.block_size
          <6> DEFINE left == rx.block_remaining
                     size == rx.block_size
                     since == heard.since_fc
          <6>1. left \in Nat /\ size \in Nat /\ since \in Nat /\ left + since = size /\ left > 1
            BY <2>5, <5>1, <5>3
          <6> HIDE DEF left, size, since
          <6>2. (left - 1) + (since + 1) = size /\ since + 1 < size
            BY <6>1
          <6> QED BY <6>2 DEF left, size, since
        <5> QED BY <3>3, <5>1, <5>2, <5>3, <5>4 DEF BlockIsAnswered
      <4> QED BY <3>2, <4>1, <4>2, <4>3
    <3> QED BY <3>4, <3>5, <3>6, <3>7, <3>8 DEF IInv, CompletedIsTheAnnouncedPayload
  <2> QED BY <2>8, <2>9
<1> QED BY <1>4, <1>5, <1>6

(* Flow Control is not for the receive machine, and changes nothing.        *)
LEMMA FlowControlIInv ==
    ASSUME IInv, NEW st \in FlowStatus, OnPdu(FlowControl(st, 0, 0))
    PROVE  IInv'
<1> DEFINE p == FlowControl(st, 0, 0)
<1>1. p.kind = "FC"
  BY DEF FlowControl
<1>2. rx' = rx /\ out' = "UnexpectedPdu" /\ heard' = heard
  BY <1>1 DEF OnPdu, on_pdu, Returns, Errors
<1>3. out' \in Errors
  BY <1>2 DEF Errors
<1> QED BY <1>2, <1>3, RefusedIInv

(* Every call keeps the invariant.                                          *)
LEMMA NextIInv == IInv /\ [Next]_vars => IInv'
<1> SUFFICES ASSUME IInv, [Next]_vars PROVE IInv'
  OBVIOUS
<1>1. CASE Reset
  BY <1>1, ResetIInv
<1>2. ASSUME NEW pdu \in Pdu, OnPdu(pdu) PROVE IInv'
  <2>1. CASE \E d \in Data : pdu = SingleFrame(d)
    BY <1>2, <2>1, SingleIInv
  <2>2. CASE \E n \in 1..MaxLen, d \in Data : pdu = FirstFrame(n, d)
    BY <1>2, <2>2, FirstIInv
  <2>3. CASE \E sn \in 0..(SnMod - 1), d \in Data : pdu = ConsecutiveFrame(sn, d)
    BY <1>2, <2>3, ConsecutiveIInv
  <2>4. CASE \E st \in FlowStatus : pdu = FlowControl(st, 0, 0)
    BY <1>2, <2>4, FlowControlIInv
  <2> QED BY <2>1, <2>2, <2>3, <2>4 DEF Pdu
<1>3. CASE UNCHANGED vars
  BY <1>3 DEF vars, IInv, TypeOK, BufferIsWhatWasHeard, CompletedIsTheAnnouncedPayload,
          SequenceCountsFrames, BlockIsAnswered
<1> QED BY <1>1, <1>2, <1>3 DEF Next

(* Every call of on_pdu and reset, from any state the machine can reach,    *)
(* keeps the whole invariant.                                               *)
THEOREM Invariance == Spec => []IInv
<1>1. Init => IInv
  BY InitIInv
<1>2. IInv /\ [Next]_vars => IInv'
  BY NextIInv
<1> QED BY <1>1, <1>2, PTL DEF Spec

(* The machine of rx.rs always has its declared types.                      *)
THEOREM TypeCorrect == Spec => []TypeOK
<1>1. IInv => TypeOK
  BY DEF IInv
<1> QED BY <1>1, Invariance, PTL

(* Whatever frames arrive in whatever order, an open transfer holds exactly *)
(* the bytes heard since its First Frame (handle_first,                     *)
(* handle_consecutive).                                                     *)
THEOREM BufferCorrect == Spec => []BufferIsWhatWasHeard
<1>1. IInv => BufferIsWhatWasHeard
  BY DEF IInv
<1> QED BY <1>1, Invariance, PTL

(* Whatever frames arrive, a payload reported Completed has the announced   *)
(* length and is the beginning of what was heard.                           *)
THEOREM CompletionCorrect == Spec => []CompletedIsTheAnnouncedPayload
<1>1. IInv => CompletedIsTheAnnouncedPayload
  BY DEF IInv
<1> QED BY <1>1, Invariance, PTL

(* The expected sequence number counts accepted frames for every modulus,   *)
(* the nibble's 16 included.                                                *)
THEOREM SequenceCorrect == Spec => []SequenceCountsFrames
<1>1. IInv => SequenceCountsFrames
  BY DEF IInv
<1> QED BY <1>1, Invariance, PTL

(* A Flow Control answers every block_size-th frame, for every block size.  *)
THEOREM BlockCorrect == Spec => []BlockIsAnswered
<1>1. IInv => BlockIsAnswered
  BY DEF IInv
<1> QED BY <1>1, Invariance, PTL

(* No PDU makes on_pdu answer Overflow while a transfer is open: both       *)
(* overflow branches of handle_consecutive are dead code.                   *)
THEOREM NoOverflowMidTransfer == Spec => AcceptedTransferFits
<1>1. ASSUME IInv, [Next]_vars
      PROVE  [rx.state = "Receiving" => out' # "Overflow"]_vars
  <2> SUFFICES ASSUME rx.state = "Receiving", Next PROVE out' # "Overflow"
    BY <1>1
  <2>1. CASE Reset
    BY <2>1 DEF Reset
  <2>2. ASSUME NEW pdu \in Pdu, OnPdu(pdu) PROVE out' # "Overflow"
    <3>1. CASE \E d \in Data : pdu = SingleFrame(d)
      BY <2>2, <3>1 DEF OnPdu, on_pdu, SingleFrame, handle_single, Returns
    <3>2. CASE \E n \in 1..MaxLen, d \in Data : pdu = FirstFrame(n, d)
      BY <2>2, <3>2 DEF OnPdu, on_pdu, FirstFrame, handle_first, Returns
    <3>3. CASE \E st \in FlowStatus : pdu = FlowControl(st, 0, 0)
      BY <2>2, <3>3 DEF OnPdu, on_pdu, FlowControl, Returns
    <3>4. ASSUME NEW sn \in 0..(SnMod - 1), NEW d \in Data, pdu = ConsecutiveFrame(sn, d)
          PROVE  out' # "Overflow"
      <4> DEFINE e == Extended(rx, d)
                 s == heard.stream \o d
      <4>1. /\ rx \in Machine /\ heard.len \in Nat
            /\ rx.content = heard.stream /\ rx.expected_len = heard.len
            /\ Len(rx.content) < rx.expected_len
            /\ heard.len <= Config.capacity /\ Config.capacity \in Nat
        <5>1. Room(Config) <= Config.capacity /\ Room(Config) \in Nat
          BY RoomBounds
        <5>2. Config.capacity \in Nat
          BY ConfigAssumption
        <5>3. heard.len \in Nat /\ heard.len <= Room(Config)
          BY <1>1 DEF IInv, TypeOK, BufferIsWhatWasHeard
        <5>4. heard.len <= Config.capacity
          BY <5>1, <5>2, <5>3
        <5> QED BY <1>1, <5>2, <5>3, <5>4 DEF IInv, TypeOK, BufferIsWhatWasHeard
      <4>2. /\ e \in Machine /\ s \in Seq(Byte)
            /\ Len(e.content) = Lesser(Len(s), heard.len)
        BY <1>1, AcceptedFrame
      <4>3. e.content = rx.content \o Chunk(rx, d)
        BY <4>1 DEF Extended, Machine
      <4> HIDE DEF e, s
      <4>4. Len(rx.content \o Chunk(rx, d)) <= Config.capacity
        <5>1. Len(s) \in Nat
          BY <4>2
        <5> QED BY <4>1, <4>2, <4>3, <5>1 DEF Lesser
      <4>5. /\ Len(rx.content) \in Nat /\ rx.expected_len \in Nat
            /\ Len(rx.content \o Chunk(rx, d)) \in Nat
        <5>1. rx.content \in Seq(Byte) /\ rx.expected_len \in Nat
          BY <4>1 DEF Machine
        <5>2. e.content \in Seq(Byte)
          BY <4>2 DEF Machine
        <5>3. Len(rx.content) \in Nat /\ Len(e.content) \in Nat
          BY <5>1, <5>2
        <5> QED BY <4>3, <5>1, <5>3
      <4>6. AfterChunk(e).out # "Overflow"
        BY <4>2, AfterChunkCases
      <4>7. out' = handle_consecutive(Config, rx, pdu).out
            /\ pdu.data = d /\ pdu.sn = sn
        BY <2>2, <3>4 DEF OnPdu, on_pdu, ConsecutiveFrame
      <4> QED BY <4>1, <4>4, <4>5, <4>6, <4>7 DEF handle_consecutive, Returns, e
    <3> QED BY <2>2, <3>1, <3>2, <3>3, <3>4 DEF Pdu
  <2> QED BY <2>1, <2>2 DEF Next
<1> QED BY <1>1, Invariance, PTL DEF Spec, AcceptedTransferFits
=============================================================================
