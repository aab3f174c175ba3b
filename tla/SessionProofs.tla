--------------------------- MODULE SessionProofs ---------------------------
(***************************************************************************)
(* A segmented transmission on its own (tx.rs), for any payload, frame     *)
(* length and padding: what the frames of a session carry, how far the     *)
(* session is after each of them, and the separation time it keeps.        *)
(* Then what FlattenSeq makes of a sequence of such payloads, and how the  *)
(* Consecutive Frames of a queue are numbered.                             *)
(***************************************************************************)
EXTENDS TxSession, SequencesExt, SequenceTheorems, FiniteSetTheorems,
        WellFoundedInduction, TLAPS

(* The first n elements of a sequence.                                     *)
LEMMA PrefixOf ==
    ASSUME NEW S, NEW s \in Seq(S), NEW n \in 0..Len(s)
    PROVE  /\ SubSeq(s, 1, n) \in Seq(S)
           /\ Len(SubSeq(s, 1, n)) = n
           /\ \A i \in 1..n : SubSeq(s, 1, n)[i] = s[i]
<1>1. Len(s) \in Nat /\ \A i \in 1..n : s[i] \in S
  OBVIOUS
<1> QED BY <1>1, SubSeqProperties

(* The numbers the session counts with.                                    *)
LEMMA FrameRoom ==
    ASSUME NEW c, c.frame_len \in Nat
    PROVE  /\ max_first_frame_payload(c) \in Nat
           /\ max_consecutive_frame_payload(c) \in Nat
           /\ max_single_frame_payload(c) \in Nat
           /\ max_first_frame_payload(c) <= max_single_frame_payload(c)
BY DEF max_first_frame_payload, max_consecutive_frame_payload, max_single_frame_payload,
       Saturating

SessionFields ==
    {"payload_len", "offset", "next_sn", "block_size", "block_remaining", "st_min",
     "wait_count", "owner"}

(* A session of a payload of n bytes of which k are out. *)
SessionAt(s, k, n) ==
    /\ DOMAIN s = SessionFields
    /\ s.payload_len = n /\ s.offset = k

(* The session in a transmit state, if there is one, is at k and not done. *)
SentTo(tx, k) ==
    /\ tx.state \in {"Idle", "WaitingForFc", "Sending"}
    /\ tx.state # "Idle" =>
          /\ DOMAIN tx = {"state", "session", "timer"}
          /\ tx.session.payload_len \in Nat
          /\ SessionAt(tx.session, k, tx.session.payload_len)
          /\ k < tx.session.payload_len

(* start_send leaves the session behind the bytes of the First Frame.      *)
LEMMA FirstSent ==
    ASSUME NEW c, c.frame_len \in Nat, NEW S, NEW payload \in Seq(S),
           Len(payload) > max_single_frame_payload(c), NEW timer
    PROVE  /\ max_first_frame_payload(c) < Len(payload)
           /\ SentTo(WaitingForFc(NewSession(c, payload), timer), max_first_frame_payload(c))
<1>1. max_first_frame_payload(c) < Len(payload) /\ Len(payload) \in Nat
  BY FrameRoom
<1> DEFINE s == NewSession(c, payload)
<1>2. SessionAt(s, max_first_frame_payload(c), Len(payload))
  BY DEF NewSession, SessionAt, SessionFields
<1>3. s.payload_len = Len(payload)
  BY DEF NewSession
<1> HIDE DEF s
<1> QED BY <1>1, <1>2, <1>3 DEF SentTo, WaitingForFc, s

(* How far the next Consecutive Frame reaches. *)
Reach(c, k, n) == Lesser(k + max_consecutive_frame_payload(c), n)

(* The next Consecutive Frame carries the bytes up to there.               *)
LEMMA ChunkReach ==
    ASSUME NEW c, c.frame_len \in Nat, NEW S, NEW payload \in Seq(S),
           NEW k \in Nat, k < Len(payload), NEW s, SessionAt(s, k, Len(payload))
    PROVE  LET e == Reach(c, k, Len(payload))
               chunk == NextChunk(c, s, payload)
           IN  /\ e \in k..Len(payload)
               /\ chunk \in Seq(S) /\ Len(chunk) = e - k
               /\ \A i \in 1..(e - k) : chunk[i] = payload[k + i]
<1> DEFINE n == Len(payload)
           e == Reach(c, k, n)
           chunk == NextChunk(c, s, payload)
<1>1. n \in Nat /\ e \in k..n
  BY FrameRoom DEF Reach, Lesser
<1>2. chunk = SubSeq(payload, k + 1, e)
  BY DEF NextChunk, SessionAt, Reach
<1> HIDE DEF e, chunk
<1>3. \A i \in (k + 1)..e : payload[i] \in S
  BY <1>1
<1>4. /\ chunk \in Seq(S) /\ Len(chunk) = IF k + 1 <= e THEN e - (k + 1) + 1 ELSE 0
      /\ \A i \in 1..(e - (k + 1) + 1) : chunk[i] = payload[k + 1 + i - 1]
  BY <1>1, <1>2, <1>3, SubSeqProperties
<1>5. e - (k + 1) + 1 = e - k /\ \A i \in 1..(e - k) : k + 1 + i - 1 = k + i
  BY <1>1
<1>6. Len(chunk) = e - k
  BY <1>1, <1>4
<1>7. \A i \in 1..(e - k) : chunk[i] = payload[k + i]
  BY <1>4, <1>5
<1> QED BY <1>1, <1>4, <1>6, <1>7 DEF e, chunk, n

(* continue_send: the session goes on behind that frame, or is done.       *)
LEMMA FrameSent ==
    ASSUME NEW c, c.frame_len \in Nat, NEW S, NEW payload \in Seq(S),
           NEW k \in Nat, k < Len(payload), NEW s, SessionAt(s, k, Len(payload))
    PROVE  SentTo(AfterFrame(c, s, payload), Reach(c, k, Len(payload)))
<1> DEFINE n == Len(payload)
           e == Reach(c, k, n)
           sent == [s EXCEPT !.offset = @ + Len(NextChunk(c, s, payload)),
                             !.next_sn = NextSn(@)]
           left == Saturating(s.block_remaining, 1)
           full == [sent EXCEPT !.block_remaining = s.block_size]
           less == [sent EXCEPT !.block_remaining = left]
<1>1. e \in k..n /\ Len(NextChunk(c, s, payload)) = e - k /\ n \in Nat
  BY ChunkReach
<1>2. k + (e - k) = e
  BY <1>1
<1>3. DOMAIN s = SessionFields /\ s.payload_len = n /\ s.offset = k
  BY DEF SessionAt
<1>4. SessionAt(sent, e, n)
  BY <1>1, <1>2, <1>3 DEF SessionAt, SessionFields
<1> HIDE DEF sent, left, e, n
<1>5. SessionAt(full, e, n) /\ SessionAt(less, e, n)
  BY <1>4 DEF SessionAt, SessionFields
<1> HIDE DEF full, less
<1>6. ASSUME NEW t, NEW timer, SessionAt(t, e, n), e < n
      PROVE  SentTo(Sending(t, timer), e) /\ SentTo(WaitingForFc(t, timer), e)
  BY <1>1, <1>6 DEF SentTo, Sending, WaitingForFc, SessionAt
<1>7. SentTo(TxIdle, e)
  BY DEF SentTo, TxIdle
<1>8. AfterFrame(c, s, payload) =
          IF sent.offset >= s.payload_len THEN TxIdle
          ELSE IF s.block_size = 0 THEN Sending(sent, Timer(s.st_min))
          ELSE IF left = 0 THEN WaitingForFc(full, Timer(c.n_bs))
          ELSE Sending(less, Timer(s.st_min))
  BY DEF AfterFrame, sent, left, full, less
<1>9. sent.offset = e /\ s.payload_len = n
  BY <1>3, <1>4 DEF SessionAt
<1>10. CASE e >= n
  BY <1>7, <1>8, <1>9, <1>10 DEF e, n
<1>11. CASE e < n
  <2>1. ~(sent.offset >= s.payload_len)
    BY <1>1, <1>9, <1>11
  <2> QED BY <1>4, <1>5, <1>6, <1>8, <1>11, <2>1 DEF e, n
<1> QED BY <1>1, <1>10, <1>11

(* What the peer has heard, without the padding of the last frame, is the  *)
(* payload up to there.                                                    *)
LEMMA HeardSoFar ==
    ASSUME NEW c, c.frame_len \in Nat, NEW S, Pad \in S, NEW payload \in Seq(S),
           NEW k \in Nat, k < Len(payload), NEW s, SessionAt(s, k, Len(payload)),
           NEW said, said = SubSeq(payload, 1, k)
    PROVE  LET n    == Len(payload)
               e    == Reach(c, k, n)
               data == Padded(c, NextChunk(c, s, payload))
           IN  SubSeq(said \o data, 1, Lesser(Len(said \o data), n)) = SubSeq(payload, 1, e)
<1> DEFINE n == Len(payload)
           m == max_consecutive_frame_payload(c)
           e == Reach(c, k, n)
           chunk == NextChunk(c, s, payload)
           data == Padded(c, chunk)
           all == said \o data
           l == Lesser(Len(all), n)
<1>1. /\ e \in k..n /\ chunk \in Seq(S) /\ Len(chunk) = e - k
      /\ \A i \in 1..(e - k) : chunk[i] = payload[k + i]
  BY ChunkReach
<1>2. n \in Nat /\ m \in Nat /\ e = IF k + m <= n THEN k + m ELSE n
  BY FrameRoom DEF Reach, Lesser
<1>3. said \in Seq(S) /\ Len(said) = k /\ \A i \in 1..k : said[i] = payload[i]
  <2>1. k \in 0..n
    BY <1>2
  <2> QED BY <2>1, PrefixOf
<1> HIDE DEF chunk, e, m
<1>4. /\ data \in Seq(S) /\ Len(data) \in Nat
      /\ Len(data) = IF c.padding THEN (e - k) + (m - (e - k)) ELSE e - k
      /\ \A i \in 1..(e - k) : data[i] = chunk[i]
  <2> DEFINE pad == [i \in 1..(m - Len(chunk)) |-> Pad]
  <2>1. m - Len(chunk) = m - (e - k) /\ m - (e - k) \in Nat
    BY <1>1, <1>2
  <2>2. pad \in Seq(S) /\ Len(pad) = m - (e - k)
    <3>1. pad \in [1..(m - Len(chunk)) -> S]
      OBVIOUS
    <3> QED BY <2>1, <3>1
  <2> HIDE DEF pad
  <2>3. /\ chunk \o pad \in Seq(S) /\ Len(chunk \o pad) = Len(chunk) + Len(pad)
        /\ \A i \in 1..(Len(chunk) + Len(pad)) :
              (chunk \o pad)[i] = IF i <= Len(chunk) THEN chunk[i] ELSE pad[i - Len(chunk)]
    BY <1>1, <2>2, ConcatProperties
  <2>4. Len(chunk) \in Nat /\ Len(pad) \in Nat
    BY <1>1, <2>2
  <2>5. \A i \in 1..Len(chunk) : i \in 1..(Len(chunk) + Len(pad)) /\ i <= Len(chunk)
    BY <2>4
  <2>6. \A i \in 1..Len(chunk) : (chunk \o pad)[i] = chunk[i]
    BY <2>3, <2>5
  <2>7. data = IF c.padding THEN chunk \o pad ELSE chunk
    BY DEF Padded, pad, m
  <2>8. CASE c.padding
    <3>1. data = chunk \o pad
      BY <2>7, <2>8
    <3>2. Len(data) = (e - k) + (m - (e - k))
      BY <1>1, <2>2, <2>3, <3>1
    <3> HIDE DEF data
    <3>3. data \in Seq(S)
      BY <2>3, <3>1
    <3>4. Len(data) \in Nat
      BY <3>3
    <3>5. \A i \in 1..(e - k) : data[i] = chunk[i]
      BY <1>1, <2>6, <3>1
    <3> QED BY <2>8, <3>2, <3>3, <3>4, <3>5
  <2>9. CASE ~c.padding
    <3>1. data = chunk
      BY <2>7, <2>9
    <3> HIDE DEF data
    <3> QED BY <1>1, <2>9, <3>1
  <2> QED BY <2>8, <2>9
<1> HIDE DEF data
<1>5. /\ all \in Seq(S) /\ Len(all) = k + Len(data)
      /\ \A i \in 1..k : all[i] = said[i]
      /\ \A i \in 1..Len(data) : all[k + i] = data[i]
  <2> HIDE DEF data
  <2>1. /\ all \in Seq(S) /\ Len(all) = Len(said) + Len(data)
        /\ \A i \in 1..(Len(said) + Len(data)) :
              all[i] = IF i <= Len(said) THEN said[i] ELSE data[i - Len(said)]
    <3>1. said \in Seq(S) /\ data \in Seq(S)
      BY <1>3, <1>4
    <3> QED BY <3>1, ConcatProperties
  <2> HIDE DEF all
  <2>2. \A i \in 1..k : i \in 1..(k + Len(data)) /\ i <= k
    BY <1>4
  <2>4. Len(said) = k
    BY <1>3
  <2>5. all \in Seq(S) /\ Len(all) = k + Len(data)
    BY <2>1, <2>4
  <2>6. \A i \in 1..k : all[i] = said[i]
    BY <2>1, <2>2, <2>4
  <2>7. ASSUME NEW i \in 1..Len(data) PROVE all[k + i] = data[i]
    <3> DEFINE j == k + i
    <3>1. j \in 1..(k + Len(data)) /\ ~(j <= k) /\ j - k = i
      BY <1>4
    <3> HIDE DEF j
    <3>2. all[j] = data[j - k]
      BY <2>1, <2>4, <3>1
    <3> QED BY <3>1, <3>2 DEF j
  <2> QED BY <2>5, <2>6, <2>7
<1> HIDE DEF all
<1>6. l = e
  BY <1>1, <1>2, <1>4, <1>5 DEF Lesser
<1>7. \A i \in 1..e : all[i] = payload[i]
  <2> SUFFICES ASSUME NEW i \in 1..e PROVE all[i] = payload[i]
    OBVIOUS
  <2>1. CASE i <= k
    BY <1>3, <1>5, <2>1
  <2>2. CASE i > k
    <3>1. i - k \in 1..(e - k) /\ k + (i - k) = i /\ i - k \in 1..Len(data)
      BY <1>1, <1>2, <1>4, <2>2
    <3>2. all[k + (i - k)] = data[i - k] /\ data[i - k] = chunk[i - k]
      BY <1>4, <1>5, <3>1
    <3>3. chunk[i - k] = payload[k + (i - k)]
      BY <1>1, <3>1
    <3> QED BY <3>1, <3>2, <3>3
  <2> QED BY <1>1, <1>2, <2>1, <2>2
<1>8. e \in 0..n /\ e \in 0..Len(all)
  BY <1>1, <1>2, <1>4, <1>5
<1>9. SubSeq(all, 1, e) = SubSeq(payload, 1, e)
  <2>1. /\ SubSeq(all, 1, e) \in Seq(S) /\ Len(SubSeq(all, 1, e)) = e
        /\ \A i \in 1..e : SubSeq(all, 1, e)[i] = all[i]
    BY <1>5, <1>8, PrefixOf
  <2>2. /\ SubSeq(payload, 1, e) \in Seq(S) /\ Len(SubSeq(payload, 1, e)) = e
        /\ \A i \in 1..e : SubSeq(payload, 1, e)[i] = payload[i]
    BY <1>8, PrefixOf
  <2> QED BY <1>7, <2>1, <2>2, SeqEqual
<1> QED BY <1>6, <1>9 DEF all, data, chunk, e

-----------------------------------------------------------------------------
(* The separation time a receiver asks for.                                *)

(* A separation time that one byte can name: none, 100 to 900              *)
(* microseconds or 1 to 127 milliseconds.                                  *)
Encodes(micros) ==
    \/ micros \in 0..900 /\ micros % 100 = 0
    \/ \E k \in 0..127 : micros = 1000 * k

(* The byte makes a sender wait that long, whatever its own setting is. *)
Names(raw, micros) == \A own \in Nat : st_min_to_duration(raw, own) >= micros

(* So do all grants among the frames of a queue. *)
IsGrant(f) == f.kind = "FC" /\ f.status = "ClearToSend"

GrantsName(q, micros) ==
    \E S : q \in Seq(S) /\ \A f \in S : IsGrant(f) => Names(f.st_min, micros)

(* The way of a separation time to a byte and back loses nothing.          *)
LEMMA EncodedNames ==
    ASSUME NEW micros \in Nat, Encodes(micros)
    PROVE  Names(duration_to_st_min(micros), micros)
<1> DEFINE raw == duration_to_st_min(micros)
<1>1. CASE micros = 0
  BY <1>1 DEF duration_to_st_min, st_min_to_duration, Names
<1>2. CASE micros \in 100..900 /\ micros % 100 = 0
  <2> DEFINE q == micros \div 100
  <2>1. q \in 1..9 /\ micros = 100 * q /\ micros # 0
    BY <1>2
  <2>2. raw = 240 + q
    BY <1>2, <2>1 DEF duration_to_st_min
  <2> HIDE DEF raw, q
  <2>3. \A own \in Nat : st_min_to_duration(240 + q, own) = 100 * q
    BY <2>1 DEF st_min_to_duration
  <2> QED BY <2>1, <2>2, <2>3 DEF Names, raw
<1>3. ASSUME NEW k \in 1..127, micros = 1000 * k
      PROVE  Names(raw, micros)
  <2>1. micros \div 1000 = k /\ ~(micros \in 100..900)
    BY <1>3
  <2>2. micros # 0 /\ Lesser(k, 127) = k
    BY <1>3 DEF Lesser
  <2>3. raw = k
    BY <2>1, <2>2 DEF duration_to_st_min
  <2> HIDE DEF raw
  <2>4. \A own \in Nat : st_min_to_duration(k, own) = k * 1000
    BY DEF st_min_to_duration
  <2> QED BY <1>3, <2>3, <2>4 DEF Names, raw
<1>4. \/ micros = 0
      \/ micros \in 100..900 /\ micros % 100 = 0
      \/ \E k \in 1..127 : micros = 1000 * k
  BY DEF Encodes
<1> QED BY <1>1, <1>2, <1>3, <1>4

(* A queue of grants that name the time stays one when frames are taken,   *)
(* lost or added.                                                          *)
LEMMA QueueNames ==
    ASSUME NEW q, NEW micros, GrantsName(q, micros)
    PROVE  /\ q # <<>> => /\ GrantsName(Tail(q), micros)
                          /\ IsGrant(Head(q)) => Names(Head(q).st_min, micros)
           /\ \A i \in 1..Len(q) : GrantsName(RemoveAt(q, i), micros)
           /\ \A f : (IsGrant(f) => Names(f.st_min, micros)) => GrantsName(Append(q, f), micros)
<1>1. PICK S : q \in Seq(S) /\ \A f \in S : IsGrant(f) => Names(f.st_min, micros)
  BY DEF GrantsName
<1>2. q # <<>> => Tail(q) \in Seq(S) /\ Head(q) \in S
  BY <1>1
<1>3. \A i \in 1..Len(q) : RemoveAt(q, i) \in Seq(S)
  BY <1>1 DEF RemoveAt
<1>4. ASSUME NEW f, IsGrant(f) => Names(f.st_min, micros)
      PROVE  GrantsName(Append(q, f), micros)
  <2>1. Append(q, f) \in Seq(S \cup {f})
    BY <1>1
  <2> QED BY <1>1, <1>4, <2>1 DEF GrantsName
<1> QED BY <1>1, <1>2, <1>3, <1>4 DEF GrantsName

-----------------------------------------------------------------------------
(* A set of numbers has a least member.                                    *)
LEMMA HasLeast ==
    ASSUME NEW J, J \subseteq Nat, J # {}
    PROVE  \E j \in J : \A k \in J : j <= k
<1> DEFINE R == OpToRel(<, Nat)
<1>1. PICK x \in J : \A y \in J : <<y, x>> \notin R
  BY NatLessThanWellFounded, WFMin
<1>2. \A y \in J : ~(y < x)
  BY <1>1 DEF OpToRel
<1> QED BY <1>2

(* Up to k, f[i] is the concatenation of the first i members of s. *)
JoinsOne(f, s, i) == f[i] = IF i = 1 THEN s[i] ELSE f[i - 1] \o s[i]
Joins(f, s, k) == \A i \in 1..k : JoinsOne(f, s, i)

(* Such partial concatenations exist.                                      *)
LEMMA JoinsExist ==
    ASSUME NEW B, NEW s \in Seq(Seq(B))
    PROVE  \E f \in [1..Len(s) -> Seq(B)] : Joins(f, s, Len(s))
<1> DEFINE Has(k) == \E f \in [1..k -> Seq(B)] : Joins(f, s, k)
           J == {k \in 0..Len(s) : ~Has(k)}
<1>1. Len(s) \in Nat /\ \A i \in 1..Len(s) : s[i] \in Seq(B)
  OBVIOUS
<1>2. SUFFICES ASSUME J # {} PROVE FALSE
  <2>1. Len(s) \in 0..Len(s)
    BY <1>1
  <2> QED BY <2>1
<1>3. J \subseteq Nat
  OBVIOUS
<1>4. PICK j \in J : \A k \in J : j <= k
  BY <1>2, <1>3, HasLeast
<1>5. Has(0)
  <2>1. [i \in 1..0 |-> <<>>] \in [1..0 -> Seq(B)]
    OBVIOUS
  <2>2. \A i \in 1..0 : FALSE
    OBVIOUS
  <2>3. Joins([i \in 1..0 |-> <<>>], s, 0)
    BY <2>2 DEF Joins
  <2> QED BY <2>1, <2>3
<1>6. j \in 1..Len(s) /\ j - 1 \in 0..Len(s) /\ j - 1 \in Nat
  <2>1. j \in 0..Len(s) /\ ~Has(j)
    OBVIOUS
  <2> HIDE DEF Has
  <2>2. j # 0
    BY <1>5, <2>1
  <2> QED BY <1>1, <2>1, <2>2
<1>7. j - 1 \notin J
  <2> DEFINE k == j - 1
  <2>1. k \in Nat /\ j \in Nat /\ ~(j <= k)
    BY <1>6
  <2> HIDE DEF k, J
  <2>2. k \notin J
    BY <1>4, <2>1
  <2> QED BY <2>2 DEF k
<1>8. PICK f \in [1..(j - 1) -> Seq(B)] : Joins(f, s, j - 1)
  BY <1>6, <1>7
<1> DEFINE last == IF j = 1 THEN s[j] ELSE f[j - 1] \o s[j]
           g == [i \in 1..j |-> IF i = j THEN last ELSE f[i]]
<1>9. last \in Seq(B)
  <2>1. j # 1 => j - 1 \in 1..(j - 1)
    BY <1>6
  <2> QED BY <1>1, <1>6, <2>1
<1> HIDE DEF last
<1>10. \A i \in 1..j : i = j \/ i \in 1..(j - 1)
  BY <1>6
<1>11. g \in [1..j -> Seq(B)]
  BY <1>9, <1>10
<1>12. Joins(g, s, j)
  <2> SUFFICES ASSUME NEW i \in 1..j PROVE g[i] = IF i = 1 THEN s[i] ELSE g[i - 1] \o s[i]
    BY DEF Joins, JoinsOne
  <2>1. i # 1 => i - 1 \in 1..j /\ i - 1 # j
    BY <1>6
  <2>2. i # 1 => g[i - 1] = f[i - 1]
    BY <2>1
  <2>3. CASE i = j
    BY <2>2, <2>3 DEF last
  <2>4. CASE i # j
    <3>1. i \in 1..(j - 1)
      BY <1>10, <2>4
    <3>2. JoinsOne(f, s, i)
      BY <1>8, <3>1 DEF Joins
    <3> QED BY <2>2, <2>4, <3>1, <3>2 DEF JoinsOne
  <2> QED BY <2>3, <2>4
<1> QED BY <1>11, <1>12

(* Only the members up to k matter.                                        *)
LEMMA JoinsShorter ==
    ASSUME NEW f, NEW s, NEW k \in Nat, Joins(f, s, k), NEW j \in Nat, j <= k,
           NEW t, \A i \in 1..j : t[i] = s[i]
    PROVE  Joins(f, t, j)
<1> SUFFICES ASSUME NEW i \in 1..j PROVE JoinsOne(f, t, i)
  BY DEF Joins
<1>1. i \in 1..k /\ t[i] = s[i]
  OBVIOUS
<1>2. JoinsOne(f, s, i)
  BY <1>1 DEF Joins
<1> QED BY <1>1, <1>2 DEF JoinsOne

Agree(f, g, k) == \A i \in 1..k : f[i] = g[i]

(* There is one.                                                           *)
LEMMA JoinsOnce ==
    ASSUME NEW s, NEW k \in Nat, NEW f, Joins(f, s, k), NEW g, Joins(g, s, k)
    PROVE  Agree(f, g, k)
<1> SUFFICES \A i \in 1..k : f[i] = g[i]
  BY DEF Agree
<1> DEFINE J == {i \in 1..k : f[i] # g[i]}
<1> SUFFICES ASSUME J # {} PROVE FALSE
  OBVIOUS
<1>1. J \subseteq Nat
  OBVIOUS
<1>2. PICK j \in J : \A i \in J : j <= i
  BY <1>1, HasLeast
<1>3. j \in 1..k /\ f[j] # g[j]
  OBVIOUS
<1>4. JoinsOne(f, s, j) /\ JoinsOne(g, s, j)
  BY <1>3 DEF Joins
<1>5. j # 1
  BY <1>3, <1>4 DEF JoinsOne
<1>6. j - 1 \in 1..k /\ ~(j <= j - 1)
  BY <1>3, <1>5
<1>7. f[j - 1] = g[j - 1]
  BY <1>2, <1>6
<1> QED BY <1>3, <1>4, <1>5, <1>7 DEF JoinsOne

(* FlattenSeq is the last of them.                                         *)
LEMMA FlatIs ==
    ASSUME NEW B, NEW s \in Seq(Seq(B)), Len(s) # 0, NEW f, Joins(f, s, Len(s))
    PROVE  FlattenSeq(s) = f[Len(s)]
<1> DEFINE Is(g) == g = [i \in 1..Len(s) |-> IF i = 1 THEN s[i] ELSE g[i - 1] \o s[i]]
           h == CHOOSE g : Is(g)
<1>1. FlattenSeq(s) = h[Len(s)]
  BY DEF FlattenSeq
<1>2. Len(s) \in Nat /\ Len(s) \in 1..Len(s)
  OBVIOUS
<1>3. PICK g \in [1..Len(s) -> Seq(B)] : Joins(g, s, Len(s))
  BY JoinsExist
<1>4. Is(g)
  BY <1>3 DEF Joins, JoinsOne
<1>5. Is(h)
  BY <1>4
<1> HIDE DEF h
<1>6. Joins(h, s, Len(s))
  BY <1>5 DEF Joins, JoinsOne
<1>7. h[Len(s)] = f[Len(s)]
  BY <1>2, <1>6, JoinsOnce DEF Agree
<1> QED BY <1>1, <1>7

(* Nothing is joined to nothing.                                           *)
LEMMA FlatEmpty == FlattenSeq(<<>>) = <<>>
BY DEF FlattenSeq

(* Flattening gives a sequence of the same elements.                       *)
LEMMA FlatFits ==
    ASSUME NEW B, NEW s \in Seq(Seq(B))
    PROVE  FlattenSeq(s) \in Seq(B)
<1>1. CASE Len(s) = 0
  <2>1. s = <<>>
    BY <1>1
  <2>2. <<>> \in Seq(B)
    OBVIOUS
  <2> QED BY <2>1, <2>2, FlatEmpty
<1>2. CASE Len(s) # 0
  <2>1. PICK f \in [1..Len(s) -> Seq(B)] : Joins(f, s, Len(s))
    BY JoinsExist
  <2>2. Len(s) \in 1..Len(s)
    BY <1>2
  <2>3. FlattenSeq(s) = f[Len(s)]
    BY <1>2, <2>1, FlatIs
  <2>4. f[Len(s)] \in Seq(B)
    BY <2>1, <2>2
  <2> QED BY <2>3, <2>4
<1> QED BY <1>1, <1>2

(* What comes behind is joined behind.                                     *)
LEMMA FlatAppend ==
    ASSUME NEW B, NEW s \in Seq(Seq(B)), NEW x \in Seq(B)
    PROVE  /\ Append(s, x) \in Seq(Seq(B))
           /\ FlattenSeq(Append(s, x)) = FlattenSeq(s) \o x
<1> DEFINE t == Append(s, x)
           n == Len(s)
<1>1. /\ t \in Seq(Seq(B)) /\ Len(t) = n + 1 /\ n \in Nat /\ t[n + 1] = x
      /\ \A i \in 1..n : t[i] = s[i]
  OBVIOUS
<1> HIDE DEF t
<1>2. PICK f \in [1..Len(t) -> Seq(B)] : Joins(f, t, Len(t))
  BY <1>1, JoinsExist
<1>3. FlattenSeq(t) = f[n + 1]
  BY <1>1, <1>2, FlatIs
<1>4. (n = 0 => f[n + 1] = x) /\ (n # 0 => f[n + 1] = f[n] \o x)
  <2> DEFINE i == n + 1
  <2>1. i \in 1..Len(t) /\ Len(t) \in Nat /\ t[i] = x /\ i - 1 = n
    BY <1>1
  <2>2. JoinsOne(f, t, i)
    BY <1>2, <2>1 DEF Joins
  <2>3. i = 1 <=> n = 0
    BY <1>1
  <2> QED BY <2>1, <2>2, <2>3 DEF JoinsOne
<1>5. CASE n = 0
  <2>1. s = <<>>
    BY <1>5
  <2>2. FlattenSeq(s) \o x = x
    BY <2>1, FlatEmpty
  <2> QED BY <1>1, <1>3, <1>4, <1>5, <2>2 DEF t
<1>6. CASE n # 0
  <2>1. Joins(f, s, n)
    <3>1. n <= Len(t) /\ Len(t) \in Nat /\ \A i \in 1..n : s[i] = t[i]
      BY <1>1
    <3> HIDE DEF n
    <3> QED BY <1>1, <1>2, <3>1, JoinsShorter
  <2>2. FlattenSeq(s) = f[n]
    BY <1>6, <2>1, FlatIs
  <2> QED BY <1>1, <1>3, <1>4, <1>6, <2>2 DEF t
<1> QED BY <1>5, <1>6

(* A sequence of nothing but empty ones joins to the empty one.            *)
LEMMA FlatNone ==
    ASSUME NEW B, NEW s \in Seq(Seq(B)), \A i \in 1..Len(s) : s[i] = <<>>
    PROVE  FlattenSeq(s) = <<>>
<1>1. CASE Len(s) = 0
  <2>1. s = <<>>
    BY <1>1
  <2> QED BY <2>1, FlatEmpty
<1>2. CASE Len(s) # 0
  <2> DEFINE f == [i \in 1..Len(s) |-> <<>>]
  <2>1. <<>> \o <<>> = <<>>
    OBVIOUS
  <2>2. Len(s) \in Nat /\ Len(s) \in 1..Len(s)
    BY <1>2
  <2>3. Joins(f, s, Len(s))
    <3> SUFFICES ASSUME NEW i \in 1..Len(s) PROVE f[i] = IF i = 1 THEN s[i] ELSE f[i - 1] \o s[i]
      BY DEF Joins, JoinsOne
    <3>1. i # 1 => i - 1 \in 1..Len(s)
      BY <2>2
    <3> QED BY <2>1, <3>1
  <2>4. f[Len(s)] = <<>>
    BY <2>2
  <2> HIDE DEF f
  <2> QED BY <1>2, <2>3, <2>4, FlatIs
<1> QED BY <1>1, <1>2

Associates(B) == \A u, v, w \in Seq(B) : (u \o v) \o w = u \o (v \o w)

(* It does not matter which two of three sequences are joined first.       *)
LEMMA AnyAssoc ==
    ASSUME NEW B
    PROVE  Associates(B)
<1> SUFFICES ASSUME NEW u \in Seq(B), NEW v \in Seq(B), NEW w \in Seq(B)
             PROVE  (u \o v) \o w = u \o (v \o w)
  BY DEF Associates
<1> QED BY ConcatAssociative, SMTT(60)

(* Two sequences that begin alike, the last member of the one continuing   *)
(* that of the other.                                                      *)
LEMMA FlatLonger ==
    ASSUME NEW B, NEW s \in Seq(Seq(B)), NEW t \in Seq(Seq(B)), Len(t) = Len(s), Len(s) # 0,
           \A i \in 1..(Len(s) - 1) : t[i] = s[i],
           NEW d \in Seq(B), t[Len(s)] = s[Len(s)] \o d
    PROVE  FlattenSeq(t) = FlattenSeq(s) \o d
<1> DEFINE n == Len(s)
<1>1. n \in Nat /\ n \in 1..n /\ n - 1 \in Nat /\ s[n] \in Seq(B)
  OBVIOUS
<1>2. PICK f \in [1..n -> Seq(B)] : Joins(f, s, n)
  BY JoinsExist
<1>3. PICK g \in [1..n -> Seq(B)] : Joins(g, t, n)
  BY JoinsExist
<1>4. FlattenSeq(s) = f[n] /\ FlattenSeq(t) = g[n]
  BY <1>1, <1>2, <1>3, FlatIs
<1>5. CASE n = 1
  BY <1>1, <1>2, <1>3, <1>4, <1>5 DEF Joins, JoinsOne
<1>6. CASE n # 1
  <2> DEFINE p == n - 1
  <2>1. p \in 1..p /\ p \in 1..n /\ p \in Nat /\ p <= n
    BY <1>1, <1>6
  <2>2. Joins(f, s, p) /\ Joins(g, s, p)
    <3>1. \A i \in 1..p : s[i] = s[i] /\ s[i] = t[i]
      OBVIOUS
    <3> HIDE DEF p, n
    <3> QED BY <1>1, <1>2, <1>3, <2>1, <3>1, JoinsShorter
  <2>3. \A i \in 1..p : f[i] = g[i]
    <3>1. Agree(f, g, p)
      <4> HIDE DEF p
      <4> QED BY ONLY <2>1, <2>2, JoinsOnce
    <3> QED BY <3>1 DEF Agree
  <2>4. f[n] = f[p] \o s[n] /\ g[n] = g[p] \o (s[n] \o d)
    <3>1. JoinsOne(f, s, n) /\ JoinsOne(g, t, n)
      BY <1>1, <1>2, <1>3 DEF Joins
    <3> QED BY <1>6, <3>1 DEF JoinsOne
  <2> HIDE DEF p
  <2>5. f[p] \in Seq(B)
    BY <1>2, <2>1
  <2> DEFINE a == f[p]
             b == s[n]
  <2>6. a \in Seq(B) /\ b \in Seq(B)
    BY <1>1, <2>5
  <2> HIDE DEF a, b
  <2>7. (a \o b) \o d = a \o (b \o d)
    <3>1. Associates(B)
      BY AnyAssoc
    <3> QED BY <2>6, <3>1 DEF Associates
  <2> QED BY <1>4, <2>1, <2>3, <2>4, <2>7 DEF a, b
<1> QED BY <1>5, <1>6

(* The first member that is not empty comes out first.                     *)
LEMMA FlatTaken ==
    ASSUME NEW B, NEW s \in Seq(Seq(B)), NEW k \in 1..Len(s), \A i \in 1..(k - 1) : s[i] = <<>>,
           NEW t \in Seq(Seq(B)), Len(t) = Len(s) - k, \A i \in 1..Len(t) : t[i] = s[i + k]
    PROVE  FlattenSeq(s) = s[k] \o FlattenSeq(t)
<1> DEFINE n == Len(s)
           m == Len(t)
<1>1. n \in Nat /\ k \in 1..n /\ m = n - k /\ m \in Nat /\ s[k] \in Seq(B)
  OBVIOUS
<1>2. PICK f \in [1..n -> Seq(B)] : Joins(f, s, n)
  BY JoinsExist
<1>3. FlattenSeq(s) = f[n]
  BY <1>1, <1>2, FlatIs
<1>4. \A i \in 1..(k - 1) : f[i] = <<>>
  <2> DEFINE e == [i \in 1..(k - 1) |-> <<>>]
  <2>1. <<>> \o <<>> = <<>>
    OBVIOUS
  <2>2. Joins(e, s, k - 1)
    <3> SUFFICES ASSUME NEW i \in 1..(k - 1) PROVE e[i] = IF i = 1 THEN s[i] ELSE e[i - 1] \o s[i]
      BY DEF Joins, JoinsOne
    <3>1. i # 1 => i - 1 \in 1..(k - 1)
      BY <1>1
    <3> QED BY <2>1, <3>1
  <2>3. Joins(f, s, k - 1)
    <3> DEFINE p == k - 1
    <3>1. p \in Nat /\ p <= n /\ \A i \in 1..p : s[i] = s[i]
      BY <1>1
    <3> HIDE DEF p
    <3>2. Joins(f, s, p)
      BY <1>1, <1>2, <3>1, JoinsShorter
    <3> QED BY <3>2 DEF p
  <2>4. k - 1 \in Nat /\ \A i \in 1..(k - 1) : e[i] = <<>>
    BY <1>1
  <2> HIDE DEF e
  <2>5. \A i \in 1..(k - 1) : f[i] = e[i]
    BY <2>2, <2>3, <2>4, JoinsOnce DEF Agree
  <2> QED BY <2>4, <2>5
<1>5. f[k] = s[k]
  <2>1. <<>> \o s[k] = s[k]
    BY <1>1
  <2>2. k # 1 => f[k - 1] = <<>>
    BY <1>1, <1>4
  <2>3. JoinsOne(f, s, k)
    BY <1>1, <1>2 DEF Joins
  <2> QED BY <2>1, <2>2, <2>3 DEF JoinsOne
<1>6. CASE m = 0
  <2>1. t = <<>>
    BY <1>6
  <2>2. n = k
    BY <1>1, <1>6
  <2>3. s[k] \o <<>> = s[k]
    BY <1>1
  <2> QED BY <1>3, <1>5, <2>1, <2>2, <2>3, FlatEmpty
<1>7. CASE m # 0
  <2>1. PICK g \in [1..m -> Seq(B)] : Joins(g, t, m)
    BY JoinsExist
  <2>2. FlattenSeq(t) = g[m]
    BY <1>7, <2>1, FlatIs
  <2> DEFINE J == {i \in 1..m : f[i + k] # s[k] \o g[i]}
  <2>3. J = {}
    <3> SUFFICES ASSUME J # {} PROVE FALSE
      OBVIOUS
    <3>1. J \subseteq Nat
      OBVIOUS
    <3>2. PICK j \in J : \A i \in J : j <= i
      BY <3>1, HasLeast
    <3> DEFINE z == j + k
               p == j - 1
               y == p + k
               a == s[k]
               b == g[p]
               c == t[j]
    <3>3. j \in 1..m /\ f[z] # a \o g[j]
      OBVIOUS
    <3>4. z \in 1..n /\ z # 1 /\ z - 1 = y /\ c = s[z]
      BY <1>1, <3>3
    <3>5. a \in Seq(B) /\ c \in Seq(B)
      <4>1. j \in 1..Len(t)
        BY <3>3
      <4> QED BY <1>1, <4>1
    <3>6. f[z] = f[y] \o c
      <4>1. JoinsOne(f, s, z)
        <5> HIDE DEF z
        <5> QED BY <1>2, <3>4 DEF Joins
      <4> HIDE DEF z, y, c
      <4> QED BY <3>4, <4>1 DEF JoinsOne
    <3>7. (j = 1 => g[j] = c) /\ (j # 1 => g[j] = b \o c)
      <4>1. JoinsOne(g, t, j)
        BY <2>1, <3>3 DEF Joins
      <4> QED BY <4>1 DEF JoinsOne
    <3>8. CASE j = 1
      <4>1. y = k
        BY <1>1, <3>8
      <4>2. f[y] = a
        BY <1>5, <4>1
      <4> QED BY <3>3, <3>6, <3>7, <3>8, <4>2
    <3>9. CASE j # 1
      <4>1. p \in 1..m /\ ~(j <= p)
        BY <1>1, <3>3, <3>9
      <4>2. f[y] = a \o b
        BY <3>2, <4>1
      <4>3. b \in Seq(B)
        BY <2>1, <4>1
      <4> HIDE DEF a, b, c, p, y, z
      <4>4. (a \o b) \o c = a \o (b \o c)
        <5>1. Associates(B)
          BY AnyAssoc
        <5> QED BY <3>5, <4>3, <5>1 DEF Associates
      <4> QED BY <3>3, <3>6, <3>7, <3>9, <4>2, <4>4
    <3> QED BY <3>8, <3>9
  <2>4. m \in 1..m /\ m + k = n
    <3> HIDE DEF m, n
    <3> QED BY <1>1, <1>7
  <2> HIDE DEF J
  <2>5. f[m + k] = s[k] \o g[m]
    <3>1. m \notin {i \in 1..m : f[i + k] # s[k] \o g[i]}
      BY <2>3 DEF J
    <3> QED BY <2>4, <3>1
  <2> QED BY <1>3, <2>2, <2>4, <2>5
<1> QED BY <1>6, <1>7

(* A timer covers the time it is set for.                                  *)
LEMMA TimerFits ==
    ASSUME NEW micros \in Nat
    PROVE  Timer(micros) \in Nat /\ Timer(micros) * Tick >= micros
<1>1. Tick \in Nat \ {0}
  BY TickAssumption
<1> QED BY <1>1 DEF Timer, CeilDiv

(* A positive time takes at least one tick.                                *)
LEMMA TimerRuns ==
    ASSUME NEW micros \in Nat, micros > 0
    PROVE  Timer(micros) \in Nat /\ Timer(micros) > 0
<1> DEFINE u == Timer(micros)
<1>1. Tick \in Nat \ {0} /\ u \in Nat /\ u * Tick >= micros
  BY TimerFits, TickAssumption
<1> HIDE DEF u
<1>2. u # 0
  <2> SUFFICES ASSUME u = 0 PROVE FALSE
    OBVIOUS
  <2>1. u * Tick = 0
    BY <1>1
  <2> QED BY <1>1, <2>1
<1> QED BY <1>1, <1>2 DEF u

(* Every set of naturals that has a member has a least one: the frame a    *)
(* loop stops at is in the queue.                                          *)
LEMMA StopsAt ==
    ASSUME NEW I, I \subseteq Nat, I # {}
    PROVE  Min(I) \in I /\ \A i \in I : Min(I) <= i
<1>1. PICK x \in I : \A y \in I : x <= y
  BY HasLeast
<1> QED BY <1>1 DEF Min

-----------------------------------------------------------------------------
(* Queues of frames, whatever they carry. *)

(* A queue, and what is left of it behind its k-th frame. *)
Queue(q) == \E S : q \in Seq(S)
Beyond(q, k) == SubSeq(q, k + 1, Len(q))

DataKinds == {"SF", "FF", "CF"}

NoCf(q) == \A i \in 1..Len(q) : q[i].kind # "CF"

(* What is left of a queue is made of its frames.                          *)
LEMMA BeyondOf ==
    ASSUME NEW S, NEW q \in Seq(S), NEW k \in 0..Len(q)
    PROVE  /\ Beyond(q, k) \in Seq(S)
           /\ k # 0 => q[k] \in S
<1>1. Len(q) \in Nat /\ \A i \in (k + 1)..Len(q) : q[i] \in S
  OBVIOUS
<1>2. Beyond(q, k) \in Seq(S)
  BY <1>1, SubSeqProperties DEF Beyond
<1> QED BY <1>2

(* The frames left behind frame k.                                         *)
LEMMA TailAt ==
    ASSUME NEW q, Queue(q), NEW k \in 0..Len(q)
    PROVE  /\ Len(q) \in Nat /\ Len(Beyond(q, k)) = Len(q) - k
           /\ \A j \in 1..Len(Beyond(q, k)) : k + j \in 1..Len(q) /\ Beyond(q, k)[j] = q[k + j]
<1>1. PICK S : q \in Seq(S)
  BY DEF Queue
<1>2. Len(q) \in Nat /\ \A i \in (k + 1)..Len(q) : q[i] \in S
  BY <1>1
<1> DEFINE l == Len(q)
           r == SubSeq(q, k + 1, l)
<1>3. l \in Nat /\ k \in Nat /\ k <= l /\ k + 1 \in Nat
  BY <1>2
<1>4. \A i \in (k + 1)..l : q[i] \in S
  BY <1>2
<1> HIDE DEF l
<1>5. /\ r \in Seq(S) /\ Len(r) = IF k + 1 <= l THEN l - (k + 1) + 1 ELSE 0
      /\ \A i \in 1..(l - (k + 1) + 1) : r[i] = q[k + 1 + i - 1]
  BY <1>1, <1>3, <1>4, SubSeqProperties
<1>6. r = Beyond(q, k)
  BY DEF Beyond, l
<1> HIDE DEF r
<1>7. Len(r) = l - k
  BY <1>3, <1>5
<1>8. ASSUME NEW j \in 1..Len(r) PROVE k + j \in 1..l /\ r[j] = q[k + j]
  <2>1. j \in 1..(l - (k + 1) + 1) /\ k + 1 + j - 1 = k + j /\ k + j \in 1..l
    BY <1>3, <1>7
  <2> QED BY <1>5, <2>1
<1> QED BY <1>3, <1>6, <1>7, <1>8 DEF l

(* A frame goes to the end of a queue.                                     *)
LEMMA EndAt ==
    ASSUME NEW q, Queue(q), NEW f
    PROVE  /\ Len(q) \in Nat /\ Len(Append(q, f)) = Len(q) + 1
           /\ \A i \in 1..Len(q) : i \in 1..Len(Append(q, f)) /\ Append(q, f)[i] = q[i]
           /\ Append(q, f)[Len(q) + 1] = f
           /\ \A i \in 1..Len(Append(q, f)) : i \in 1..Len(q) \/ i = Len(q) + 1
<1>1. PICK S : q \in Seq(S)
  BY DEF Queue
<1> DEFINE l == Len(q)
           r == Append(q, f)
<1>2. l \in Nat /\ Len(r) = l + 1 /\ r[l + 1] = f /\ \A i \in 1..l : r[i] = q[i]
  BY <1>1
<1> HIDE DEF l, r
<1> QED BY <1>2 DEF l, r

(* The frames of the kinds K in q2 are also in q, in that order. *)
Within(q2, q, K) ==
    \E h \in [1..Len(q2) -> Nat] :
        /\ \A i \in 1..Len(q2) : q2[i].kind \in K => h[i] \in 1..Len(q) /\ q2[i] = q[h[i]]
        /\ \A i, j \in 1..Len(q2) :
              i < j /\ q2[i].kind \in K /\ q2[j].kind \in K => h[i] < h[j]

(* A queue whose frames are found somewhere else, in order.                *)
LEMMA Maps ==
    ASSUME NEW q2, NEW q, NEW K, NEW h, h \in [1..Len(q2) -> Nat],
           \A i \in 1..Len(q2) : q2[i].kind \in K => h[i] \in 1..Len(q) /\ q2[i] = q[h[i]],
           \A i, j \in 1..Len(q2) :
              i < j /\ q2[i].kind \in K /\ q2[j].kind \in K => h[i] < h[j]
    PROVE  Within(q2, q, K)
BY DEF Within

(* A queue is within itself. *)
LEMMA WithinSelf ==
    ASSUME NEW q, NEW K
    PROVE  Within(q, q, K)
<1> DEFINE h == [j \in 1..Len(q) |-> j]
<1>1. h \in [1..Len(q) -> Nat] /\ \A j \in 1..Len(q) : h[j] = j
  OBVIOUS
<1> HIDE DEF h
<1> QED BY <1>1, Maps

(* A queue with frames taken or lost, or one of another kind added.        *)
LEMMA WithinQueue ==
    ASSUME NEW q, Queue(q), NEW K
    PROVE  /\ Within(q, q, K) /\ Within(<<>>, q, K)
           /\ \A k \in 0..Len(q) : Within(Beyond(q, k), q, K)
           /\ \A i \in 1..Len(q) : Within(RemoveAt(q, i), q, K)
           /\ \A f : f.kind \notin K => Within(Append(q, f), q, K)
<1>1. PICK S : q \in Seq(S)
  BY DEF Queue
<1> DEFINE l == Len(q)
<1>2. l \in Nat
  BY <1>1
<1>3. Within(q, q, K)
  <2> DEFINE h == [i \in 1..l |-> i]
  <2>1. h \in [1..Len(q) -> Nat] /\ \A i \in 1..Len(q) : h[i] = i
    BY <1>2
  <2> HIDE DEF h
  <2> QED BY <2>1, Maps
<1>4. Within(<<>>, q, K)
  <2> DEFINE e == <<>>
             h == [i \in 1..Len(e) |-> i]
  <2>1. Len(e) = 0
    OBVIOUS
  <2> HIDE DEF e
  <2>2. h \in [1..Len(e) -> Nat] /\ \A i : i \notin 1..Len(e)
    BY <2>1
  <2> HIDE DEF h
  <2>3. Within(e, q, K)
    BY <2>2, Maps
  <2> QED BY <2>3 DEF e
<1>5. ASSUME NEW k \in 0..l PROVE Within(Beyond(q, k), q, K)
  <2> DEFINE r == Beyond(q, k)
             h == [j \in 1..Len(r) |-> k + j]
  <2>1. \A j \in 1..Len(r) : k + j \in 1..l /\ r[j] = q[k + j]
    BY <1>5, TailAt
  <2> HIDE DEF r
  <2>2. h \in [1..Len(r) -> Nat] /\ \A j \in 1..Len(r) : h[j] = k + j
    BY <1>5
  <2> HIDE DEF h
  <2>3. \A j \in 1..Len(r) : h[j] \in 1..Len(q) /\ r[j] = q[h[j]]
    BY <2>1, <2>2
  <2>4. \A i, j \in 1..Len(r) : i < j => h[i] < h[j]
    BY <1>5, <2>2
  <2>5. Within(r, q, K)
    BY <2>2, <2>3, <2>4, Maps
  <2> QED BY <2>5 DEF r
<1>6. ASSUME NEW i \in 1..l PROVE Within(RemoveAt(q, i), q, K)
  <2> DEFINE r == RemoveAt(q, i)
             h == [j \in 1..Len(r) |-> IF j < i THEN j ELSE j + 1]
  <2>1. r = SubSeq(q, 1, i - 1) \o Beyond(q, i)
    BY DEF RemoveAt, Beyond
  <2>2. Len(r) = l - 1 /\ \A j \in 1..(l - 1) : r[j] = IF j < i THEN q[j] ELSE q[j + 1]
    <3> DEFINE u == SubSeq(q, 1, i - 1)
               v == Beyond(q, i)
    <3>1. i - 1 \in 0..l /\ i \in 0..l /\ i \in 1..l
      BY <1>2
    <3>2. u \in Seq(S) /\ Len(u) = i - 1 /\ \A j \in 1..(i - 1) : u[j] = q[j]
      BY <1>1, <3>1, PrefixOf
    <3>3. v \in Seq(S) /\ Len(v) = l - i /\ \A j \in 1..(l - i) : v[j] = q[i + j]
      BY <1>1, <3>1, BeyondOf, TailAt
    <3> HIDE DEF u, v, r
    <3>4. /\ Len(r) = Len(u) + Len(v)
          /\ \A j \in 1..(Len(u) + Len(v)) :
                r[j] = IF j <= Len(u) THEN u[j] ELSE v[j - Len(u)]
      BY <2>1, <3>2, <3>3, ConcatProperties DEF u, v
    <3>5. Len(r) = l - 1
      BY <1>2, <3>2, <3>3, <3>4
    <3>6. ASSUME NEW j \in 1..(l - 1) PROVE r[j] = IF j < i THEN q[j] ELSE q[j + 1]
      <4>1. r[j] = IF j <= i - 1 THEN u[j] ELSE v[j - (i - 1)]
        BY <1>2, <3>2, <3>3, <3>4
      <4>2. CASE j < i
        <5>1. j \in 1..(i - 1) /\ j <= i - 1
          BY <4>2
        <5> QED BY <3>2, <4>1, <4>2, <5>1
      <4>3. CASE ~(j < i)
        <5> DEFINE d == j - (i - 1)
        <5>1. d \in 1..(l - i) /\ i + d = j + 1 /\ ~(j <= i - 1)
          BY <1>2, <4>3
        <5> HIDE DEF d
        <5>2. r[j] = v[d] /\ v[d] = q[i + d]
          BY <3>3, <4>1, <5>1 DEF d
        <5> QED BY <4>3, <5>1, <5>2
      <4> QED BY <4>2, <4>3
    <3> QED BY <3>5, <3>6
  <2> HIDE DEF r
  <2>3. h \in [1..Len(r) -> Nat] /\ \A j \in 1..Len(r) : h[j] = IF j < i THEN j ELSE j + 1
    BY <1>2
  <2> HIDE DEF h
  <2>4. ASSUME NEW j \in 1..Len(r) PROVE h[j] \in 1..Len(q) /\ r[j] = q[h[j]]
    <3>1. j \in 1..(l - 1) /\ r[j] = IF j < i THEN q[j] ELSE q[j + 1]
      BY <2>2
    <3>2. h[j] = IF j < i THEN j ELSE j + 1
      BY <2>3
    <3>3. (IF j < i THEN j ELSE j + 1) \in 1..l
      BY <1>2, <3>1
    <3> QED BY <1>2, <3>1, <3>2, <3>3
  <2>5. \A u, v \in 1..Len(r) : u < v => h[u] < h[v]
    BY <1>6, <2>3
  <2>6. Within(r, q, K)
    BY <2>3, <2>4, <2>5, Maps
  <2> QED BY <2>6 DEF r
<1>7. ASSUME NEW f, f.kind \notin K PROVE Within(Append(q, f), q, K)
  <2> DEFINE r == Append(q, f)
             h == [j \in 1..Len(r) |-> j]
  <2>1. Len(r) = l + 1 /\ r[l + 1] = f /\ \A j \in 1..l : r[j] = q[j]
    BY <1>1
  <2> HIDE DEF r
  <2>2. h \in [1..Len(r) -> Nat] /\ \A j \in 1..Len(r) : h[j] = j
    OBVIOUS
  <2> HIDE DEF h
  <2>3. ASSUME NEW j \in 1..Len(r), r[j].kind \in K PROVE h[j] \in 1..Len(q) /\ r[j] = q[h[j]]
    <3>1. j # l + 1
      BY <1>7, <2>1, <2>3
    <3>2. j \in 1..l
      BY <1>2, <2>1, <3>1
    <3> QED BY <2>1, <2>2, <3>2
  <2>4. Within(r, q, K)
    BY <2>2, <2>3, Maps
  <2> QED BY <2>4 DEF r
<1> QED BY <1>3, <1>4, <1>5, <1>6, <1>7

(* A frame of a kind in K that was not lost.                               *)
LEMMA FoundIn ==
    ASSUME NEW q2, NEW q, NEW K, Within(q2, q, K)
    PROVE  \E h \in [1..Len(q2) -> Nat] :
               /\ \A i \in 1..Len(q2) : q2[i].kind \in K => h[i] \in 1..Len(q) /\ q2[i] = q[h[i]]
               /\ \A i, j \in 1..Len(q2) : i < j /\ q2[i].kind \in K /\ q2[j].kind \in K =>
                     h[i] < h[j]
               /\ \A i, j \in 1..Len(q2) : q2[i].kind \in K /\ q2[j].kind \in K /\ h[i] = h[j] =>
                     i = j
<1>1. PICK h \in [1..Len(q2) -> Nat] :
        /\ \A i \in 1..Len(q2) : q2[i].kind \in K => h[i] \in 1..Len(q) /\ q2[i] = q[h[i]]
        /\ \A i, j \in 1..Len(q2) :
              i < j /\ q2[i].kind \in K /\ q2[j].kind \in K => h[i] < h[j]
  BY DEF Within
<1>2. ASSUME NEW i \in 1..Len(q2), NEW j \in 1..Len(q2),
             q2[i].kind \in K, q2[j].kind \in K, h[i] = h[j]
      PROVE  i = j
  <2>1. i \in Int /\ j \in Int /\ h[i] \in Int /\ h[j] \in Int
    OBVIOUS
  <2>2. ~(i < j)
    BY <1>1, <1>2, <2>1
  <2>3. ~(j < i)
    BY <1>1, <1>2, <2>1
  <2> QED BY <2>1, <2>2, <2>3
<1> QED BY <1>1, <1>2

NoFf(q) == \A i \in 1..Len(q) : q[i].kind # "FF"

(* Fewer frames of every kind.                                             *)
LEMMA NonesKept ==
    ASSUME NEW q2, NEW q, Within(q2, q, DataKinds)
    PROVE  /\ NoFf(q) => NoFf(q2)
           /\ NoCf(q) => NoCf(q2)
<1>1. PICK h \in [1..Len(q2) -> Nat] :
        \A i \in 1..Len(q2) : q2[i].kind \in DataKinds => h[i] \in 1..Len(q) /\ q2[i] = q[h[i]]
  BY FoundIn
<1> QED BY <1>1 DEF NoFf, NoCf, DataKinds

CleanQueue(q) == \A i \in 1..Len(q) : q[i].kind \in DataKinds \cup {"FC", "Foreign"}

(* Frames were taken or lost from a queue. *)
Thinned(q2, q) == \A K : Within(q2, q, K)

(* What is left is clean.                                                  *)
LEMMA CleanThinned ==
    ASSUME NEW q, CleanQueue(q), NEW q2, Thinned(q2, q)
    PROVE  CleanQueue(q2)
<1> DEFINE K == {q2[i].kind : i \in 1..Len(q2)}
<1>1. \A i \in 1..Len(q2) : q2[i].kind \in K
  OBVIOUS
<1> HIDE DEF K
<1>2. Within(q2, q, K)
  BY DEF Thinned
<1>3. PICK h \in [1..Len(q2) -> Nat] :
        \A i \in 1..Len(q2) : q2[i].kind \in K => h[i] \in 1..Len(q) /\ q2[i] = q[h[i]]
  BY <1>2, FoundIn
<1> QED BY <1>1, <1>3 DEF CleanQueue

(* The first frame with data is at or before any.                          *)
LEMMA LeastData ==
    ASSUME NEW q, Len(q) \in Nat, NEW j \in 1..Len(q), q[j].kind \in DataKinds
    PROVE  \E i \in 1..j : /\ q[i].kind \in DataKinds
                           /\ \A h \in 1..(i - 1) : q[h].kind \notin DataKinds
<1> DEFINE J == {h \in 1..j : q[h].kind \in DataKinds}
<1>1. J \subseteq Nat /\ j \in J
  OBVIOUS
<1>2. PICK i \in J : \A h \in J : i <= h
  BY <1>1, HasLeast
<1>3. i \in 1..j /\ q[i].kind \in DataKinds
  OBVIOUS
<1>4. \A h \in 1..(i - 1) : h \in 1..j /\ ~(i <= h)
  BY <1>3
<1>5. \A h \in 1..(i - 1) : q[h].kind \notin DataKinds
  BY <1>2, <1>4
<1> QED BY <1>3, <1>5

(* c is what of d has room behind a. *)
Trims(T, a, d, l, c) ==
    /\ c \in Seq(T) /\ Len(c) = Lesser(Len(d), l - Len(a))
    /\ a \o c = SubSeq(a \o d, 1, Lesser(Len(a \o d), l))

(* Cutting what is added is cutting the whole.                             *)
LEMMA ConcatTrim ==
    ASSUME NEW T, NEW a \in Seq(T), NEW d \in Seq(T), NEW l \in Nat, Len(a) <= l
    PROVE  Trims(T, a, d, l, SubSeq(d, 1, Lesser(Len(d), l - Len(a))))
<1> DEFINE u == Lesser(Len(d), l - Len(a))
           c == SubSeq(d, 1, u)
           all == a \o d
           v == Lesser(Len(all), l)
<1>1. Len(a) \in Nat /\ Len(d) \in Nat /\ u \in 0..Len(d)
  BY DEF Lesser
<1>2. c \in Seq(T) /\ Len(c) = u /\ \A i \in 1..u : c[i] = d[i]
  BY <1>1, PrefixOf
<1>3. /\ all \in Seq(T) /\ Len(all) = Len(a) + Len(d)
      /\ \A i \in 1..(Len(a) + Len(d)) : all[i] = IF i <= Len(a) THEN a[i] ELSE d[i - Len(a)]
  BY ConcatProperties
<1>4. v = Len(a) + u /\ v \in 0..Len(all)
  BY <1>1, <1>3 DEF Lesser
<1> HIDE DEF c, all, u, v
<1>5. /\ a \o c \in Seq(T) /\ Len(a \o c) = Len(a) + u
      /\ \A i \in 1..(Len(a) + u) : (a \o c)[i] = IF i <= Len(a) THEN a[i] ELSE c[i - Len(a)]
  <2>1. /\ a \o c \in Seq(T) /\ Len(a \o c) = Len(a) + Len(c)
        /\ \A i \in 1..(Len(a) + Len(c)) : (a \o c)[i] = IF i <= Len(a) THEN a[i] ELSE c[i - Len(a)]
    BY <1>2, ConcatProperties
  <2> QED BY <1>2, <2>1
<1>6. /\ SubSeq(all, 1, v) \in Seq(T) /\ Len(SubSeq(all, 1, v)) = v
      /\ \A i \in 1..v : SubSeq(all, 1, v)[i] = all[i]
  BY <1>3, <1>4, PrefixOf
<1>7. \A i \in 1..v : (a \o c)[i] = all[i]
  <2> SUFFICES ASSUME NEW i \in 1..v PROVE (a \o c)[i] = all[i]
    OBVIOUS
  <2>1. i \in 1..(Len(a) + u) /\ i \in 1..(Len(a) + Len(d))
    BY <1>1, <1>4
  <2>2. CASE i <= Len(a)
    BY <1>3, <1>5, <2>1, <2>2
  <2>3. CASE ~(i <= Len(a))
    <3>1. i - Len(a) \in 1..u
      BY <1>1, <2>1, <2>3
    <3> QED BY <1>2, <1>3, <1>5, <2>1, <2>3, <3>1
  <2> QED BY <2>2, <2>3
<1>8. a \o c = SubSeq(all, 1, v)
  BY <1>4, <1>5, <1>6, <1>7, SeqEqual
<1>9. Trims(T, a, d, l, c)
  BY <1>2, <1>8 DEF Trims, all, u, v
<1> QED BY <1>9 DEF c, u

(* The first k bytes of data, and Pad behind them. *)
PaddedAt(data, k) == (\A i \in 1..k : data[i] # Pad) /\ (k < Len(data) => data[k + 1] = Pad)

(* Two parts of a sequence in a row.                                       *)
LEMMA CutTwice ==
    ASSUME NEW S, NEW p \in Seq(S), NEW b \in 0..Len(p), NEW a \in 0..b
    PROVE  /\ SubSeq(p, 1, a) \in Seq(S) /\ SubSeq(p, a + 1, b) \in Seq(S)
           /\ Len(SubSeq(p, a + 1, b)) = b - a
           /\ \A i \in 1..(b - a) : SubSeq(p, a + 1, b)[i] = p[a + i]
           /\ SubSeq(p, 1, a) \o SubSeq(p, a + 1, b) = SubSeq(p, 1, b)
<1> DEFINE u == SubSeq(p, 1, a)
           v == SubSeq(p, a + 1, b)
           w == SubSeq(p, 1, b)
<1>1. a \in Nat /\ b \in Nat /\ a <= b /\ b <= Len(p) /\ Len(p) \in Nat /\ a \in 0..Len(p)
  OBVIOUS
<1>2. u \in Seq(S) /\ Len(u) = a /\ \A i \in 1..a : u[i] = p[i]
  BY <1>1, PrefixOf
<1>3. w \in Seq(S) /\ Len(w) = b /\ \A i \in 1..b : w[i] = p[i]
  BY <1>1, PrefixOf
<1>4. v \in Seq(S) /\ Len(v) = b - a /\ \A i \in 1..(b - a) : v[i] = p[a + i]
  <2>1. \A i \in (a + 1)..b : p[i] \in S
    BY <1>1
  <2>2. /\ v \in Seq(S) /\ Len(v) = IF a + 1 <= b THEN b - (a + 1) + 1 ELSE 0
        /\ \A i \in 1..(b - (a + 1) + 1) : v[i] = p[a + 1 + i - 1]
    BY <1>1, <2>1, SubSeqProperties
  <2>3. b - (a + 1) + 1 = b - a /\ \A i \in 1..(b - a) : a + 1 + i - 1 = a + i
    BY <1>1
  <2>4. Len(v) = b - a
    BY <1>1, <2>2
  <2> QED BY <2>2, <2>3, <2>4
<1> HIDE DEF u, v, w
<1>5. /\ u \o v \in Seq(S) /\ Len(u \o v) = Len(u) + Len(v)
      /\ \A i \in 1..(Len(u) + Len(v)) : (u \o v)[i] = IF i <= Len(u) THEN u[i] ELSE v[i - Len(u)]
  BY <1>2, <1>4, ConcatProperties
<1>6. Len(u \o v) = b
  BY <1>1, <1>2, <1>4, <1>5
<1>7. \A i \in 1..b : (u \o v)[i] = w[i]
  <2> SUFFICES ASSUME NEW i \in 1..b PROVE (u \o v)[i] = w[i]
    OBVIOUS
  <2>1. i \in 1..(Len(u) + Len(v)) /\ Len(u) = a
    BY <1>1, <1>2, <1>4
  <2>2. CASE i <= a
    BY <1>2, <1>3, <1>5, <2>1, <2>2
  <2>3. CASE ~(i <= a)
    <3>1. i - a \in 1..(b - a) /\ a + (i - a) = i
      BY <1>1, <2>3
    <3>2. v[i - a] = p[i]
      BY <1>4, <3>1
    <3> QED BY <1>3, <1>5, <2>1, <2>3, <3>2
  <2> QED BY <2>2, <2>3
<1>8. u \o v = w
  BY <1>3, <1>5, <1>6, <1>7, SeqEqual
<1> QED BY <1>2, <1>4, <1>8 DEF u, v, w

(* One frame more, one frame less.                                         *)
LEMMA Multiples ==
    ASSUME NEW d \in Nat, NEW w \in Nat
    PROVE  d * w \in Nat /\ (d + 1) * w = d * w + w /\ 0 * w = 0
OBVIOUS

(* Frames of one transfer with numbers in a window of b are no more than b. *)
LEMMA WindowCounts ==
    ASSUME NEW I, NEW e \in Nat, NEW b \in Nat, NEW number \in [I -> Nat],
           \A i \in I : e <= number[i] /\ number[i] < e + b,
           \A i, j \in I : number[i] = number[j] => i = j
    PROVE  IsFiniteSet(I) /\ Cardinality(I) <= b
<1> DEFINE W == e..(e + b - 1)
<1>1. IsFiniteSet(W) /\ Cardinality(W) = b
  <2>1. e \in Int /\ e + b - 1 \in Int
    OBVIOUS
  <2>2. e + b - 1 - e + 1 = b /\ (e > e + b - 1 => b = 0)
    OBVIOUS
  <2> QED BY <2>1, <2>2, FS_Interval
<1>2. number \in Injection(I, W)
  BY DEF Injection, IsInjective
<1> QED BY <1>1, <1>2, FS_Injection

-----------------------------------------------------------------------------

(* The Consecutive Frames in q are d, of w bytes each, and numbered one    *)
(* after the other from a to the one before b.                             *)
NumberedBy(h, u, q, d, a, b, w) ==
    /\ u[1] = a /\ u[d + 1] = b
    /\ \A i \in 1..d : u[i + 1] = NextSn(u[i])
    /\ \A i, j \in 1..d : i < j => h[i] < h[j]
    /\ \A i \in 1..d :
          q[h[i]].kind = "CF" /\ q[h[i]].sn = u[i] /\ Len(q[h[i]].data) = w
    /\ \A j \in 1..Len(q) : q[j].kind = "CF" => \E i \in 1..d : j = h[i]

Numbered(q, d, a, b, w) ==
    \E h \in [1..d -> 1..Len(q)], u \in [1..(d + 1) -> 0..(SnMod - 1)] :
        NumberedBy(h, u, q, d, a, b, w)

(* The next number is one.                                                 *)
LEMMA NextSnFits ==
    ASSUME NEW a \in 0..(SnMod - 1)
    PROVE  NextSn(a) \in 0..(SnMod - 1) /\ a % SnMod = a
<1> DEFINE c == a \div SnMod
           r == a % SnMod
<1>1. SnMod \in Nat /\ SnMod >= 2 /\ a \in Nat /\ a < SnMod
  BY SnModAssumption
<1>2. NextSn(a) \in 0..(SnMod - 1)
  BY <1>1 DEF NextSn
<1>3. a = SnMod * c + r /\ r \in 0..(SnMod - 1) /\ c \in Int
  BY <1>1
<1> HIDE DEF c, r
<1>4. c = 0
  <2>1. CASE c >= 1
    <3>1. SnMod * c >= SnMod
      BY <1>1, <1>3, <2>1
    <3> QED BY <1>1, <1>3, <3>1
  <2>2. CASE c <= -1
    <3>1. SnMod * c <= -SnMod
      BY <1>1, <1>3, <2>2
    <3> QED BY <1>1, <1>3, <3>1
  <2> QED BY <1>3, <2>1, <2>2
<1>5. r = a
  BY <1>1, <1>3, <1>4
<1> QED BY <1>2, <1>5 DEF r

(* No Consecutive Frame.                                                   *)
LEMMA NoneNumbered ==
    ASSUME NEW q, Len(q) \in Nat, NoCf(q), NEW a \in 0..(SnMod - 1), NEW w
    PROVE  Numbered(q, 0, a, a, w)
<1> DEFINE h == [i \in 1..0 |-> 1]
           u == [i \in 1..(0 + 1) |-> a]
<1>1. h \in [1..0 -> 1..Len(q)] /\ u \in [1..(0 + 1) -> 0..(SnMod - 1)]
  OBVIOUS
<1>2. u[1] = a /\ u[0 + 1] = a
  OBVIOUS
<1> HIDE DEF h, u
<1>3. NumberedBy(h, u, q, 0, a, a, w)
  BY <1>2 DEF NumberedBy, NoCf
<1> QED BY <1>1, <1>3 DEF Numbered

(* One more behind the others.                                             *)
LEMMA NumberedGrows ==
    ASSUME NEW q, Queue(q), NEW d \in Nat, NEW a, NEW b, NEW w, Numbered(q, d, a, b, w),
           NEW f, f.kind = "CF", f.sn = b, Len(f.data) = w
    PROVE  Numbered(Append(q, f), d + 1, a, NextSn(b), w)
<1> DEFINE q2 == Append(q, f)
           l == Len(q)
<1>1. PICK h \in [1..d -> 1..l], u \in [1..(d + 1) -> 0..(SnMod - 1)] :
        NumberedBy(h, u, q, d, a, b, w)
  BY DEF Numbered
<1>2. /\ l \in Nat /\ Len(q2) = l + 1 /\ q2[l + 1] = f
      /\ \A i \in 1..l : i \in 1..Len(q2) /\ q2[i] = q[i]
      /\ \A i \in 1..Len(q2) : i \in 1..l \/ i = l + 1
  BY EndAt
<1> HIDE DEF q2, l
<1>3. b \in 0..(SnMod - 1) /\ NextSn(b) \in 0..(SnMod - 1)
  <2>1. d + 1 \in 1..(d + 1) /\ u[d + 1] = b
    BY <1>1 DEF NumberedBy
  <2>2. b \in 0..(SnMod - 1)
    BY <2>1
  <2> QED BY <2>2, NextSnFits
<1> DEFINE h2 == [i \in 1..(d + 1) |-> IF i <= d THEN h[i] ELSE l + 1]
           u2 == [i \in 1..(d + 2) |-> IF i <= d + 1 THEN u[i] ELSE NextSn(b)]
<1>4. h2 \in [1..(d + 1) -> 1..(l + 1)]
  BY <1>2
<1>5. u2 \in [1..(d + 1 + 1) -> 0..(SnMod - 1)]
  <2>1. d + 1 + 1 = d + 2
    OBVIOUS
  <2>2. \A i \in 1..(d + 2) : i <= d + 1 => i \in 1..(d + 1)
    OBVIOUS
  <2> QED BY <1>3, <2>1, <2>2
<1>6. /\ \A i \in 1..d : i \in 1..(d + 1) /\ h2[i] = h[i] /\ h[i] \in 1..l
      /\ h2[d + 1] = l + 1
      /\ \A i \in 1..(d + 1) : i \in 1..(d + 2) /\ u2[i] = u[i]
      /\ u2[d + 2] = NextSn(b)
      /\ \A i \in 1..(d + 1) : i \in 1..d \/ i = d + 1
  BY <1>2
<1> HIDE DEF h2, u2
<1>7. /\ u[1] = a /\ u[d + 1] = b
      /\ \A i \in 1..d : u[i + 1] = NextSn(u[i])
      /\ \A i, j \in 1..d : i < j => h[i] < h[j]
      /\ \A i \in 1..d :
            q[h[i]].kind = "CF" /\ q[h[i]].sn = u[i] /\ Len(q[h[i]].data) = w
      /\ \A j \in 1..l : q[j].kind = "CF" => \E i \in 1..d : j = h[i]
  BY <1>1 DEF NumberedBy, l
<1>8. u2[1] = a /\ u2[d + 1 + 1] = NextSn(b)
  <2>1. 1 \in 1..(d + 1) /\ d + 1 + 1 = d + 2
    OBVIOUS
  <2> QED BY <1>6, <1>7, <2>1
<1>9. ASSUME NEW i \in 1..(d + 1) PROVE u2[i + 1] = NextSn(u2[i])
  <2>1. CASE i \in 1..d
    <3>1. i + 1 \in 1..(d + 1) /\ i \in 1..(d + 1)
      BY <2>1
    <3> QED BY <1>6, <1>7, <2>1, <3>1
  <2>2. CASE i = d + 1
    <3>1. i + 1 = d + 2 /\ u2[i] = b
      BY <1>6, <1>7, <2>2
    <3> QED BY <1>6, <3>1
  <2> QED BY <1>6, <2>1, <2>2
<1>10. ASSUME NEW i \in 1..(d + 1), NEW j \in 1..(d + 1), i < j PROVE h2[i] < h2[j]
  <2>1. i \in 1..d
    BY <1>10
  <2>2. CASE j \in 1..d
    BY <1>6, <1>7, <1>10, <2>1, <2>2
  <2>3. CASE j = d + 1
    <3>1. h2[i] \in 1..l /\ h2[j] = l + 1
      BY <1>6, <2>1, <2>3
    <3> QED BY <1>2, <3>1
  <2> QED BY <1>6, <2>2, <2>3
<1>11. ASSUME NEW i \in 1..(d + 1)
       PROVE  q2[h2[i]].kind = "CF" /\ q2[h2[i]].sn = u2[i] /\ Len(q2[h2[i]].data) = w
  <2>1. CASE i \in 1..d
    <3>1. h2[i] = h[i] /\ h[i] \in 1..l /\ u2[i] = u[i]
      BY <1>6, <2>1
    <3>2. q2[h2[i]] = q[h[i]]
      BY <1>2, <3>1
    <3>3. q[h[i]].kind = "CF" /\ q[h[i]].sn = u[i] /\ Len(q[h[i]].data) = w
      BY <1>7, <2>1
    <3> QED BY <3>1, <3>2, <3>3
  <2>2. CASE i = d + 1
    <3>1. q2[h2[i]] = f /\ u2[i] = b
      BY <1>2, <1>6, <1>7, <2>2
    <3> QED BY <3>1
  <2> QED BY <1>6, <2>1, <2>2
<1>12. ASSUME NEW j \in 1..Len(q2), q2[j].kind = "CF" PROVE \E i \in 1..(d + 1) : j = h2[i]
  <2>1. CASE j \in 1..l
    <3>1. PICK i \in 1..d : j = h[i]
      BY <1>2, <1>7, <1>12, <2>1
    <3>2. i \in 1..(d + 1) /\ j = h2[i]
      BY <1>6, <3>1
    <3> QED BY <3>2
  <2>2. CASE j = l + 1
    <3>1. d + 1 \in 1..(d + 1) /\ j = h2[d + 1]
      BY <1>6, <2>2
    <3> QED BY <3>1
  <2> QED BY <1>2, <2>1, <2>2
<1>13. NumberedBy(h2, u2, q2, d + 1, a, NextSn(b), w)
  BY <1>8, <1>9, <1>10, <1>11, <1>12 DEF NumberedBy
<1>14. h2 \in [1..(d + 1) -> 1..Len(q2)]
  BY <1>2, <1>4
<1>15. Numbered(q2, d + 1, a, NextSn(b), w)
  BY <1>5, <1>13, <1>14 DEF Numbered
<1> QED BY <1>15 DEF q2

(* A frame of another kind behind them.                                    *)
LEMMA NumberedApart ==
    ASSUME NEW q, Queue(q), NEW d \in Nat, NEW a, NEW b, NEW w, Numbered(q, d, a, b, w),
           NEW f, f.kind # "CF"
    PROVE  Numbered(Append(q, f), d, a, b, w)
<1> DEFINE q2 == Append(q, f)
           l == Len(q)
<1>1. PICK h \in [1..d -> 1..l], u \in [1..(d + 1) -> 0..(SnMod - 1)] :
        NumberedBy(h, u, q, d, a, b, w)
  BY DEF Numbered
<1>2. /\ l \in Nat /\ Len(q2) = l + 1 /\ q2[l + 1] = f
      /\ \A i \in 1..l : i \in 1..Len(q2) /\ q2[i] = q[i]
      /\ \A i \in 1..Len(q2) : i \in 1..l \/ i = l + 1
  BY EndAt
<1> HIDE DEF q2, l
<1>3. \A i \in 1..d : h[i] \in 1..l /\ q2[h[i]] = q[h[i]]
  BY <1>2
<1>4. NumberedBy(h, u, q2, d, a, b, w)
  <2>1. /\ u[1] = a /\ u[d + 1] = b
        /\ \A i \in 1..d : u[i + 1] = NextSn(u[i])
        /\ \A i, j \in 1..d : i < j => h[i] < h[j]
    BY <1>1 DEF NumberedBy
  <2>2. \A i \in 1..d :
            q2[h[i]].kind = "CF" /\ q2[h[i]].sn = u[i] /\ Len(q2[h[i]].data) = w
    BY <1>1, <1>3 DEF NumberedBy
  <2>3. ASSUME NEW j \in 1..Len(q2), q2[j].kind = "CF" PROVE \E i \in 1..d : j = h[i]
    <3>1. j \in 1..l /\ q[j].kind = "CF"
      BY <1>2, <2>3
    <3> QED BY <1>1, <3>1 DEF NumberedBy, l
  <2> QED BY <2>1, <2>2, <2>3 DEF NumberedBy
<1>5. h \in [1..d -> 1..Len(q2)]
  BY <1>2
<1>6. Numbered(q2, d, a, b, w)
  BY <1>4, <1>5 DEF Numbered
<1> QED BY <1>6 DEF q2

(* The first one is taken.                                                 *)
LEMMA NumberedTaken ==
    ASSUME NEW q, Queue(q), NEW d \in Nat, NEW a, NEW b, NEW w, Numbered(q, d, a, b, w),
           NEW i \in 1..Len(q), q[i].kind = "CF", \A j \in 1..Len(q) : j < i => q[j].kind # "CF"
    PROVE  /\ d > 0 /\ q[i].sn = a /\ Len(q[i].data) = w
           /\ Numbered(Beyond(q, i), d - 1, NextSn(a), b, w)
<1> DEFINE q2 == Beyond(q, i)
           l == Len(q)
           c == d - 1
<1>1. PICK h \in [1..d -> 1..l], u \in [1..(d + 1) -> 0..(SnMod - 1)] :
        NumberedBy(h, u, q, d, a, b, w)
  BY DEF Numbered
<1>2. /\ l \in Nat /\ i \in 1..l /\ Len(q2) = l - i
      /\ \A j \in 1..Len(q2) : i + j \in 1..l /\ q2[j] = q[i + j]
  <2>1. l \in Nat
    BY DEF Queue
  <2>2. i \in 0..Len(q)
    BY <2>1
  <2> QED BY <2>1, <2>2, TailAt
<1>3. /\ u[1] = a /\ u[d + 1] = b
      /\ \A j \in 1..d : u[j + 1] = NextSn(u[j])
      /\ \A j, k \in 1..d : j < k => h[j] < h[k]
      /\ \A j \in 1..d :
            q[h[j]].kind = "CF" /\ q[h[j]].sn = u[j] /\ Len(q[h[j]].data) = w
      /\ \A k \in 1..l : q[k].kind = "CF" => \E j \in 1..d : k = h[j]
      /\ \A k \in 1..l : k < i => q[k].kind # "CF"
  BY <1>1 DEF NumberedBy, l
<1>4. q[i].kind = "CF"
  OBVIOUS
<1> HIDE DEF l, q2
<1>5. PICK first \in 1..d : i = h[first]
  BY <1>2, <1>3, <1>4
<1>6. d > 0 /\ h[1] = i /\ 1 \in 1..d /\ c \in Nat /\ c + 1 = d
  <2>1. d > 0 /\ 1 \in 1..d /\ c \in Nat /\ c + 1 = d
    BY <1>5
  <2>2. CASE first = 1
    BY <1>5, <2>1, <2>2
  <2>3. CASE first # 1
    <3>1. 1 < first
      BY <2>3
    <3>2. h[1] < i /\ h[1] \in 1..l
      BY <1>3, <1>5, <2>1, <3>1
    <3> QED BY <1>3, <2>1, <3>2
  <2> QED BY <2>1, <2>2, <2>3
<1>7. q[i].sn = a /\ Len(q[i].data) = w
  BY <1>3, <1>6
<1> HIDE DEF c
<1> DEFINE h2 == [j \in 1..c |-> h[j + 1] - i]
           u2 == [j \in 1..(c + 1) |-> u[j + 1]]
<1>8. \A j \in 1..c : j + 1 \in 1..d /\ h[j + 1] > i /\ h[j + 1] \in 1..l
  <2> TAKE j \in 1..c
  <2>1. j + 1 \in 1..d /\ 1 < j + 1
    BY <1>6
  <2> QED BY <1>3, <1>6, <2>1
<1>9. \A j \in 1..c : h[j + 1] - i \in 1..(l - i) /\ i + (h[j + 1] - i) = h[j + 1]
  <2> TAKE j \in 1..c
  <2> DEFINE y == h[j + 1]
  <2>1. y > i /\ y \in 1..l /\ i \in 1..l /\ l \in Nat
    BY <1>2, <1>8
  <2> HIDE DEF y
  <2>2. y - i \in 1..(l - i) /\ i + (y - i) = y
    BY <2>1
  <2> QED BY <2>2 DEF y
<1>10. h2 \in [1..c -> 1..Len(q2)]
  BY <1>2, <1>9
<1>11. u2 \in [1..(c + 1) -> 0..(SnMod - 1)]
  BY <1>6
<1>12. \A j \in 1..c : h2[j] = h[j + 1] - i /\ h2[j] \in 1..Len(q2) /\ q2[h2[j]] = q[h[j + 1]]
  BY <1>2, <1>9
<1>13. \A j \in 1..(c + 1) : u2[j] = u[j + 1]
  OBVIOUS
<1> HIDE DEF h2, u2
<1>14. u2[1] = NextSn(a) /\ u2[c + 1] = b
  <2>1. 1 \in 1..(c + 1) /\ c + 1 \in 1..(c + 1)
    BY <1>6
  <2>2. u2[1] = u[1 + 1] /\ u2[c + 1] = u[d + 1]
    BY <1>6, <1>13, <2>1
  <2> QED BY <1>3, <1>6, <2>2
<1>15. \A j \in 1..c : u2[j + 1] = NextSn(u2[j])
  <2> TAKE j \in 1..c
  <2>0. c \in Nat /\ c + 1 = d
    BY <1>6
  <2>1. j \in 1..(c + 1) /\ j + 1 \in 1..(c + 1) /\ j + 1 \in 1..d
    <3>1. j \in 1..(c + 1) /\ j + 1 \in 1..(c + 1)
      BY <2>0
    <3> QED BY <2>0, <3>1
  <2>2. u2[j] = u[j + 1] /\ u2[j + 1] = u[(j + 1) + 1]
    BY <1>13, <2>1
  <2>3. u[(j + 1) + 1] = NextSn(u[j + 1])
    BY <1>3, <2>1
  <2> QED BY <2>2, <2>3
<1>16. \A j, k \in 1..c : j < k => h2[j] < h2[k]
  <2> TAKE j, k \in 1..c
  <2> HAVE j < k
  <2>1. j + 1 \in 1..d /\ k + 1 \in 1..d /\ j + 1 < k + 1
    BY <1>6
  <2>2. h[j + 1] < h[k + 1]
    BY <1>3, <2>1
  <2> DEFINE y == h[j + 1]
             z == h[k + 1]
  <2>3. h2[j] = y - i /\ h2[k] = z - i
    BY <1>12
  <2>4. y \in 1..l /\ z \in 1..l /\ y < z
    BY <1>8, <2>2
  <2> HIDE DEF y, z
  <2>5. y - i < z - i
    BY <1>2, <2>4
  <2> QED BY <2>3, <2>5
<1>17. \A j \in 1..c :
          q2[h2[j]].kind = "CF" /\ q2[h2[j]].sn = u2[j] /\ Len(q2[h2[j]].data) = w
  <2> TAKE j \in 1..c
  <2>1. j \in 1..(c + 1) /\ j + 1 \in 1..d
    BY <1>6
  <2>2. q2[h2[j]] = q[h[j + 1]] /\ u2[j] = u[j + 1]
    BY <1>12, <1>13, <2>1
  <2>3. q[h[j + 1]].kind = "CF" /\ q[h[j + 1]].sn = u[j + 1] /\ Len(q[h[j + 1]].data) = w
    BY <1>3, <2>1
  <2> QED BY <2>2, <2>3
<1>18. ASSUME NEW k \in 1..Len(q2), q2[k].kind = "CF" PROVE \E j \in 1..c : k = h2[j]
  <2> DEFINE z == i + k
  <2>0. k \in 1..(l - i) /\ z \in 1..l /\ q2[k] = q[z]
    BY <1>2
  <2>1. z \in 1..l /\ q[z].kind = "CF" /\ z > i
    <3>1. z > i
      BY <1>2, <2>0
    <3> QED BY <1>18, <2>0, <3>1
  <2>2. PICK y \in 1..d : z = h[y]
    BY <1>3, <2>1
  <2>3. y # 1
    BY <1>2, <1>6, <2>1, <2>2
  <2> DEFINE j == y - 1
  <2>4. j \in 1..c /\ j + 1 = y
    BY <1>6, <2>3
  <2>5. k = z - i
    BY <1>2
  <2> HIDE DEF j, z
  <2>6. k = h2[j]
    BY <1>12, <2>2, <2>4, <2>5
  <2> QED BY <2>4, <2>6
<1>19. NumberedBy(h2, u2, q2, c, NextSn(a), b, w)
  BY <1>14, <1>15, <1>16, <1>17, <1>18 DEF NumberedBy
<1>20. Numbered(q2, c, NextSn(a), b, w)
  BY <1>10, <1>11, <1>19 DEF Numbered
<1> QED BY <1>6, <1>7, <1>20 DEF q2, c

(* They are as many as the numbers.                                        *)
LEMMA NumberedCount ==
    ASSUME NEW q, Queue(q), NEW d \in Nat, NEW a, NEW b, NEW w, Numbered(q, d, a, b, w)
    PROVE  Cardinality({i \in 1..Len(q) : q[i].kind = "CF"}) = d
<1> DEFINE I == {i \in 1..Len(q) : q[i].kind = "CF"}
           J == 1..d
<1>1. PICK h \in [1..d -> 1..Len(q)], u \in [1..(d + 1) -> 0..(SnMod - 1)] :
        NumberedBy(h, u, q, d, a, b, w)
  BY DEF Numbered
<1>2. Len(q) \in Nat
  BY DEF Queue
<1>3. /\ \A i, j \in J : i < j => h[i] < h[j]
      /\ \A i \in J : h[i] \in I
      /\ \A k \in I : \E i \in J : k = h[i]
  BY <1>1 DEF NumberedBy
<1>4. \A i \in J : h[i] \in Int
  BY <1>2
<1>5. \A i, j \in J : h[i] = h[j] => i = j
  <2> SUFFICES ASSUME NEW i \in J, NEW j \in J, h[i] = h[j], i # j PROVE FALSE
    OBVIOUS
  <2>1. i < j \/ j < i
    OBVIOUS
  <2> QED BY <1>3, <1>4, <2>1
<1>6. h \in Bijection(J, I)
  <2>1. h \in [J -> I]
    BY <1>3
  <2> HIDE DEF I, J
  <2> QED BY <1>3, <1>5, <2>1 DEF Bijection, Injection, Surjection, IsInjective
<1>7. IsFiniteSet(J) /\ Cardinality(J) = d
  <2>1. Cardinality(1..d) = IF 1 > d THEN 0 ELSE d - 1 + 1
    BY FS_Interval
  <2>2. IsFiniteSet(1..d)
    BY FS_Interval
  <2> QED BY <2>1, <2>2
<1> HIDE DEF I, J
<1>8. ExistsBijection(J, I)
  BY <1>6 DEF ExistsBijection
<1>9. Cardinality(I) = d
  BY <1>7, <1>8, FS_Bijection
<1> QED BY <1>9 DEF I
=============================================================================
