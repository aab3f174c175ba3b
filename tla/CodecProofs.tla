---------------------------- MODULE CodecProofs ----------------------------
(***************************************************************************)
(* The codec (pdu.rs) and the payloads that travel through it, for every   *)
(* frame length, addressing byte, padding, payload length and bytes of a   *)
(* frame, and for every pair of stations.                                  *)
(***************************************************************************)
EXTENDS PduCodec, SessionProofs

(* A stretch of a sequence that has something before and behind it.        *)
LEMMA Slice ==
    ASSUME NEW S, NEW u \in Seq(S), NEW v \in Seq(S), NEW w \in Seq(S)
    PROVE  /\ u \o v \o w \in Seq(S)
           /\ Len(u \o v \o w) = Len(u) + Len(v) + Len(w)
           /\ SubSeq(u \o v \o w, Len(u) + 1, Len(u) + Len(v)) = v
           /\ \A i \in 1..Len(u) : (u \o v \o w)[i] = u[i]
<1> DEFINE x == u \o v
           y == x \o w
           a == Len(u)
           b == Len(v)
           c == Len(w)
<1>1. a \in Nat /\ b \in Nat /\ c \in Nat /\ u \in [1..a -> S] /\ v \in [1..b -> S]
  BY LenProperties
<1>2. /\ x \in Seq(S) /\ Len(x) = a + b
      /\ \A i \in 1..(a + b) : x[i] = IF i <= a THEN u[i] ELSE v[i - a]
  BY ConcatProperties
<1> HIDE DEF x
<1>3. /\ y \in Seq(S) /\ Len(y) = (a + b) + c
      /\ \A i \in 1..((a + b) + c) : y[i] = IF i <= a + b THEN x[i] ELSE w[i - (a + b)]
  <2>1. x \in Seq(S) /\ w \in Seq(S)
    BY <1>2
  <2>2. /\ y \in Seq(S) /\ Len(y) = Len(x) + Len(w)
        /\ \A i \in 1..(Len(x) + Len(w)) : y[i] = IF i <= Len(x) THEN x[i] ELSE w[i - Len(x)]
    BY <2>1, ConcatProperties
  <2> HIDE DEF y
  <2> QED BY <1>2, <2>2
<1> HIDE DEF y, a, b, c
<1>4. \A i \in 1..a : y[i] = u[i]
  <2> TAKE i \in 1..a
  <2>1. i \in 1..((a + b) + c) /\ i <= a + b /\ i \in 1..(a + b) /\ i <= a
    BY <1>1
  <2>2. y[i] = x[i]
    BY <1>3, <2>1
  <2>3. x[i] = u[i]
    BY <1>2, <2>1
  <2> QED BY <2>2, <2>3
<1>5. \A i \in 1..b : y[a + i] = v[i] /\ v[i] \in S
  <2> TAKE i \in 1..b
  <2> DEFINE j == a + i
  <2>1. j \in 1..((a + b) + c) /\ j <= a + b /\ j \in 1..(a + b) /\ ~(j <= a) /\ j - a = i
    BY <1>1
  <2> HIDE DEF j
  <2>2. y[j] = x[j]
    BY <1>3, <2>1
  <2>3. x[j] = v[j - a]
    BY <1>2, <2>1
  <2> QED BY <1>1, <2>1, <2>2, <2>3 DEF j
<1>6. SubSeq(y, a + 1, a + b) = v
  <2>1. \A i \in (a + 1)..(a + b) : y[i] \in S
    <3> TAKE i \in (a + 1)..(a + b)
    <3>1. i - a \in 1..b /\ a + (i - a) = i
      BY <1>1
    <3> QED BY <1>5, <3>1
  <2> DEFINE z == SubSeq(y, a + 1, a + b)
  <2>2. /\ z \in Seq(S)
        /\ Len(z) = IF a + 1 <= a + b THEN (a + b) - (a + 1) + 1 ELSE 0
        /\ \A i \in 1..((a + b) - (a + 1) + 1) : z[i] = y[(a + 1) + i - 1]
    BY <1>1, <2>1, SubSeqProperties
  <2> HIDE DEF z
  <2>3. Len(z) = b /\ (a + b) - (a + 1) + 1 = b
    BY <1>1, <2>2
  <2>4. \A i \in 1..b : z[i] = v[i]
    <3> TAKE i \in 1..b
    <3>1. z[i] = y[(a + 1) + i - 1] /\ (a + 1) + i - 1 = a + i
      BY <1>1, <2>2, <2>3
    <3> QED BY <1>5, <3>1
  <2>5. Len(v) = b
    BY DEF b
  <2>6. z = v
    BY <2>2, <2>3, <2>4, <2>5, SeqEqual
  <2> QED BY <2>6 DEF z
<1> QED BY <1>3, <1>4, <1>6 DEF y, x, a, b, c

(* What follows the addressing byte.                                       *)
LEMMA Rest ==
    ASSUME NEW S, NEW u \in Seq(S), NEW v \in Seq(S)
    PROVE  From(u \o v, Len(u) + 1) = v
<1>1. SubSeq(u \o v \o <<>>, Len(u) + 1, Len(u) + Len(v)) = v /\ (u \o v) \o <<>> = u \o v
  <2>1. <<>> \in Seq(S) /\ u \o v \in Seq(S)
    BY EmptySeq, ConcatProperties
  <2> QED BY <2>1, Slice, ConcatEmptySeq
<1>2. Len(u \o v) = Len(u) + Len(v)
  BY ConcatProperties
<1> QED BY <1>1, <1>2 DEF From

(* An optional byte is a sequence of at most one.                          *)
LEMMA OptionalIsSeq ==
    ASSUME NEW o \in OptionalByte
    PROVE  /\ o \in Seq(Nat) /\ Len(o) \in {0, 1}
           /\ o # <<>> => o[1] \in Nat
           /\ o = <<>> <=> Len(o) = 0
<1>1. CASE o = <<>>
  BY <1>1
<1>2. ASSUME NEW x \in 0..255, o = <<x>>
      PROVE  o \in Seq(Nat) /\ Len(o) = 1 /\ o[1] \in Nat /\ o # <<>>
  BY <1>2
<1> QED BY <1>1, <1>2 DEF OptionalByte

(* As many bytes as asked for.                                             *)
LEMMA FillIsSeq ==
    ASSUME NEW x \in Nat, NEW n \in Nat
    PROVE  Fill(x, n) \in Seq(Nat) /\ Len(Fill(x, n)) = n
<1>1. Fill(x, n) \in [1..n -> Nat]
  BY DEF Fill
<1> QED BY <1>1

(* The padding behind a body. *)
Pads(padding, n) == IF padding = <<>> THEN <<>> ELSE Fill(padding[1], n)

(* With a padding byte the rest of the frame is filled, without it nothing *)
(* is.                                                                     *)
LEMMA PadsAreSeq ==
    ASSUME NEW padding \in OptionalByte, NEW n \in Nat
    PROVE  /\ Pads(padding, n) \in Seq(Nat)
           /\ Len(Pads(padding, n)) = IF padding = <<>> THEN 0 ELSE n
<1>1. padding # <<>> => padding[1] \in Nat
  BY OptionalIsSeq
<1>2. CASE padding = <<>>
  BY <1>2, EmptySeq DEF Pads
<1>3. CASE padding # <<>>
  <2>1. Pads(padding, n) = Fill(padding[1], n)
    BY <1>3 DEF Pads
  <2> QED BY <1>1, <1>3, <2>1, FillIsSeq
<1> QED BY <1>2, <1>3

(* Two byte strings in a row.                                              *)
LEMMA Joined ==
    ASSUME NEW u \in Seq(Nat), NEW v \in Seq(Nat)
    PROVE  u \o v \in Seq(Nat) /\ Len(u \o v) = Len(u) + Len(v)
BY ConcatProperties

(* It does not matter where a frame is cut first.                          *)
LEMMA Assoc ==
    \A u, v, w \in Seq(Nat) : (u \o v) \o w = u \o (v \o w)
<1> SUFFICES ASSUME NEW u \in Seq(Nat), NEW v \in Seq(Nat), NEW w \in Seq(Nat)
             PROVE  (u \o v) \o w = u \o (v \o w)
  OBVIOUS
<1> QED BY ConcatAssociative, SMTT(60)

(* A frame: the addressing byte, the bytes of the PCI, data and padding.    *)
Parts(prefix, head, data, pads) ==
    LET w == (prefix \o (head \o data)) \o pads
        s == head \o data \o pads
    IN  /\ w \in Seq(Nat) /\ s \in Seq(Nat)
        /\ Len(s) = Len(head) + Len(data) + Len(pads)
        /\ Len(w) = Len(prefix) + Len(s)
        /\ From(w, Len(prefix) + 1) = s
        /\ \A i \in 1..Len(head) : s[i] = head[i]
        /\ SubSeq(s, Len(head) + 1, Len(head) + Len(data)) = data
        /\ From(s, Len(head) + 1) = data \o pads

(* Where the four parts of a frame are: addressing byte, PCI bytes, data,  *)
(* padding.                                                                *)
LEMMA FrameParts ==
    ASSUME NEW prefix \in Seq(Nat), NEW head \in Seq(Nat), NEW data \in Seq(Nat),
           NEW pads \in Seq(Nat)
    PROVE  Parts(prefix, head, data, pads)
<1> DEFINE body == head \o data
           s == body \o pads
           w == (prefix \o body) \o pads
<1>1. body \in Seq(Nat)
  BY Joined
<1>2. /\ s \in Seq(Nat) /\ Len(s) = Len(head) + Len(data) + Len(pads)
      /\ \A i \in 1..Len(head) : s[i] = head[i]
      /\ SubSeq(s, Len(head) + 1, Len(head) + Len(data)) = data
  BY Slice
<1>3. s = head \o (data \o pads) /\ data \o pads \in Seq(Nat)
  <2> DEFINE cat(a, b) == a \o b
  <2>0. \A a, b, c \in Seq(Nat) : cat(cat(a, b), c) = cat(a, cat(b, c))
    BY Assoc
  <2> HIDE DEF cat
  <2>1. cat(cat(head, data), pads) = cat(head, cat(data, pads))
    BY <2>0
  <2> USE DEF cat
  <2>2. data \o pads \in Seq(Nat)
    BY Joined
  <2> QED BY <2>1, <2>2
<1>4. From(s, Len(head) + 1) = data \o pads
  <2> DEFINE t == data \o pads
  <2>1. t \in Seq(Nat) /\ s = head \o t
    BY <1>3
  <2> HIDE DEF t, s
  <2>2. From(head \o t, Len(head) + 1) = t
    BY <2>1, Rest
  <2> QED BY <2>1, <2>2 DEF t
<1> HIDE DEF body
<1>5. w = prefix \o s
  <2> DEFINE cat(a, b) == a \o b
  <2>1. \A a, b, c \in Seq(Nat) : cat(cat(a, b), c) = cat(a, cat(b, c))
    BY Assoc
  <2> HIDE DEF cat
  <2>2. cat(cat(prefix, body), pads) = cat(prefix, cat(body, pads))
    BY <1>1, <2>1
  <2> QED BY <2>2 DEF cat
<1> HIDE DEF s, w
<1>6. w \in Seq(Nat) /\ Len(w) = Len(prefix) + Len(s)
  BY <1>2, <1>5, Joined
<1>7. From(w, Len(prefix) + 1) = s
  <2>1. From(prefix \o s, Len(prefix) + 1) = s
    BY <1>2, Rest
  <2> QED BY <1>5, <2>1
<1> QED BY <1>2, <1>4, <1>6, <1>7 DEF s, w, body, Parts

(* PCI bytes of the short Single Frame and of the Consecutive Frame.       *)
LEMMA OneByte ==
    ASSUME NEW x \in Nat
    PROVE  <<x>> \in Seq(Nat) /\ Len(<<x>>) = 1 /\ <<x>>[1] = x
OBVIOUS

(* PCI bytes of the long Single Frame and of the First Frame.              *)
LEMMA TwoBytes ==
    ASSUME NEW x \in Nat, NEW y \in Nat
    PROVE  <<x, y>> \in Seq(Nat) /\ Len(<<x, y>>) = 2 /\ <<x, y>>[1] = x /\ <<x, y>>[2] = y
OBVIOUS

(* A frame of frame_len bytes at most that carries head and data behind o   *)
(* bytes of address, and then padding or nothing.                          *)
Carries(w, o, head, data, padding, frame_len) ==
    LET s == From(w, o + 1)
        h == Len(head)
        n == Len(data)
    IN  /\ w \in Seq(Nat) /\ s \in Seq(Nat)
        /\ Len(w) = o + Len(s) /\ Len(s) >= h + n
        /\ padding = <<>> => Len(s) = h + n
        /\ padding # <<>> => Len(w) = frame_len
        /\ \A i \in 1..h : s[i] = head[i]
        /\ SubSeq(s, h + 1, h + n) = data
        /\ From(s, h + 1) = data \o Pads(padding, frame_len - (o + (h + n)))

(* encode_with_prefix_sized puts PCI bytes and data behind the addressing  *)
(* byte and fills up what is left.                                         *)
LEMMA FrameCarries ==
    ASSUME NEW prefix \in OptionalByte, NEW padding \in OptionalByte, NEW frame_len \in Nat,
           NEW pdu, NEW head \in Seq(Nat), NEW data \in Seq(Nat),
           Body(pdu, Len(prefix), frame_len) = head \o data,
           Len(prefix) + (Len(head) + Len(data)) <= frame_len
    PROVE  Carries(encode_with_prefix_sized(pdu, padding, prefix, frame_len),
                   Len(prefix), head, data, padding, frame_len)
<1> DEFINE o == Len(prefix)
           h == Len(head)
           n == Len(data)
           used == prefix \o (head \o data)
           room == frame_len - (o + (h + n))
           pads == Pads(padding, room)
           w == encode_with_prefix_sized(pdu, padding, prefix, frame_len)
           s == head \o data \o pads
<1>1. prefix \in Seq(Nat) /\ o \in Nat /\ h \in Nat /\ n \in Nat /\ room \in Nat
  BY OptionalIsSeq
<1>2. used \in Seq(Nat) /\ Len(used) = o + (h + n)
  <2>1. head \o data \in Seq(Nat) /\ Len(head \o data) = h + n
    BY Joined
  <2> QED BY <1>1, <2>1, Joined
<1>3. pads \in Seq(Nat) /\ Len(pads) = IF padding = <<>> THEN 0 ELSE room
  <2> HIDE DEF room
  <2> QED BY <1>1, PadsAreSeq
<1>4. w = IF padding = <<>> THEN used ELSE used \o Fill(padding[1], room)
  <2>1. w = IF padding = <<>> THEN used ELSE used \o Fill(padding[1], frame_len - Len(used))
    BY DEF encode_with_prefix_sized
  <2> HIDE DEF w, used
  <2> QED BY <1>2, <2>1
<1>5. w = used \o pads
  <2> HIDE DEF w, used, room
  <2>1. used \o <<>> = used
    BY <1>2, ConcatEmptySeq
  <2> QED BY <1>4, <2>1 DEF Pads
<1>6. /\ used \o pads \in Seq(Nat) /\ s \in Seq(Nat)
      /\ Len(s) = h + n + Len(pads)
      /\ Len(used \o pads) = o + Len(s)
      /\ From(used \o pads, o + 1) = s
      /\ \A i \in 1..h : s[i] = head[i]
      /\ SubSeq(s, h + 1, h + n) = data
      /\ From(s, h + 1) = data \o pads
  <2> HIDE DEF pads
  <2>1. Parts(prefix, head, data, pads)
    BY <1>1, <1>3, FrameParts
  <2> QED BY <2>1 DEF Parts
<1> HIDE DEF used, pads, s, w, o, h, n
<1>7. From(w, o + 1) = s /\ w \in Seq(Nat) /\ Len(w) = o + Len(s)
  BY <1>5, <1>6
<1>8. /\ Len(s) >= h + n
      /\ padding = <<>> => Len(s) = h + n
      /\ padding # <<>> => Len(w) = frame_len
  <2>1. CASE padding = <<>>
    BY <1>1, <1>3, <1>6, <2>1
  <2>2. CASE padding # <<>>
    BY <1>1, <1>3, <1>6, <1>7, <2>2
  <2> QED BY <2>1, <2>2
<1>9. Carries(w, o, head, data, padding, frame_len)
  BY <1>6, <1>7, <1>8 DEF Carries, pads, h, n
<1> QED BY <1>9 DEF w, o

(* What decode_with_offset looks at.                                       *)
Behind(w, o, s, head, h, data, n, padding, frame_len) ==
    /\ s # <<>> /\ From(w, o + 1) = s /\ Len(w) = o + Len(s)
    /\ Len(s) \in Nat /\ Len(s) >= h + n
    /\ padding = <<>> => Len(s) = h + n
    /\ padding # <<>> => Len(w) = frame_len
    /\ s[1] = head[1]
    /\ h > 1 => s[2] = head[2]
    /\ h > 2 => s[3] = head[3]
    /\ SubSeq(s, h + 1, h + n) = data
    /\ From(s, h + 1) = data \o Pads(padding, frame_len - (o + (h + n)))

(* What decode_with_offset sees behind the addressing byte.                *)
LEMMA DecodeHead ==
    ASSUME NEW w, NEW o, NEW head, NEW data, NEW padding, NEW frame_len,
           Carries(w, o, head, data, padding, frame_len), NEW h \in 1..3, Len(head) = h,
           NEW n \in Nat, Len(data) = n
    PROVE  \E s \in Seq(Nat) : Behind(w, o, s, head, h, data, n, padding, frame_len)
<1> DEFINE s == From(w, o + 1)
<1>1. s \in Seq(Nat) /\ Len(s) >= h + n /\ Len(s) \in Nat
  BY DEF Carries
<1>2. s # <<>>
  BY <1>1
<1>3. \A i \in 1..h : s[i] = head[i]
  BY DEF Carries
<1>4. s[1] = head[1] /\ (h > 1 => s[2] = head[2]) /\ (h > 2 => s[3] = head[3])
  <2> HIDE DEF s
  <2> QED BY <1>3
<1>5. /\ Len(w) = o + Len(s)
      /\ padding = <<>> => Len(s) = h + n
      /\ padding # <<>> => Len(w) = frame_len
      /\ SubSeq(s, h + 1, h + n) = data
      /\ From(s, h + 1) = data \o Pads(padding, frame_len - (o + (h + n)))
  BY DEF Carries
<1> HIDE DEF s
<1>6. From(w, o + 1) = s
  BY DEF s
<1>7. Behind(w, o, s, head, h, data, n, padding, frame_len)
  BY <1>1, <1>2, <1>4, <1>5, <1>6 DEF Behind
<1> QED BY <1>1, <1>7

(* The two halves of a PCI byte.                                           *)
LEMMA Nibble ==
    /\ \A n \in 0..15 : n % 16 = n /\ n \div 16 = 0
    /\ \A n \in 0..15 : (16 + n) % 16 = n /\ (16 + n) \div 16 = 1
    /\ \A n \in 0..15 : (32 + n) % 16 = n /\ (32 + n) \div 16 = 2
    /\ \A n \in 0..15 : (48 + n) % 16 = n /\ (48 + n) \div 16 = 3
OBVIOUS

(* Which frame it is shows in the upper half of its first byte.            *)
LEMMA DecodeKind ==
    ASSUME NEW w, NEW o, NEW s, From(w, o + 1) = s, s # <<>>
    PROVE  /\ s[1] \div 16 = 0 => decode_with_offset(w, o) = DecodeSingle(s, Len(w))
           /\ s[1] \div 16 = 1 => decode_with_offset(w, o) = DecodeFirst(s, Len(w), o)
           /\ s[1] \div 16 = 2 =>
                 decode_with_offset(w, o) = ConsecutiveFrame(s[1] % 16, From(s, 2))
           /\ s[1] \div 16 = 3 => decode_with_offset(w, o) = DecodeFlowControl(s)
           /\ s[1] \div 16 \notin {0, 1, 2, 3} => decode_with_offset(w, o) = InvalidFrame
<1> DEFINE d == s[1] \div 16
           l == Len(w)
           m == s[1] % 16
           t == From(s, 2)
<1>1. decode_with_offset(w, o) =
          CASE d = 0 -> DecodeSingle(s, l) [] d = 1 -> DecodeFirst(s, l, o)
            [] d = 2 -> ConsecutiveFrame(m, t) [] d = 3 -> DecodeFlowControl(s)
            [] OTHER -> InvalidFrame
  BY DEF decode_with_offset
<1> HIDE DEF d, l, m, t
<1>2. /\ d = 0 => decode_with_offset(w, o) = DecodeSingle(s, l)
      /\ d = 1 => decode_with_offset(w, o) = DecodeFirst(s, l, o)
      /\ d = 2 => decode_with_offset(w, o) = ConsecutiveFrame(m, t)
      /\ d = 3 => decode_with_offset(w, o) = DecodeFlowControl(s)
      /\ d \notin {0, 1, 2, 3} => decode_with_offset(w, o) = InvalidFrame
  BY <1>1
<1> QED BY <1>2 DEF d, l, m, t

(* A Single Frame comes back.  A frame of no bytes does too, unless it is   *)
(* padded to more than eight bytes: the padding is its length then.        *)
LEMMA ShortDecodes ==
    ASSUME NEW w, NEW o \in 0..1, NEW data \in Seq(Nat), NEW n \in Nat, Len(data) = n,
           NEW padding, NEW frame_len \in Nat, NEW head, Len(head) = 1, head[1] = n,
           Carries(w, o, head, data, padding, frame_len), n <= 7 - o,
           n > 0 \/ padding = <<>> \/ frame_len = 8
    PROVE  decode_with_offset(w, o) = SingleFrame(data)
<1>1. n \in 0..15 /\ n <= 7
  OBVIOUS
<1>2. PICK s \in Seq(Nat) : Behind(w, o, s, head, 1, data, n, padding, frame_len)
  BY DecodeHead
<1>3. /\ s # <<>> /\ From(w, o + 1) = s /\ Len(w) = o + Len(s)
      /\ Len(s) \in Nat /\ Len(s) >= 1 + n
      /\ padding = <<>> => Len(s) = 1 + n
      /\ padding # <<>> => Len(w) = frame_len
      /\ s[1] = head[1]
      /\ SubSeq(s, 1 + 1, 1 + n) = data
  BY <1>2 DEF Behind
<1>4. s[1] = n /\ s[1] % 16 = n /\ s[1] \div 16 = 0
  <2>1. s[1] = n
    BY <1>3
  <2>2. n % 16 = n /\ n \div 16 = 0
    BY <1>1, Nibble
  <2> QED BY <2>1, <2>2
<1>5. ~(n = 0 /\ Len(w) > 8)
  <2>0. Len(w) = o + Len(s) /\ (padding = <<>> => Len(s) = 1 + n)
        /\ (padding # <<>> => Len(w) = frame_len) /\ Len(s) \in Nat
    BY <1>3
  <2>1. CASE n > 0
    BY <2>1
  <2>2. CASE n = 0 /\ padding = <<>>
    <3>1. Len(s) = 1 + n /\ Len(w) = o + Len(s)
      BY <2>0, <2>2, Zenon
    <3> QED BY <2>2, <3>1
  <2>3. CASE n = 0 /\ padding # <<>> /\ frame_len = 8
    BY <2>0, <2>3
  <2> QED BY <2>1, <2>2, <2>3
<1>6. DecodeSingle(s, Len(w)) = SingleFrame(data)
  <2>2. DecodeSingle(s, Len(w)) = IF n > 7 \/ Len(s) < 2 - 1 + n THEN InvalidFrame
                                ELSE SingleFrame(SubSeq(s, 2, 2 - 1 + n))
    BY <1>4, <1>5 DEF DecodeSingle
  <2>3. 2 - 1 + n = 1 + n /\ ~(n > 7) /\ ~(Len(s) < 1 + n) /\ 1 + 1 = 2
    BY <1>1, <1>3
  <2>4. SubSeq(s, 2, 1 + n) = data
    BY <1>3, <2>3
  <2> QED BY <2>2, <2>3, <2>4
<1>7. decode_with_offset(w, o) = DecodeSingle(s, Len(w))
  BY <1>3, <1>4, DecodeKind
<1> QED BY <1>6, <1>7

(* A Single Frame with its length in the second byte (CAN FD) decodes to   *)
(* its data.                                                               *)
LEMMA LongDecodes ==
    ASSUME NEW w, NEW o \in 0..1, NEW data \in Seq(Nat), NEW n \in Nat, Len(data) = n,
           NEW padding, NEW frame_len \in Nat, NEW head, Len(head) = 2, head[1] = 0, head[2] = n,
           Carries(w, o, head, data, padding, frame_len), n > 7 - o
    PROVE  decode_with_offset(w, o) = SingleFrame(data)
<1>1. PICK s \in Seq(Nat) : Behind(w, o, s, head, 2, data, n, padding, frame_len)
  BY DecodeHead
<1>2. /\ s # <<>> /\ From(w, o + 1) = s /\ Len(w) = o + Len(s)
      /\ Len(s) \in Nat /\ Len(s) >= 2 + n
      /\ s[1] = head[1] /\ s[2] = head[2]
      /\ SubSeq(s, 2 + 1, 2 + n) = data
  BY <1>1 DEF Behind
<1>3. s[1] = 0 /\ s[1] % 16 = 0 /\ s[1] \div 16 = 0 /\ s[2] = n
  <2>1. s[1] = 0 /\ s[2] = n
    BY <1>2
  <2>2. 0 % 16 = 0 /\ 0 \div 16 = 0
    BY Nibble
  <2> QED BY <2>1, <2>2
<1>4. Len(w) > 8
  BY <1>2
<1>5. DecodeSingle(s, Len(w)) = SingleFrame(data)
  <2>2. DecodeSingle(s, Len(w)) = IF Len(s) < 3 - 1 + n THEN InvalidFrame
                                ELSE SingleFrame(SubSeq(s, 3, 3 - 1 + n))
    BY <1>3, <1>4 DEF DecodeSingle
  <2>3. 3 - 1 + n = 2 + n /\ ~(Len(s) < 2 + n) /\ 2 + 1 = 3
    BY <1>2
  <2>4. SubSeq(s, 3, 2 + n) = data
    BY <1>2, <2>3
  <2> QED BY <2>2, <2>3, <2>4
<1>6. decode_with_offset(w, o) = DecodeSingle(s, Len(w))
  BY <1>2, <1>3, DecodeKind
<1> QED BY <1>5, <1>6

(* Every Single Frame the encoder takes decodes to its data, unless it is  *)
(* an empty one in a padded CAN FD frame.                                  *)
LEMMA SingleDecodes ==
    ASSUME NEW prefix \in OptionalByte, NEW padding \in OptionalByte,
           NEW frame_len \in Nat, 8 <= frame_len,
           NEW data \in Seq(Nat), Encodable(SingleFrame(data), Len(prefix), frame_len)
    PROVE  LET w == encode_with_prefix_sized(SingleFrame(data), padding, prefix, frame_len)
           IN  /\ w \in Seq(Nat)
               /\ Len(data) > 0 \/ padding = <<>> \/ frame_len = 8 =>
                     decode_with_offset(w, Len(prefix)) = SingleFrame(data)
<1> DEFINE pdu == SingleFrame(data)
           o == Len(prefix)
           n == Len(data)
           w == encode_with_prefix_sized(pdu, padding, prefix, frame_len)
<1>1. o \in 0..1 /\ n \in Nat /\ frame_len \in Nat
  BY OptionalIsSeq
<1>2. n > 7 - o => frame_len > 8 /\ o + 2 + n <= frame_len
  BY DEF Encodable, SingleFrame
<1>3. pdu.kind = "SF" /\ pdu.data = data
  BY DEF SingleFrame
<1>4. Body(pdu, o, frame_len) = (IF n <= 7 - o THEN <<n>> ELSE <<0, n>>) \o data
  BY <1>3 DEF Body
<1> HIDE DEF pdu
<1>5. CASE n <= 7 - o
  <2>1. Body(pdu, o, frame_len) = <<n>> \o data
    BY <1>4, <1>5
  <2>2. <<n>> \in Seq(Nat) /\ Len(<<n>>) = 1 /\ <<n>>[1] = n
    BY <1>1, OneByte
  <2>3. o + (1 + n) <= frame_len
    BY <1>1, <1>5
  <2> DEFINE head == <<n>>
  <2>4. head \in Seq(Nat) /\ Len(head) = 1 /\ head[1] = n
        /\ o + (Len(head) + n) <= frame_len /\ Body(pdu, o, frame_len) = head \o data
    BY <2>1, <2>2, <2>3
  <2> HIDE DEF head
  <2>5. Carries(w, o, head, data, padding, frame_len)
    BY <1>1, <2>4, FrameCarries
  <2> HIDE DEF w, o
  <2>6. ASSUME n > 0 \/ padding = <<>> \/ frame_len = 8
        PROVE  decode_with_offset(w, o) = SingleFrame(data)
    BY <1>1, <1>5, <2>4, <2>5, <2>6, ShortDecodes
  <2>7. w \in Seq(Nat)
    BY ONLY <2>5 DEF Carries
  <2> QED BY ONLY <2>6, <2>7 DEF w, o, pdu
<1>6. CASE n > 7 - o
  <2>1. Body(pdu, o, frame_len) = <<0, n>> \o data
    <3> HIDE DEF n, o
    <3>1. ~(n <= 7 - o)
      BY <1>1, <1>6
    <3> QED BY <1>4, <3>1
  <2>2. <<0, n>> \in Seq(Nat) /\ Len(<<0, n>>) = 2 /\ <<0, n>>[1] = 0 /\ <<0, n>>[2] = n
    BY <1>1, TwoBytes
  <2>3. o + (2 + n) <= frame_len
    BY <1>1, <1>2, <1>6
  <2> DEFINE head == <<0, n>>
  <2>4. head \in Seq(Nat) /\ Len(head) = 2 /\ head[1] = 0 /\ head[2] = n
        /\ o + (Len(head) + n) <= frame_len /\ Body(pdu, o, frame_len) = head \o data
    BY <2>1, <2>2, <2>3
  <2> HIDE DEF head
  <2>5. Carries(w, o, head, data, padding, frame_len)
    BY <1>1, <2>4, FrameCarries
  <2> HIDE DEF w, o
  <2>6. decode_with_offset(w, o) = SingleFrame(data)
    BY <1>1, <1>6, <2>4, <2>5, LongDecodes
  <2>7. w \in Seq(Nat)
    BY ONLY <2>5 DEF Carries
  <2> QED BY ONLY <2>6, <2>7 DEF w, o, pdu
<1> QED BY <1>1, <1>5, <1>6

(* A First Frame that fills its frame comes back.                          *)
LEMMA NoPads ==
    ASSUME NEW padding \in OptionalByte, NEW data \in Seq(Nat)
    PROVE  data \o Pads(padding, 0) = data
<1> DEFINE pads == Pads(padding, 0)
<1>1. pads \in Seq(Nat) /\ Len(pads) = 0
  BY PadsAreSeq
<1> HIDE DEF pads
<1>2. pads = <<>>
  BY <1>1, EmptySeq
<1> QED BY <1>2, ConcatEmptySeq DEF pads

(* The twelve bits of a First Frame's length make up the length.           *)
LEMMA LengthBytes ==
    ASSUME NEW len \in Nat, len <= 4095
    PROVE  /\ len \div 256 \in 0..15 /\ len % 256 \in Nat
           /\ (len \div 256) * 256 + (len % 256) = len
OBVIOUS

(* All of a sequence.                                                      *)
LEMMA WholeOf ==
    ASSUME NEW S, NEW s \in Seq(S), NEW n \in Nat, Len(s) = n
    PROVE  SubSeq(s, 1, n) = s
<1>1. n \in 0..Len(s)
  OBVIOUS
<1>2. /\ SubSeq(s, 1, n) \in Seq(S) /\ Len(SubSeq(s, 1, n)) = n
      /\ \A i \in 1..n : SubSeq(s, 1, n)[i] = s[i]
  BY <1>1, PrefixOf
<1> QED BY <1>2, SeqEqual

FirstHead(head, len) ==
    Len(head) = 2 /\ head[1] = 16 + (len \div 256) /\ head[2] = len % 256

(* The bytes of a First Frame that announces more than a Single Frame      *)
(* carries decode to it.                                                   *)
LEMMA FirstTaken ==
    ASSUME NEW w, NEW o \in 0..1, NEW data \in Seq(Nat),
           NEW padding \in OptionalByte, NEW frame_len \in Nat, o + (2 + Len(data)) = frame_len,
           NEW head, NEW len \in Nat, len <= 4095, FirstHead(head, len),
           Carries(w, o, head, data, padding, frame_len), len > max_sf(frame_len, o)
    PROVE  decode_with_offset(w, o) = FirstFrame(len, data)
<1> DEFINE d == len \div 256
           r == len % 256
           n == Len(data)
<1>1. /\ n \in Nat
      /\ head[1] = 16 + d /\ head[2] = r
      /\ Carries(w, o, head, data, padding, frame_len)
      /\ Len(head) = 2 /\ Len(data) = n /\ o + (2 + n) = frame_len
      /\ len > max_sf(frame_len, o)
      /\ d \in 0..15 /\ r \in Nat /\ d * 256 + r = len
  BY LengthBytes DEF FirstHead
<1> HIDE DEF d, r, n
<1>2. PICK s \in Seq(Nat) : Behind(w, o, s, head, 2, data, n, padding, frame_len)
  <2>1. 2 \in 1..3
    OBVIOUS
  <2> QED BY ONLY <1>1, <2>1, DecodeHead
<1>3. /\ s # <<>> /\ From(w, o + 1) = s /\ Len(w) = o + Len(s)
      /\ Len(s) \in Nat /\ Len(s) >= 2 + n
      /\ padding = <<>> => Len(s) = 2 + n
      /\ padding # <<>> => Len(w) = frame_len
      /\ s[1] = head[1] /\ s[2] = head[2]
      /\ From(s, 2 + 1) = data \o Pads(padding, frame_len - (o + (2 + n)))
  <2>1. 2 > 1
    OBVIOUS
  <2> QED BY ONLY <1>2, <2>1 DEF Behind
<1>4. Len(w) = frame_len
  <2>1. Len(w) = o + Len(s) /\ o + (2 + n) = frame_len
    BY ONLY <1>1, <1>3
  <2>2. Len(s) = 2 + n => Len(w) = frame_len
    BY ONLY <2>1
  <2> QED BY ONLY <1>3, <2>2, Zenon
<1>5. From(s, 3) = data
  <2> DEFINE room == frame_len - (o + (2 + n))
             three == 2 + 1
  <2>1. room = 0 /\ three = 3
    BY ONLY <1>1
  <2>2. From(s, three) = data \o Pads(padding, room)
    BY ONLY <1>3, Zenon
  <2> HIDE DEF room, three
  <2>3. data \o Pads(padding, 0) = data
    BY ONLY NoPads
  <2> QED BY ONLY <2>1, <2>2, <2>3, Zenon
<1>6. s[1] = 16 + d /\ s[2] = r
  BY ONLY <1>1, <1>3
<1>7. s[1] % 16 = d /\ s[1] \div 16 = 1
  <2>1. (16 + d) % 16 = d /\ (16 + d) \div 16 = 1
    BY ONLY <1>1, Nibble
  <2> QED BY ONLY <1>6, <2>1
<1>8. (s[1] % 16) * 256 + s[2] = len
  BY ONLY <1>1, <1>6, <1>7
<1>9. ~(Len(s) < 2 \/ len <= max_sf(frame_len, o))
  <2>1. max_sf(frame_len, o) \in Int
    BY ONLY TRUE DEF max_sf, Saturating
  <2>2. len > max_sf(frame_len, o)
    BY ONLY <1>1
  <2>3. Len(s) \in Nat /\ Len(s) >= 2
    BY ONLY <1>1, <1>3
  <2> QED BY ONLY <2>1, <2>2, <2>3
<1>10. DecodeFirst(s, frame_len, o) = FirstFrame(len, data)
  <2>1. DecodeFirst(s, frame_len, o) =
            IF Len(s) < 2 \/ len <= max_sf(frame_len, o) THEN InvalidFrame
            ELSE FirstFrame(len, From(s, 3))
    BY ONLY <1>8 DEF DecodeFirst
  <2>2. DecodeFirst(s, frame_len, o) = FirstFrame(len, From(s, 3))
    BY ONLY <1>9, <2>1, Zenon
  <2> QED BY ONLY <1>5, <2>2, Zenon
<1>11. decode_with_offset(w, o) = DecodeFirst(s, Len(w), o)
  <2>1. s # <<>> /\ From(w, o + 1) = s
    BY ONLY <1>3, Zenon
  <2> QED BY ONLY <1>7, <2>1, DecodeKind
<1>12. decode_with_offset(w, o) = FirstFrame(len, data)
  BY ONLY <1>4, <1>10, <1>11, Zenon
<1> QED BY ONLY <1>12

(* What the twelve bits of a First Frame can announce.                     *)
Fits(n) == n <= 4095

(* A First Frame announces len bytes and has room for data, no more.       *)
Announces(len, prefix, data, frame_len) ==
    /\ Len(prefix) + (2 + Len(data)) = frame_len
    /\ Fits(len) /\ len > max_sf(frame_len, Len(prefix))

(* A First Frame that fills its CAN frame decodes to what was encoded.     *)
LEMMA FirstDecodes ==
    ASSUME NEW prefix \in OptionalByte, NEW padding \in OptionalByte,
           NEW frame_len \in Nat, 8 <= frame_len,
           NEW data \in Seq(Nat), NEW len \in Nat, Announces(len, prefix, data, frame_len)
    PROVE  decode_with_offset(
               encode_with_prefix_sized(FirstFrame(len, data), padding, prefix, frame_len),
               Len(prefix))
           = FirstFrame(len, data)
<1>1. PICK o \in 0..1, n \in Nat : Len(prefix) = o /\ Len(data) = n
  BY OptionalIsSeq
<1> DEFINE pdu == FirstFrame(len, data)
           w == encode_with_prefix_sized(pdu, padding, prefix, frame_len)
           d == len \div 256
           r == len % 256
           high == 16 + d
           head == <<high, r>>
<1>2. d \in 0..15 /\ r \in Nat /\ d * 256 + r = len
  BY LengthBytes DEF Announces, Fits
<1>3. pdu.kind = "FF" /\ pdu.len = len /\ pdu.data = data
  BY DEF FirstFrame
<1>4. Len(prefix) = o /\ Len(data) = n /\ o + (2 + n) = frame_len /\ frame_len \in Nat
      /\ len <= 4095 /\ len > max_sf(frame_len, o)
  BY <1>1 DEF Announces, Fits
<1> HIDE DEF pdu
<1>5. Body(pdu, o, frame_len) = head \o SubSeq(data, 1, Lesser(Len(data), frame_len - 2 - o))
  BY ONLY <1>3 DEF Body
<1> HIDE DEF d, r
<1>6. head \in Seq(Nat) /\ Len(head) = 2 /\ head[1] = high /\ head[2] = r
  <2>1. high \in Nat /\ r \in Nat
    BY ONLY <1>2
  <2> HIDE DEF high
  <2> QED BY ONLY <2>1, TwoBytes
<1>7. high = 16 + d
  OBVIOUS
<1> HIDE DEF w, high, head
<1>8. Body(pdu, Len(prefix), frame_len) = head \o data
  <2> DEFINE piece == SubSeq(data, 1, Lesser(Len(data), frame_len - 2 - o))
  <2>1. Lesser(Len(data), frame_len - 2 - o) = n
    BY ONLY <1>4 DEF Lesser
  <2>2. SubSeq(data, 1, n) = data
    BY ONLY <1>4, WholeOf
  <2>3. piece = SubSeq(data, 1, n)
    BY ONLY <2>1
  <2>4. Body(pdu, o, frame_len) = head \o piece
    BY ONLY <1>5
  <2> HIDE DEF piece
  <2>5. Len(prefix) = o
    BY ONLY <1>4
  <2> QED BY ONLY <2>2, <2>3, <2>4, <2>5
<1>9. Len(prefix) + (Len(head) + Len(data)) <= frame_len
  BY ONLY <1>4, <1>6
<1>10. Carries(w, Len(prefix), head, data, padding, frame_len)
  <2>1. head \in Seq(Nat) /\ frame_len \in Nat
    BY ONLY <1>4, <1>6
  <2> USE DEF w
  <2> QED BY ONLY <1>8, <1>9, <2>1, FrameCarries
<1>11. decode_with_offset(w, o) = FirstFrame(len, data)
  <2>1. Carries(w, o, head, data, padding, frame_len)
    BY ONLY <1>4, <1>10
  <2>2. FirstHead(head, len)
    BY ONLY <1>6, <1>7 DEF d, r, FirstHead
  <2>3. o + (2 + Len(data)) = frame_len /\ frame_len \in Nat
    BY ONLY <1>4
  <2>4. len <= 4095 /\ len > max_sf(frame_len, o)
    BY ONLY <1>4
  <2> QED BY ONLY <2>1, <2>2, <2>3, <2>4, FirstTaken
<1> QED BY ONLY <1>1, <1>11 DEF w, pdu

(* A Consecutive Frame comes back with its padding.                        *)
LEMMA ConsecutiveDecodes ==
    ASSUME NEW prefix \in OptionalByte, NEW padding \in OptionalByte,
           NEW frame_len \in Nat, 8 <= frame_len,
           NEW data \in Seq(Nat), NEW sn \in 0..15, Len(prefix) + (1 + Len(data)) <= frame_len
    PROVE  decode_with_offset(
               encode_with_prefix_sized(ConsecutiveFrame(sn, data), padding, prefix, frame_len),
               Len(prefix))
           = ConsecutiveFrame(sn,
                 data \o Pads(padding, frame_len - (Len(prefix) + (1 + Len(data)))))
<1> DEFINE pdu == ConsecutiveFrame(sn, data)
           o == Len(prefix)
           n == Len(data)
           w == encode_with_prefix_sized(pdu, padding, prefix, frame_len)
           first == 32 + sn
           head == <<first>>
           room == frame_len - (o + (1 + n))
<1>1. o \in 0..1 /\ n \in Nat /\ frame_len \in Nat
  BY OptionalIsSeq
<1>2. first \in Nat /\ first % 16 = sn /\ first \div 16 = 2 /\ sn % 16 = sn
  BY Nibble
<1>3. head \in Seq(Nat) /\ Len(head) = 1 /\ head[1] = first
  <2> HIDE DEF first
  <2> QED BY <1>2, OneByte
<1>4. Body(pdu, o, frame_len) = head \o data
  BY <1>2 DEF Body, ConsecutiveFrame
<1>5. Carries(w, o, head, data, padding, frame_len)
  <2>1. o + (Len(head) + n) <= frame_len
    BY <1>1, <1>3
  <2> HIDE DEF head, pdu
  <2> QED BY <1>1, <1>3, <1>4, <2>1, FrameCarries
<1> HIDE DEF head, w, first
<1>6. PICK s \in Seq(Nat) : Behind(w, o, s, head, 1, data, n, padding, frame_len)
  <2> HIDE DEF n, o
  <2>1. Len(data) = n
    BY DEF n
  <2> QED BY <1>1, <1>3, <1>5, <2>1, DecodeHead
<1>7. s # <<>> /\ From(w, o + 1) = s /\ s[1] = first /\ From(s, 2) = data \o Pads(padding, room)
  <2>1. s # <<>> /\ From(w, o + 1) = s /\ s[1] = head[1]
        /\ From(s, 1 + 1) = data \o Pads(padding, room)
    BY <1>6 DEF Behind
  <2>2. 1 + 1 = 2
    OBVIOUS
  <2> HIDE DEF room, o
  <2> QED BY <1>3, <2>1, <2>2
<1>8. decode_with_offset(w, o) = ConsecutiveFrame(sn, data \o Pads(padding, room))
  <2>1. s[1] \div 16 = 2 /\ s[1] % 16 = sn
    BY <1>2, <1>7
  <2>2. s # <<>> /\ From(w, o + 1) = s
    BY <1>7
  <2> HIDE DEF o, room
  <2>3. decode_with_offset(w, o) = ConsecutiveFrame(s[1] % 16, From(s, 2))
    BY <2>1, <2>2, DecodeKind
  <2> QED BY <1>7, <2>1, <2>3
<1> QED BY <1>8 DEF w

(* A Flow Control comes back.                                              *)
LEMMA FlowControlDecodes ==
    ASSUME NEW prefix \in OptionalByte, NEW padding \in OptionalByte,
           NEW frame_len \in Nat, 8 <= frame_len,
           NEW status \in FlowStatus, NEW bs \in Nat, NEW st \in Nat
    PROVE  decode_with_offset(
               encode_with_prefix_sized(FlowControl(status, bs, st), padding, prefix, frame_len),
               Len(prefix)) = FlowControl(status, bs, st)
<1> DEFINE pdu == FlowControl(status, bs, st)
           o == Len(prefix)
           w == encode_with_prefix_sized(pdu, padding, prefix, frame_len)
           code == StatusCode[status]
           first == 48 + code
           head == <<first, bs, st>>
           data == <<>>
<1>1. o \in 0..1 /\ frame_len \in Nat
  BY OptionalIsSeq
<1>2. code \in {0, 1, 2} /\ status = CHOOSE t \in FlowStatus : StatusCode[t] = code
  <2>1. StatusCode["ClearToSend"] = 0 /\ StatusCode["Wait"] = 1 /\ StatusCode["Overflow"] = 2
    BY DEF StatusCode, FlowStatus
  <2>2. \A t \in FlowStatus : StatusCode[t] = code <=> t = status
    BY <2>1 DEF FlowStatus
  <2>3. status = CHOOSE t \in FlowStatus : StatusCode[t] = code
    BY <2>2
  <2> QED BY <2>1, <2>3 DEF FlowStatus
<1> HIDE DEF code
<1>3. first \in Nat /\ first % 16 = code /\ first \div 16 = 3
  BY <1>2, Nibble
<1> HIDE DEF first
<1>4. head \in Seq(Nat) /\ Len(head) = 3 /\ head[1] = first /\ head[2] = bs /\ head[3] = st
  BY <1>3
<1>5. Body(pdu, o, frame_len) = head
  BY DEF Body, FlowControl, first, code
<1> HIDE DEF head, pdu
<1>6. data \in Seq(Nat) /\ Len(data) = 0 /\ head \o data = head
  BY <1>4, EmptySeq, ConcatEmptySeq
<1> HIDE DEF data
<1>7. Carries(w, o, head, data, padding, frame_len)
  <2>1. o + (Len(head) + Len(data)) <= frame_len
    <3> HIDE DEF o
    <3> QED BY <1>1, <1>4, <1>6
  <2> QED BY <1>1, <1>4, <1>5, <1>6, <2>1, FrameCarries
<1> HIDE DEF w, o
<1>8. PICK s \in Seq(Nat) : Behind(w, o, s, head, 3, data, 0, padding, frame_len)
  BY <1>1, <1>4, <1>6, <1>7, DecodeHead
<1>9. /\ s # <<>> /\ From(w, o + 1) = s /\ Len(s) \in Nat /\ Len(s) >= 3 + 0
      /\ s[1] = first /\ s[2] = bs /\ s[3] = st
  <2>1. 3 > 1 /\ 3 > 2
    OBVIOUS
  <2> QED BY <1>4, <1>8, <2>1 DEF Behind
<1>10. DecodeFlowControl(s) = FlowControl(status, bs, st)
  <2>1. ~(Len(s) < 3)
    BY <1>9
  <2>2. s[1] % 16 = code
    BY <1>3, <1>9
  <2> QED BY <1>2, <1>9, <2>1, <2>2 DEF DecodeFlowControl
<1>11. decode_with_offset(w, o) = FlowControl(status, bs, st)
  BY <1>3, <1>9, <1>10, DecodeKind
<1> QED BY <1>11 DEF w, o, pdu

-----------------------------------------------------------------------------
(* Frames nobody encoded.                                                  *)

(* A First Frame of any bytes announces more than it carries.              *)
LEMMA FirstIsLonger ==
    ASSUME NEW w \in Seq(Nat), NEW o \in 0..1, decode_with_offset(w, o).kind = "FF"
    PROVE  decode_with_offset(w, o).len > Len(decode_with_offset(w, o).data)
<1> DEFINE h == decode_with_offset(w, o)
           s == From(w, o + 1)
           l == Len(w)
<1>1. l \in Nat /\ \A i \in 1..l : w[i] \in Nat
  OBVIOUS
<1>2. /\ s \in Seq(Nat) /\ Len(s) = IF o + 1 <= l THEN l - (o + 1) + 1 ELSE 0
  <2>1. \A i \in (o + 1)..l : w[i] \in Nat
    BY ONLY <1>1
  <2> HIDE DEF l
  <2>2. SubSeq(w, o + 1, l) \in Seq(Nat)
        /\ Len(SubSeq(w, o + 1, l)) = IF o + 1 <= l THEN l - (o + 1) + 1 ELSE 0
    BY ONLY <1>1, <2>1, SubSeqProperties
  <2> QED BY ONLY <2>2 DEF From, l
<1>3. h.kind = "FF"
  OBVIOUS
<1> HIDE DEF l
<1>4. CASE s = <<>>
  <2>1. h = InvalidFrame
    BY ONLY <1>4 DEF decode_with_offset
  <2> QED BY ONLY <1>3, <2>1 DEF InvalidFrame, Malformed
<1>5. CASE s # <<>>
  <2> HIDE DEF s, h
  <2>1. /\ s[1] \div 16 = 0 => h = DecodeSingle(s, Len(w))
        /\ s[1] \div 16 = 1 => h = DecodeFirst(s, Len(w), o)
        /\ s[1] \div 16 = 2 => h = ConsecutiveFrame(s[1] % 16, From(s, 2))
        /\ s[1] \div 16 = 3 => h = DecodeFlowControl(s)
        /\ s[1] \div 16 \notin {0, 1, 2, 3} => h = InvalidFrame
    BY ONLY <1>5, DecodeKind DEF s, h
  <2>2. DecodeSingle(s, Len(w)).kind # "FF"
    BY ONLY TRUE DEF DecodeSingle, SingleFrame, InvalidFrame, Malformed
  <2>3. DecodeFlowControl(s).kind # "FF"
    BY ONLY TRUE DEF DecodeFlowControl, FlowControl, InvalidFrame, Malformed
  <2>4. ConsecutiveFrame(s[1] % 16, From(s, 2)).kind # "FF" /\ InvalidFrame.kind # "FF"
    BY ONLY TRUE DEF ConsecutiveFrame, InvalidFrame, Malformed
  <2>5. h = DecodeFirst(s, l, o)
    <3> DEFINE d == s[1] \div 16
    <3>1. d = 0 => h.kind # "FF"
      BY ONLY <2>1, <2>2
    <3>2. d = 2 => h.kind # "FF"
      BY ONLY <2>1, <2>4
    <3>3. d = 3 => h.kind # "FF"
      BY ONLY <2>1, <2>3
    <3>4. d \notin {0, 1, 2, 3} => h.kind # "FF"
      BY ONLY <2>1, <2>4
    <3>5. d = 1 => h = DecodeFirst(s, l, o)
      BY ONLY <2>1 DEF l
    <3> HIDE DEF d
    <3> QED BY ONLY <1>3, <3>1, <3>2, <3>3, <3>4, <3>5
  <2> DEFINE len == (s[1] % 16) * 256 + s[2]
             t == From(s, 3)
  <2>6. h = IF Len(s) < 2 \/ len <= max_sf(l, o) THEN InvalidFrame ELSE FirstFrame(len, t)
    BY ONLY <2>5 DEF DecodeFirst
  <2> DEFINE short == Len(s) < 2 \/ len <= max_sf(l, o)
  <2>7. ~short
    <3> HIDE DEF short
    <3> QED BY ONLY <1>3, <2>4, <2>6 DEF short
  <2>8. h.len = len /\ h.data = t
    BY ONLY <2>6, <2>7 DEF FirstFrame
  <2>9. Len(s) \in Nat /\ Len(s) >= 2 /\ Len(s) = l - o
    <3>1. Len(s) \in Nat
      BY ONLY <1>2
    <3>2. ~(Len(s) < 2)
      BY ONLY <2>7
    <3> QED BY ONLY <1>1, <1>2, <3>1, <3>2
  <2>10. Len(t) = Len(s) - 2
    <3> DEFINE j == Len(s)
    <3>1. \A i \in 3..j : s[i] \in Nat
      BY ONLY <1>2, <2>9
    <3>2. j \in Nat /\ j >= 2
      BY ONLY <2>9
    <3> HIDE DEF j
    <3>3. Len(SubSeq(s, 3, j)) = IF 3 <= j THEN j - 3 + 1 ELSE 0
      BY ONLY <3>1, <3>2, SubSeqProperties
    <3>4. Len(SubSeq(s, 3, j)) = j - 2
      BY ONLY <3>2, <3>3
    <3> QED BY ONLY <3>4 DEF From, j
  <2>11. len \in Nat
    <3>1. s[1] \in Nat /\ s[2] \in Nat
      BY ONLY <1>2, <2>9
    <3> QED BY ONLY <3>1
  <2> HIDE DEF len, t
  <2>12. max_sf(l, o) \in Nat /\ max_sf(l, o) >= l - o - 2
    <3>1. o \in Nat
      OBVIOUS
    <3> QED BY ONLY <1>1, <3>1 DEF max_sf, Saturating
  <2>13. ~(len <= max_sf(l, o))
    BY ONLY <2>7 DEF len
  <2>14. len > Len(t)
    BY ONLY <1>1, <2>9, <2>10, <2>11, <2>12, <2>13
  <2> QED BY ONLY <2>8, <2>14 DEF h
<1> QED BY <1>4, <1>5

(* A separation time that has a duration comes back from it.               *)
LEMMA StMinReturns ==
    ASSUME NEW raw, st_min_to_duration(raw, -1) # -1
    PROVE  duration_to_st_min(st_min_to_duration(raw, -1)) = raw
<1> DEFINE micros == st_min_to_duration(raw, -1)
<1>1. CASE raw \in 0..127
  <2>1. raw \in Nat /\ raw <= 127
    BY <1>1
  <2>2. micros = raw * 1000
    BY <1>1 DEF st_min_to_duration
  <2>3. micros \div 1000 = raw
    BY ONLY <2>1, <2>2
  <2>4. micros \in Nat /\ (micros = 0 <=> raw = 0) /\ ~(micros \in 100..900)
    <3>1. ~(micros >= 100 /\ micros <= 900) /\ micros \in Nat /\ (micros = 0 <=> raw = 0)
      BY ONLY <2>1, <2>2
    <3> HIDE DEF micros
    <3> QED BY ONLY <3>1
  <2> HIDE DEF micros
  <2>5. duration_to_st_min(micros) = IF micros = 0 THEN 0 ELSE Lesser(micros \div 1000, 127)
    BY ONLY <2>4 DEF duration_to_st_min
  <2>6. Lesser(raw, 127) = raw
    BY ONLY <2>1 DEF Lesser
  <2> QED BY ONLY <2>3, <2>4, <2>5, <2>6 DEF micros
<1>2. CASE raw \in 241..249
  <2> DEFINE k == raw - 240
  <2>1. k \in 1..9 /\ raw = 240 + k /\ raw \notin 0..127
    BY <1>2
  <2>2. micros = k * 100
    BY <1>2, <2>1 DEF st_min_to_duration
  <2> HIDE DEF k, micros
  <2>3. micros # 0 /\ micros \in 100..900 /\ micros % 100 = 0 /\ micros \div 100 = k
    <3>1. micros # 0 /\ micros \in Nat /\ micros >= 100 /\ micros <= 900
      BY ONLY <2>1, <2>2
    <3>2. micros % 100 = 0 /\ micros \div 100 = k
      BY ONLY <2>1, <2>2
    <3> QED BY ONLY <3>1, <3>2
  <2>4. duration_to_st_min(micros) = 240 + (micros \div 100)
    BY ONLY <2>3 DEF duration_to_st_min
  <2> QED BY ONLY <2>1, <2>3, <2>4 DEF micros
<1>3. CASE raw \notin 0..127 /\ raw \notin 241..249
  BY <1>3 DEF st_min_to_duration
<1> QED BY <1>1, <1>2, <1>3

-----------------------------------------------------------------------------
(* Stations.                                                               *)

Modes == {"normal", "extended", "mixed_11", "normal_fixed_29", "mixed_29", "peer"}

IsNode(x) == x \in Nat /\ x <= 255

(* What StationAssumption says of one station.                             *)
LEMMA StationTypes ==
    ASSUME NEW p \in Stations
    PROVE  /\ p.mode \in Modes /\ p.type \in {"Physical", "Functional"}
           /\ IsNode(p.source) /\ IsNode(p.target) /\ IsNode(p.extension)
BY StationAssumption DEF Modes, FixedModes, IsNode

(* The other end of a link, field by field.                                *)
LEMMA MirrorFields ==
    ASSUME NEW q \in Stations
    PROVE  /\ Mirror(q).mode = q.mode /\ Mirror(q).tx = q.rx /\ Mirror(q).rx = q.tx
           /\ Mirror(q).source = q.target /\ Mirror(q).target = q.source
           /\ Mirror(q).extension = q.extension /\ Mirror(q).type = q.type
BY StationAssumption DEF Mirror

(* What the fixed modes make of a physical or functional target.           *)
FixedKind(p) == IF p.mode = "peer" THEN "normal_fixed_29" ELSE p.mode
FixedType(p) == IF p.mode = "peer" THEN "Physical" ELSE p.type

(* What is relevant of a station of a fixed mode.                          *)
LEMMA FixedRelevant ==
    ASSUME NEW a, a.mode \in FixedModes
    PROVE  LET x == Relevant(a)
           IN  /\ x.ids = <<>> /\ x.nodes = <<a.source, a.target>>
               /\ x.extension = IF a.mode = "mixed_29" THEN a.extension ELSE 0
               /\ x.type = FixedType(a)
<1> DEFINE x == Relevant(a)
<1>1. a.mode # "mixed_11" /\ (a.mode = "peer" \/ a.mode # "peer")
  BY DEF FixedModes
<1>2. x.ids = <<>> /\ x.nodes = <<a.source, a.target>>
  BY DEF Relevant
<1>3. x.extension = IF a.mode = "mixed_29" THEN a.extension ELSE 0
  BY <1>1 DEF Relevant
<1>4. x.type = FixedType(a)
  <2>1. CASE a.mode = "peer"
    BY <2>1 DEF Relevant, FixedType
  <2>2. CASE a.mode # "peer"
    <3>1. x.type = CASE a.mode = "peer" -> "Physical"
                     [] a.mode \in FixedModes \ {"peer"} -> a.type
                     [] OTHER -> "none"
      BY ONLY TRUE DEF Relevant
    <3>2. a.mode \in FixedModes \ {"peer"}
      BY <2>2
    <3> HIDE DEF x
    <3>3. x.type = a.type
      BY ONLY <2>2, <3>1, <3>2
    <3> QED BY ONLY <2>2, <3>3 DEF FixedType
  <2> QED BY <2>1, <2>2
<1> QED BY ONLY <1>2, <1>3, <1>4

(* Who is whose partner, mode by mode.                                     *)
LEMMA PartnersAre ==
    ASSUME NEW p \in Stations, NEW q \in Stations
    PROVE  /\ p.mode = "normal" =>
                 (Partners(p, q) <=> q.mode = "normal" /\ p.tx = q.rx /\ p.rx = q.tx)
           /\ p.mode = "extended" =>
                 (Partners(p, q) <=> q.mode = "extended" /\ p.tx = q.rx /\ p.rx = q.tx
                                        /\ p.source = q.target /\ p.target = q.source)
           /\ p.mode = "mixed_11" =>
                 (Partners(p, q) <=> q.mode = "mixed_11" /\ p.tx = q.rx /\ p.rx = q.tx
                                        /\ p.extension = q.extension)
           /\ p.mode \in FixedModes =>
                 (Partners(p, q) <=> q.mode \in FixedModes
                                        /\ FixedKind(p) = FixedKind(q)
                                        /\ p.source = q.target /\ p.target = q.source
                                        /\ (p.mode = "mixed_29" => p.extension = q.extension)
                                        /\ FixedType(p) = FixedType(q))
<1> DEFINE m == Mirror(q)
           r == Relevant(p)
           t == Relevant(m)
<1>1. p.mode \in Modes /\ q.mode \in Modes
  BY StationTypes
<1>2. /\ m.mode = q.mode /\ m.tx = q.rx /\ m.rx = q.tx /\ m.source = q.target
      /\ m.target = q.source /\ m.extension = q.extension /\ m.type = q.type
  BY MirrorFields
<1>3. Partners(p, q) <=> r = t
  BY DEF Partners
<1> HIDE DEF m
<1>4. r = t <=> r.mode = t.mode /\ r.ids = t.ids /\ r.nodes = t.nodes
                  /\ r.extension = t.extension /\ r.type = t.type
  BY ONLY TRUE DEF Relevant
<1> HIDE DEF r, t
<1>5. \A a \in {p, m} : \A x \in {Relevant(a)} :
         /\ x.mode = IF a.mode = "peer" THEN "normal_fixed_29" ELSE a.mode
         /\ x.ids = IF a.mode \in FixedModes THEN <<>> ELSE <<a.tx, a.rx>>
         /\ x.nodes = IF a.mode \in FixedModes \/ a.mode = "extended"
                      THEN <<a.source, a.target>> ELSE <<>>
         /\ x.extension = IF a.mode \in {"mixed_11", "mixed_29"} THEN a.extension ELSE 0
         /\ x.type = CASE a.mode = "peer" -> "Physical"
                       [] a.mode \in FixedModes \ {"peer"} -> a.type
                       [] OTHER -> "none"
  BY ONLY TRUE DEF Relevant
<1>6. CASE p.mode = "normal"
  BY <1>1, <1>2, <1>3, <1>4, <1>5, <1>6 DEF r, t, Modes, FixedModes
<1>7. CASE p.mode = "extended"
  BY <1>1, <1>2, <1>3, <1>4, <1>5, <1>7 DEF r, t, Modes, FixedModes
<1>8. CASE p.mode = "mixed_11"
  BY <1>1, <1>2, <1>3, <1>4, <1>5, <1>8 DEF r, t, Modes, FixedModes
<1>9. CASE p.mode \in FixedModes
  <2>1. r.mode = FixedKind(p) /\ t.mode = FixedKind(m)
    BY <1>5 DEF r, t, FixedKind
  <2>2. ASSUME m.mode \notin FixedModes PROVE r.mode # t.mode
    BY ONLY <1>9, <2>1, <2>2 DEF FixedKind, FixedModes
  <2>3. CASE m.mode \in FixedModes
    <3>1. /\ r.ids = <<>> /\ r.nodes = <<p.source, p.target>>
          /\ r.extension = IF p.mode = "mixed_29" THEN p.extension ELSE 0
          /\ r.type = FixedType(p)
      BY ONLY <1>9, FixedRelevant DEF r
    <3>2. /\ t.ids = <<>> /\ t.nodes = <<m.source, m.target>>
          /\ t.extension = IF m.mode = "mixed_29" THEN m.extension ELSE 0
          /\ t.type = FixedType(m)
      BY ONLY <2>3, FixedRelevant DEF t
    <3>3. r.nodes = t.nodes <=> p.source = m.source /\ p.target = m.target
      BY ONLY <3>1, <3>2
    <3>4. FixedKind(p) = FixedKind(m) => (p.mode = "mixed_29" <=> m.mode = "mixed_29")
      BY ONLY TRUE DEF FixedKind
    <3>5. FixedKind(q) = FixedKind(m) /\ FixedType(q) = FixedType(m)
      BY ONLY <1>2 DEF FixedKind, FixedType
    <3>6. r = t <=> /\ FixedKind(p) = FixedKind(m) /\ r.nodes = t.nodes
                    /\ r.extension = t.extension /\ FixedType(p) = FixedType(m)
      BY ONLY <1>4, <2>1, <3>1, <3>2
    <3>7. FixedKind(p) = FixedKind(m) =>
              (r.extension = t.extension
                 <=> (p.mode = "mixed_29" => p.extension = m.extension))
      BY ONLY <3>1, <3>2, <3>4
    <3> QED BY ONLY <1>2, <1>3, <1>9, <2>3, <3>3, <3>5, <3>6, <3>7 DEF FixedModes
  <2> QED BY ONLY <1>2, <1>3, <1>4, <1>9, <2>2, <2>3 DEF FixedModes
<1> QED BY <1>1, <1>6, <1>7, <1>8, <1>9 DEF Modes, FixedModes

(* Different numbers are different identifiers.                            *)
LEMMA ExtTells ==
    ASSUME NEW x, NEW y
    PROVE  ext_id(x) = ext_id(y) <=> x = y
BY DEF ext_id

(* An identifier of a fixed mode tells the mode, the type and both node    *)
(* addresses.                                                              *)
LEMMA JoinTells ==
    ASSUME NEW b \in {416940032, 417005568, 416153600, 416088064},
           NEW c \in {416940032, 417005568, 416153600, 416088064},
           NEW h, IsNode(h), NEW l, IsNode(l), NEW i, IsNode(i), NEW k, IsNode(k)
    PROVE  Join(b, h, l) = Join(c, i, k) <=> b = c /\ h = i /\ l = k
<1>1. h \in Nat /\ h <= 255 /\ l \in Nat /\ l <= 255 /\ i \in Nat /\ i <= 255 /\ k \in Nat /\ k <= 255
  BY DEF IsNode
<1>2. Join(b, h, l) = Join(c, i, k) <=> b + 256 * h + l = c + 256 * i + k
  <2>1. Join(b, h, l) = ext_id(b + 256 * h + l) /\ Join(c, i, k) = ext_id(c + 256 * i + k)
    BY ONLY TRUE DEF Join
  <2> DEFINE x == b + 256 * h + l
             y == c + 256 * i + k
  <2> HIDE DEF x, y
  <2>2. ext_id(x) = ext_id(y) <=> x = y
    BY ONLY ExtTells
  <2> QED BY ONLY <2>1, <2>2 DEF x, y
<1>3. b + 256 * h + l = c + 256 * i + k <=> b = c /\ h = i /\ l = k
  BY ONLY <1>1
<1> QED BY ONLY <1>2, <1>3

(* The identifiers and addressing bytes of each mode.                      *)
IsFixed(p) ==
    LET a == AddressOf(p)
    IN  /\ Base(p) \in {416940032, 417005568, 416153600, 416088064}
        /\ a.tx_id = Join(Base(p), p.target, p.source)
        /\ a.rx_id = Join(Base(p), p.source, p.target)
        /\ a.tx_addr = (IF p.mode = "mixed_29" THEN <<p.extension>> ELSE <<>>)
        /\ a.rx_addr = a.tx_addr

(* What each constructor yields.                                           *)
LEMMA AddressFields ==
    ASSUME NEW p \in Stations
    PROVE  LET a == AddressOf(p)
           IN  /\ p.mode \notin FixedModes => a.tx_id = p.tx /\ a.rx_id = p.rx
               /\ p.mode = "normal" => a.tx_addr = <<>> /\ a.rx_addr = <<>>
               /\ p.mode = "extended" => a.tx_addr = <<p.target>> /\ a.rx_addr = <<p.source>>
               /\ p.mode = "mixed_11" => a.tx_addr = <<p.extension>> /\ a.rx_addr = <<p.extension>>
               /\ p.mode \in FixedModes => IsFixed(p)
<1> DEFINE a == AddressOf(p)
<1>1. a.tx_id = TxId(p) /\ a.rx_id = RxId(p) /\ a.tx_addr = TxAddr(p) /\ a.rx_addr = RxAddr(p)
  BY DEF AddressOf
<1>2. p.mode \in Modes /\ p.type \in {"Physical", "Functional"}
  BY StationTypes
<1> HIDE DEF a
<1>3. p.mode \notin FixedModes => a.tx_id = p.tx /\ a.rx_id = p.rx
  BY <1>1 DEF TxId, RxId
<1>4. /\ p.mode = "normal" => a.tx_addr = <<>> /\ a.rx_addr = <<>>
      /\ p.mode = "extended" => a.tx_addr = <<p.target>> /\ a.rx_addr = <<p.source>>
      /\ p.mode = "mixed_11" => a.tx_addr = <<p.extension>> /\ a.rx_addr = <<p.extension>>
  BY <1>1 DEF TxAddr, RxAddr
<1>5. ASSUME p.mode \in FixedModes PROVE IsFixed(p)
  <2>1. Base(p) \in {416940032, 417005568, 416153600, 416088064}
    BY <1>2, <1>5 DEF Base, fixed_base, FixedModes
  <2>2. /\ a.tx_id = Join(Base(p), p.target, p.source)
        /\ a.rx_id = Join(Base(p), p.source, p.target)
    BY <1>1, <1>5 DEF TxId, RxId
  <2>3. /\ a.tx_addr = (IF p.mode = "mixed_29" THEN <<p.extension>> ELSE <<>>)
        /\ a.rx_addr = a.tx_addr
    BY <1>1, <1>5 DEF TxAddr, RxAddr, FixedModes
  <2> QED BY <2>1, <2>2, <2>3 DEF IsFixed, a
<1> QED BY <1>3, <1>4, <1>5 DEF a

(* Which base it is.                                                       *)
LEMMA BaseTells ==
    ASSUME NEW p \in Stations, NEW q \in Stations,
           p.mode \in FixedModes, q.mode \in FixedModes
    PROVE  Base(p) = Base(q) <=> FixedKind(p) = FixedKind(q) /\ FixedType(p) = FixedType(q)
<1>1. p.type \in {"Physical", "Functional"} /\ q.type \in {"Physical", "Functional"}
  BY StationTypes
<1> QED BY <1>1 DEF Base, fixed_base, FixedModes, FixedKind, FixedType

(* A station sends to the identifier another listens to.                   *)
LEMMA FixedReach ==
    ASSUME NEW p \in Stations, NEW q \in Stations,
           p.mode \in FixedModes, q.mode \in FixedModes
    PROVE  LET a == AddressOf(p)
               b == AddressOf(q)
               same == /\ FixedKind(p) = FixedKind(q) /\ FixedType(p) = FixedType(q)
                       /\ p.source = q.target /\ p.target = q.source
           IN  /\ a.tx_id = b.rx_id <=> same
               /\ b.tx_id = a.rx_id <=> same
<1>1. IsFixed(p) /\ IsFixed(q)
  BY AddressFields
<1>2. IsNode(p.source) /\ IsNode(p.target) /\ IsNode(q.source) /\ IsNode(q.target)
  BY StationTypes
<1>3. Base(p) = Base(q) <=> FixedKind(p) = FixedKind(q) /\ FixedType(p) = FixedType(q)
  BY BaseTells
<1>4. Join(Base(p), p.target, p.source) = Join(Base(q), q.source, q.target)
          <=> Base(p) = Base(q) /\ p.target = q.source /\ p.source = q.target
  BY ONLY <1>1, <1>2, JoinTells DEF IsFixed
<1>5. Join(Base(q), q.target, q.source) = Join(Base(p), p.source, p.target)
          <=> Base(q) = Base(p) /\ q.target = p.source /\ q.source = p.target
  BY ONLY <1>1, <1>2, JoinTells DEF IsFixed
<1>6. /\ AddressOf(p).tx_id = Join(Base(p), p.target, p.source)
      /\ AddressOf(p).rx_id = Join(Base(p), p.source, p.target)
      /\ AddressOf(q).tx_id = Join(Base(q), q.target, q.source)
      /\ AddressOf(q).rx_id = Join(Base(q), q.source, q.target)
  BY ONLY <1>1 DEF IsFixed
<1> QED BY ONLY <1>3, <1>4, <1>5, <1>6

(* Two stations of a like mode.                                            *)
Alike(p, q) == p.mode = q.mode \/ {p.mode, q.mode} \subseteq FixedModes

Answered(p, q) ==
    /\ AddressOf(q).tx_id = AddressOf(p).rx_id
    /\ AddressOf(q).tx_addr = AddressOf(p).rx_addr

Reaches(p, q) ==
    /\ AddressOf(p).tx_id = AddressOf(q).rx_id
    /\ AddressOf(p).tx_addr = AddressOf(q).rx_addr

(* Among stations of a like mode, partners are those whose identifiers and *)
(* addressing bytes fit in both directions; in the fixed modes one         *)
(* direction is enough, since an identifier names both ends.               *)
LEMMA PartnersReach ==
    ASSUME NEW p \in Stations, NEW q \in Stations, Alike(p, q)
    PROVE  /\ Partners(p, q) <=> Reaches(p, q) /\ Answered(p, q)
           /\ p.mode \in FixedModes => (Reaches(p, q) <=> Answered(p, q))
<1>1. p.mode \in Modes /\ q.mode \in Modes
  BY StationTypes
<1> DEFINE a == AddressOf(p)
           b == AddressOf(q)
<1>2. /\ Reaches(p, q) <=> a.tx_id = b.rx_id /\ a.tx_addr = b.rx_addr
      /\ Answered(p, q) <=> b.tx_id = a.rx_id /\ b.tx_addr = a.rx_addr
  BY DEF Reaches, Answered
<1>3. CASE p.mode = "normal" /\ q.mode = "normal"
  <2>1. /\ a.tx_id = p.tx /\ a.rx_id = p.rx /\ a.tx_addr = <<>> /\ a.rx_addr = <<>>
        /\ b.tx_id = q.tx /\ b.rx_id = q.rx /\ b.tx_addr = <<>> /\ b.rx_addr = <<>>
        /\ p.mode \notin FixedModes
    BY <1>3, AddressFields DEF FixedModes
  <2>2. Partners(p, q) <=> q.mode = "normal" /\ p.tx = q.rx /\ p.rx = q.tx
    BY <1>3, PartnersAre
  <2> HIDE DEF a, b
  <2> QED BY ONLY <1>2, <1>3, <2>1, <2>2
<1>4. CASE p.mode = "extended" /\ q.mode = "extended"
  <2>1. /\ a.tx_id = p.tx /\ a.rx_id = p.rx /\ a.tx_addr = <<p.target>> /\ a.rx_addr = <<p.source>>
        /\ b.tx_id = q.tx /\ b.rx_id = q.rx /\ b.tx_addr = <<q.target>> /\ b.rx_addr = <<q.source>>
        /\ p.mode \notin FixedModes
    BY <1>4, AddressFields DEF FixedModes
  <2>2. Partners(p, q) <=> q.mode = "extended" /\ p.tx = q.rx /\ p.rx = q.tx
                             /\ p.source = q.target /\ p.target = q.source
    BY <1>4, PartnersAre
  <2> HIDE DEF a, b
  <2> QED BY ONLY <1>2, <1>4, <2>1, <2>2
<1>5. CASE p.mode = "mixed_11" /\ q.mode = "mixed_11"
  <2>1. /\ a.tx_id = p.tx /\ a.rx_id = p.rx /\ a.tx_addr = <<p.extension>> /\ a.rx_addr = <<p.extension>>
        /\ b.tx_id = q.tx /\ b.rx_id = q.rx /\ b.tx_addr = <<q.extension>> /\ b.rx_addr = <<q.extension>>
        /\ p.mode \notin FixedModes
    BY <1>5, AddressFields DEF FixedModes
  <2>2. Partners(p, q) <=> q.mode = "mixed_11" /\ p.tx = q.rx /\ p.rx = q.tx
                             /\ p.extension = q.extension
    BY <1>5, PartnersAre
  <2> HIDE DEF a, b
  <2> QED BY ONLY <1>2, <1>5, <2>1, <2>2
<1>6. CASE p.mode \in FixedModes /\ q.mode \in FixedModes
  <2> DEFINE same == /\ FixedKind(p) = FixedKind(q) /\ FixedType(p) = FixedType(q)
                     /\ p.source = q.target /\ p.target = q.source
  <2>1. (a.tx_id = b.rx_id <=> same) /\ (b.tx_id = a.rx_id <=> same)
    BY <1>6, FixedReach
  <2>2. Partners(p, q) <=> same /\ (p.mode = "mixed_29" => p.extension = q.extension)
    BY <1>6, PartnersAre
  <2>3. IsFixed(p) /\ IsFixed(q)
    BY <1>6, AddressFields
  <2>4. /\ a.tx_addr = IF p.mode = "mixed_29" THEN <<p.extension>> ELSE <<>>
        /\ b.tx_addr = IF q.mode = "mixed_29" THEN <<q.extension>> ELSE <<>>
        /\ a.rx_addr = a.tx_addr /\ b.rx_addr = b.tx_addr
    BY ONLY <2>3 DEF IsFixed
  <2>5. same => (p.mode = "mixed_29" <=> q.mode = "mixed_29")
    BY ONLY <1>1, <1>6 DEF FixedKind, Modes, FixedModes
  <2>6. same => (a.tx_addr = b.tx_addr <=> (p.mode = "mixed_29" => p.extension = q.extension))
    <3> HIDE DEF a, b, same
    <3> QED BY ONLY <2>4, <2>5
  <2> HIDE DEF a, b, same
  <2> QED BY ONLY <1>2, <2>1, <2>2, <2>4, <2>6
<1>7. \/ p.mode = "normal" /\ q.mode = "normal"
      \/ p.mode = "extended" /\ q.mode = "extended"
      \/ p.mode = "mixed_11" /\ q.mode = "mixed_11"
      \/ p.mode \in FixedModes /\ q.mode \in FixedModes
  BY <1>1 DEF Alike, Modes, FixedModes
<1> QED BY ONLY <1>3, <1>4, <1>5, <1>6, <1>7

(* An addressing byte is there or not by the mode, in both directions      *)
(* alike.                                                                  *)
LEMMA AddressShape ==
    ASSUME NEW p \in Stations
    PROVE  LET a == AddressOf(p)
           IN  /\ a.tx_addr \in OptionalByte /\ a.rx_addr \in OptionalByte
               /\ a.tx_addr = <<>> <=> p.mode \in {"normal", "normal_fixed_29", "peer"}
               /\ a.rx_addr = <<>> <=> p.mode \in {"normal", "normal_fixed_29", "peer"}
<1> DEFINE a == AddressOf(p)
<1>1. /\ p.mode \in Modes /\ IsNode(p.source) /\ IsNode(p.target) /\ IsNode(p.extension)
  BY StationTypes
<1>2. ASSUME NEW x, IsNode(x) PROVE <<x>> \in OptionalByte /\ <<x>> # <<>>
  <2>1. x \in 0..255
    BY <1>2 DEF IsNode
  <2> QED BY <2>1 DEF OptionalByte
<1>3. <<>> \in OptionalByte
  BY DEF OptionalByte
<1>4. /\ p.mode = "normal" => a.tx_addr = <<>> /\ a.rx_addr = <<>>
      /\ p.mode = "extended" => a.tx_addr = <<p.target>> /\ a.rx_addr = <<p.source>>
      /\ p.mode = "mixed_11" => a.tx_addr = <<p.extension>> /\ a.rx_addr = <<p.extension>>
      /\ p.mode \in FixedModes => IsFixed(p)
  BY AddressFields
<1>5. IsFixed(p) => /\ a.tx_addr = (IF p.mode = "mixed_29" THEN <<p.extension>> ELSE <<>>)
                   /\ a.rx_addr = a.tx_addr
  BY DEF IsFixed
<1> HIDE DEF a
<1>6. /\ p.mode \in {"normal", "normal_fixed_29", "peer"} => a.tx_addr = <<>> /\ a.rx_addr = <<>>
      /\ p.mode = "extended" => a.tx_addr = <<p.target>> /\ a.rx_addr = <<p.source>>
      /\ p.mode \in {"mixed_11", "mixed_29"} =>
            a.tx_addr = <<p.extension>> /\ a.rx_addr = <<p.extension>>
  BY ONLY <1>4, <1>5 DEF FixedModes
<1>7. CASE p.mode \in {"normal", "normal_fixed_29", "peer"}
  BY ONLY <1>3, <1>6, <1>7 DEF a
<1>8. CASE p.mode = "extended"
  <2>1. <<p.target>> \in OptionalByte /\ <<p.target>> # <<>>
        /\ <<p.source>> \in OptionalByte /\ <<p.source>> # <<>>
    BY <1>1, <1>2
  <2> QED BY ONLY <1>6, <1>8, <2>1 DEF a
<1>9. CASE p.mode \in {"mixed_11", "mixed_29"}
  <2>1. <<p.extension>> \in OptionalByte /\ <<p.extension>> # <<>>
    BY <1>1, <1>2
  <2>2. a.tx_addr = <<p.extension>> /\ a.rx_addr = <<p.extension>>
    BY ONLY <1>6, <1>9
  <2>3. p.mode \notin {"normal", "normal_fixed_29", "peer"}
    BY ONLY <1>9
  <2>4. /\ a.tx_addr \in OptionalByte /\ a.rx_addr \in OptionalByte
        /\ a.tx_addr # <<>> /\ a.rx_addr # <<>>
    BY ONLY <2>1, <2>2
  <2> QED BY ONLY <2>3, <2>4 DEF a
<1> QED BY ONLY <1>1, <1>7, <1>8, <1>9 DEF Modes, FixedModes

(* Every constructor yields an address the builder accepts, unless the      *)
(* station is its own partner.                                             *)
LEMMA BuiltUnlessSelf ==
    ASSUME NEW p \in Stations
    PROVE  /\ ValidAddress(AddressOf(p)) <=> ~Partners(p, p)
           /\ ValidAddress(AddressOf(p)) <=> ~Reaches(p, p)
<1> DEFINE a == AddressOf(p)
<1>1. Partners(p, p) <=> Reaches(p, p) /\ Answered(p, p)
  BY PartnersReach DEF Alike
<1>2. a.tx_addr = <<>> <=> a.rx_addr = <<>>
  BY AddressShape
<1>3. /\ Reaches(p, p) <=> a.tx_id = a.rx_id /\ a.tx_addr = a.rx_addr
      /\ Answered(p, p) <=> a.tx_id = a.rx_id /\ a.tx_addr = a.rx_addr
  BY DEF Reaches, Answered
<1>4. ValidAddress(a) <=> (a.tx_id = a.rx_id =>
          a.tx_addr # <<>> /\ a.rx_addr # <<>> /\ a.tx_addr # a.rx_addr)
  BY DEF ValidAddress
<1> HIDE DEF a
<1>5. ValidAddress(a) <=> ~Reaches(p, p)
  BY ONLY <1>2, <1>3, <1>4, Zenon
<1>6. Partners(p, p) <=> Reaches(p, p)
  BY ONLY <1>1, <1>3, Zenon
<1> QED BY ONLY <1>5, <1>6 DEF a

(* Who hears a frame of p that starts with the addressing byte of p.       *)
LEMMA WhoHears ==
    ASSUME NEW p \in Stations, NEW q \in Stations, NEW bytes,
           AddressOf(p).tx_addr # <<>> => SubSeq(bytes, 1, 1) = AddressOf(p).tx_addr
    PROVE  /\ Reaches(p, q) => Hears(AddressOf(q), AddressOf(p).tx_id, bytes)
           /\ Alike(p, q) /\ Hears(AddressOf(q), AddressOf(p).tx_id, bytes) => Reaches(p, q)
<1> DEFINE a == AddressOf(p)
           b == AddressOf(q)
           first == SubSeq(bytes, 1, 1)
<1>1. Hears(b, a.tx_id, bytes) <=> a.tx_id = b.rx_id /\ (b.rx_addr # <<>> => first = b.rx_addr)
  BY DEF Hears
<1>2. Reaches(p, q) <=> a.tx_id = b.rx_id /\ a.tx_addr = b.rx_addr
  BY DEF Reaches
<1>3. a.tx_addr # <<>> => first = a.tx_addr
  OBVIOUS
<1>4. Alike(p, q) /\ a.tx_id = b.rx_id => (a.tx_addr = <<>> <=> b.rx_addr = <<>>)
  <2> SUFFICES ASSUME Alike(p, q), a.tx_id = b.rx_id
               PROVE  a.tx_addr = <<>> <=> b.rx_addr = <<>>
    OBVIOUS
  <2>1. /\ a.tx_addr = <<>> <=> p.mode \in {"normal", "normal_fixed_29", "peer"}
        /\ b.rx_addr = <<>> <=> q.mode \in {"normal", "normal_fixed_29", "peer"}
    BY AddressShape
  <2>2. CASE p.mode = q.mode
    BY <2>1, <2>2
  <2>3. CASE p.mode \in FixedModes /\ q.mode \in FixedModes
    <3>1. FixedKind(p) = FixedKind(q)
      BY <2>3, FixedReach
    <3> HIDE DEF a, b
    <3> QED BY ONLY <2>1, <2>3, <3>1 DEF FixedKind, FixedModes
  <2> QED BY <2>2, <2>3 DEF Alike
<1> HIDE DEF a, b, first
<1>5. /\ Reaches(p, q) => Hears(b, a.tx_id, bytes)
      /\ Alike(p, q) /\ Hears(b, a.tx_id, bytes) => Reaches(p, q)
  BY ONLY <1>1, <1>2, <1>3, <1>4, Zenon
<1> QED BY ONLY <1>5 DEF a, b

(* Partners are of a like mode.                                            *)
LEMMA PartnersAlike ==
    ASSUME NEW p \in Stations, NEW q \in Stations, Partners(p, q)
    PROVE  Alike(p, q)
<1>1. p.mode \in Modes
  BY StationTypes
<1>2. /\ p.mode = "normal" => q.mode = "normal"
      /\ p.mode = "extended" => q.mode = "extended"
      /\ p.mode = "mixed_11" => q.mode = "mixed_11"
      /\ p.mode \in FixedModes => q.mode \in FixedModes
  BY PartnersAre
<1> QED BY ONLY <1>1, <1>2 DEF Modes, FixedModes, Alike

(* What becomes of a greeting, put into the terms of OnlyPartnersMeet.     *)
LEMMA GreetingHeard ==
    ASSUME NEW p \in Stations, NEW q \in Stations, NEW bytes,
           AddressOf(p).tx_addr # <<>> => SubSeq(bytes, 1, 1) = AddressOf(p).tx_addr,
           NEW taken, taken <=> /\ ValidAddress(AddressOf(p)) /\ ValidAddress(AddressOf(q))
                                /\ Hears(AddressOf(q), AddressOf(p).tx_id, bytes)
    PROVE  /\ ValidAddress(AddressOf(p)) /\ Partners(p, q) =>
                 /\ taken /\ Answered(p, q)
                 /\ AddressOf(q).rx_addr = AddressOf(p).tx_addr
           /\ Alike(p, q) /\ taken =>
                 p # q /\ (Partners(p, q) \/ (p.mode \notin FixedModes /\ ~Answered(p, q)))
<1> DEFINE a == AddressOf(p)
           b == AddressOf(q)
<1>1. /\ Reaches(p, q) => Hears(b, a.tx_id, bytes)
      /\ Alike(p, q) /\ Hears(b, a.tx_id, bytes) => Reaches(p, q)
  BY WhoHears
<1>2. Alike(p, q) => /\ Partners(p, q) <=> Reaches(p, q) /\ Answered(p, q)
                     /\ p.mode \in FixedModes => (Reaches(p, q) <=> Answered(p, q))
  BY PartnersReach
<1>3. Partners(p, q) => Alike(p, q)
  BY PartnersAlike
<1>4. ValidAddress(a) <=> ~Reaches(p, p)
  BY BuiltUnlessSelf
<1>5. ASSUME ValidAddress(a), Reaches(p, q), Answered(p, q)
      PROVE  ValidAddress(b) /\ b.rx_addr = a.tx_addr
  BY <1>5 DEF ValidAddress, Reaches, Answered
<1>6. taken <=> ValidAddress(a) /\ ValidAddress(b) /\ Hears(b, a.tx_id, bytes)
  OBVIOUS
<1> HIDE DEF a, b
<1>7. ASSUME ValidAddress(a), Partners(p, q)
      PROVE  taken /\ Answered(p, q) /\ b.rx_addr = a.tx_addr
  <2>1. Alike(p, q)
    BY ONLY <1>3, <1>7
  <2>2. Reaches(p, q) /\ Answered(p, q)
    BY ONLY <1>2, <1>7, <2>1
  <2>3. Hears(b, a.tx_id, bytes)
    BY ONLY <1>1, <2>2
  <2>4. ValidAddress(b) /\ b.rx_addr = a.tx_addr
    BY ONLY <1>5, <1>7, <2>2
  <2>5. taken
    BY ONLY <1>6, <1>7, <2>3, <2>4
  <2> QED BY ONLY <2>2, <2>4, <2>5
<1>8. ASSUME Alike(p, q), taken
      PROVE  p # q /\ (Partners(p, q) \/ (p.mode \notin FixedModes /\ ~Answered(p, q)))
  <2>1. Reaches(p, q) /\ ~Reaches(p, p)
    BY ONLY <1>1, <1>4, <1>6, <1>8
  <2>2. ASSUME p = q PROVE FALSE
    BY ONLY <2>1, <2>2
  <2>3. p # q
    BY ONLY <2>2
  <2> QED BY ONLY <1>2, <1>8, <2>1, <2>3
<1> QED BY ONLY <1>7, <1>8 DEF a, b

(* The addressing byte comes first.                                        *)
LEMMA AddressFirst ==
    ASSUME NEW prefix \in OptionalByte, NEW padding \in OptionalByte, NEW frame_len \in Nat,
           NEW pdu, NEW body, Body(pdu, Len(prefix), frame_len) = body, body \in Seq(Nat),
           Len(prefix) + Len(body) <= frame_len
    PROVE  LET w == encode_with_prefix_sized(pdu, padding, prefix, frame_len)
           IN  w \in Seq(Nat) /\ SubSeq(w, 1, Len(prefix)) = prefix
<1> DEFINE w == encode_with_prefix_sized(pdu, padding, prefix, frame_len)
           used == prefix \o body
           room == frame_len - Len(used)
           pads == Fill(padding[1], room)
<1>1. prefix \in Seq(Nat) /\ Len(prefix) \in Nat /\ (padding # <<>> => padding[1] \in Nat)
  BY OptionalIsSeq
<1>2. used \in Seq(Nat) /\ Len(used) = Len(prefix) + Len(body)
  BY <1>1, Joined
<1>3. w = IF padding = <<>> THEN used ELSE used \o pads
  BY DEF encode_with_prefix_sized
<1>4. room \in Nat
  <2> HIDE DEF used
  <2> QED BY <1>1, <1>2
<1> HIDE DEF w, room
<1>5. ASSUME NEW rest \in Seq(Nat)
      PROVE  prefix \o rest \in Seq(Nat) /\ SubSeq(prefix \o rest, 1, Len(prefix)) = prefix
  <2> DEFINE none == <<>>
  <2>1. none \in Seq(Nat) /\ Len(none) = 0 /\ none \o prefix = prefix
    BY ONLY <1>1, EmptySeq, ConcatEmptySeq
  <2> HIDE DEF none
  <2>2. /\ none \o prefix \o rest \in Seq(Nat)
        /\ SubSeq(none \o prefix \o rest, Len(none) + 1, Len(none) + Len(prefix)) = prefix
    BY ONLY <1>1, <2>1, Slice
  <2> DEFINE first == Len(none) + 1
             last == Len(none) + Len(prefix)
  <2>3. first = 1 /\ last = Len(prefix)
    BY ONLY <1>1, <2>1
  <2>4. SubSeq(none \o prefix \o rest, first, last) = prefix
    BY ONLY <2>2
  <2> HIDE DEF first, last
  <2> QED BY ONLY <2>1, <2>2, <2>3, <2>4
<1>6. CASE padding = <<>>
  <2>1. w = prefix \o body
    BY ONLY <1>3, <1>6
  <2>2. body \in Seq(Nat)
    OBVIOUS
  <2> QED BY ONLY <1>5, <2>1, <2>2 DEF w
<1>7. CASE padding # <<>>
  <2>1. pads \in Seq(Nat)
    BY ONLY <1>1, <1>4, <1>7, FillIsSeq
  <2>2. w = (prefix \o body) \o pads
    BY ONLY <1>3, <1>7
  <2>3. body \in Seq(Nat)
    OBVIOUS
  <2> HIDE DEF pads, used
  <2>4. (prefix \o body) \o pads = prefix \o (body \o pads)
    BY ONLY <1>1, <2>1, <2>3, Assoc
  <2>5. body \o pads \in Seq(Nat)
    BY ONLY <2>1, <2>3, Joined
  <2> DEFINE rest == body \o pads
  <2>6. w = prefix \o rest /\ rest \in Seq(Nat)
    BY ONLY <2>2, <2>4, <2>5
  <2> HIDE DEF rest
  <2> QED BY ONLY <1>5, <2>6 DEF w
<1> QED BY <1>6, <1>7 DEF w

(* The greeting of OnlyPartnersMeet survives every frame length, padding   *)
(* and addressing byte.                                                    *)
LEMMA GreetingCrosses ==
    ASSUME NEW prefix \in OptionalByte, NEW padding \in OptionalByte, NEW frame_len \in 8..64
    PROVE  LET w == encode_with_prefix_sized(Greeting, padding, prefix, frame_len)
           IN  /\ decode_with_offset(w, Len(prefix)) = Greeting
               /\ prefix # <<>> => SubSeq(w, 1, 1) = prefix
<1> DEFINE data == <<62, 0>>
           w == encode_with_prefix_sized(Greeting, padding, prefix, frame_len)
           o == Len(prefix)
<1>1. frame_len \in Nat /\ 8 <= frame_len /\ frame_len <= 64
  OBVIOUS
<1>2. o \in 0..1 /\ (prefix # <<>> => o = 1)
  BY ONLY OptionalIsSeq
<1>3. data \in Seq(Nat) /\ Len(data) = 2
  BY ONLY TwoBytes
<1>4. Greeting = SingleFrame(data)
  BY ONLY TRUE DEF Greeting
<1> HIDE DEF data
<1>5. Encodable(SingleFrame(data), o, frame_len)
  <2>0. frame_len \in 8..64
    OBVIOUS
  <2>2. SingleFrame(data).kind = "SF" /\ SingleFrame(data).data = data
    BY ONLY TRUE DEF SingleFrame
  <2> HIDE DEF o
  <2>1. ~(2 > 7 - o)
    BY ONLY <1>2
  <2> QED BY ONLY <1>3, <2>0, <2>1, <2>2 DEF Encodable
<1>6. decode_with_offset(w, o) = Greeting
  <2>1. Len(data) > 0
    BY ONLY <1>3
  <2> QED BY ONLY <1>1, <1>3, <1>4, <1>5, <2>1, SingleDecodes
<1>7. Body(Greeting, o, frame_len) = <<2>> \o data
  <2>1. SingleFrame(data).kind = "SF" /\ SingleFrame(data).data = data
    BY ONLY TRUE DEF SingleFrame
  <2>2. 2 <= 7 - o
    BY ONLY <1>2
  <2> QED BY ONLY <1>3, <1>4, <2>1, <2>2 DEF Body
<1>8. <<2>> \o data \in Seq(Nat) /\ Len(<<2>> \o data) = 3
  <2>1. <<2>> \in Seq(Nat) /\ Len(<<2>>) = 1
    BY ONLY OneByte
  <2> DEFINE head == <<2>>
  <2> HIDE DEF head
  <2>2. head \in Seq(Nat) /\ Len(head) = 1
    BY ONLY <2>1 DEF head
  <2>3. head \o data \in Seq(Nat) /\ Len(head \o data) = 1 + 2
    BY ONLY <1>3, <2>2, Joined
  <2> QED BY ONLY <2>3 DEF head
<1>9. SubSeq(w, 1, o) = prefix
  <2> DEFINE body == <<2>> \o data
  <2>1. body \in Seq(Nat) /\ o + Len(body) <= frame_len /\ Body(Greeting, o, frame_len) = body
    BY ONLY <1>1, <1>2, <1>7, <1>8
  <2> HIDE DEF body
  <2> QED BY ONLY <1>1, <2>1, AddressFirst
<1>10. prefix # <<>> => SubSeq(w, 1, 1) = prefix
  <2> HIDE DEF w, o
  <2> QED BY ONLY <1>2, <1>9
<1> QED BY ONLY <1>6, <1>10

-----------------------------------------------------------------------------
(* A transfer, whatever the payload.                                       *)

(* What a configuration of the codec says to a session and to the machine  *)
(* of its peer: no padding of their own, no blocks, no pace.               *)
Plain(c) ==
    /\ c.frame_len \in Nat /\ 7 <= c.frame_len
    /\ c.padding = FALSE /\ c.block_size = 0 /\ c.st_min = 0
    /\ c.max_payload_len = 4095 /\ c.capacity = 4095

(* The session and the machine when k bytes are out, sn comes next.        *)
SessionOf(data, k, sn) ==
    [payload_len |-> Len(data), offset |-> k, next_sn |-> sn, block_size |-> 0,
     block_remaining |-> 0, st_min |-> 0, wait_count |-> 0, owner |-> data]

RxOf(data, k, sn) ==
    [state |-> "Receiving", content |-> SubSeq(data, 1, k), expected_len |-> Len(data),
     next_sn |-> sn, block_size |-> 0, block_remaining |-> 0]

(* A Single Frame is a payload.                                            *)
LEMMA ShortTaken ==
    ASSUME NEW c, Plain(c), NEW data \in Seq(Nat), Len(data) <= 4095
    PROVE  on_pdu(c, RxNew, SingleFrame(data))
               = Returns([RxNew EXCEPT !.content = data], "Completed")
<1>1. Room(c) = 4095 /\ ~(Len(data) > 4095)
  BY DEF Plain, Room, Lesser
<1> DEFINE pdu == SingleFrame(data)
<1>2. pdu.kind = "SF" /\ pdu.data = data
  BY ONLY TRUE DEF SingleFrame
<1>3. RxNew.state = "Idle"
  BY DEF RxNew
<1> HIDE DEF pdu
<1>4. on_pdu(c, RxNew, pdu) = handle_single(c, RxNew, pdu)
  BY ONLY <1>2 DEF on_pdu
<1>5. handle_single(c, RxNew, pdu) = Returns([RxNew EXCEPT !.content = data], "Completed")
  BY ONLY <1>1, <1>2, <1>3 DEF handle_single
<1> QED BY ONLY <1>4, <1>5 DEF pdu

(* A First Frame opens a transfer.                                         *)
LEMMA FirstAccepted ==
    ASSUME NEW c, Plain(c), NEW data \in Seq(Nat), NEW n \in Nat, Len(data) = n, Fits(n),
           NEW k \in Nat, max_first_frame_payload(c) = k, k <= n
    PROVE  on_pdu(c, RxNew, FirstFrameOf(c, data)) = Returns(RxOf(data, k, 1), "SendFlowControl")
<1>1. Room(c) = 4095 /\ ~(n > 4095)
  BY DEF Fits, Plain, Room, Lesser
<1> DEFINE pdu == FirstFrameOf(c, data)
           first == SubSeq(data, 1, k)
<1>2. pdu.kind = "FF" /\ pdu.data = first /\ pdu.len = n
  BY DEF FirstFrameOf, FirstFrame
<1>3. first \in Seq(Nat) /\ Len(first) = k
  BY PrefixOf
<1>4. RxNew.state = "Idle"
  BY DEF RxNew
<1> HIDE DEF pdu, first
<1>5. Lesser(Len(first), n) = k /\ SubSeq(first, 1, k) = first
  BY <1>3, WholeOf DEF Lesser
<1>6. on_pdu(c, RxNew, pdu) = handle_first(c, RxNew, pdu)
  BY ONLY <1>2 DEF on_pdu
<1>7. handle_first(c, RxNew, pdu)
          = Returns([state |-> "Receiving", content |-> first, expected_len |-> n,
                     next_sn |-> 1, block_size |-> c.block_size,
                     block_remaining |-> c.block_size], "SendFlowControl")
  BY ONLY <1>1, <1>2, <1>4, <1>5 DEF handle_first
<1>8. c.block_size = 0 /\ Len(data) = n
  BY DEF Plain
<1> QED BY ONLY <1>6, <1>7, <1>8 DEF RxOf, first, pdu

(* What a Consecutive Frame makes of it: of the bytes that come with it    *)
(* those that are left to come are taken, and padding never is.            *)
LEMMA ChunkTaken ==
    ASSUME NEW chunk \in Seq(Nat), NEW pads \in Seq(Nat), NEW l \in Nat,
           Lesser(Len(chunk \o pads), l) = Len(chunk)
    PROVE  SubSeq(chunk \o pads, 1, Lesser(Len(chunk \o pads), l)) = chunk
<1> DEFINE none == <<>>
<1>1. none \in Seq(Nat) /\ Len(none) = 0 /\ none \o chunk = chunk
  BY ONLY EmptySeq, ConcatEmptySeq
<1> HIDE DEF none
<1>2. SubSeq(none \o chunk \o pads, Len(none) + 1, Len(none) + Len(chunk)) = chunk
  BY ONLY <1>1, Slice
<1> DEFINE first == Len(none) + 1
           last == Len(none) + Len(chunk)
<1>3. first = 1 /\ last = Len(chunk)
  BY ONLY <1>1
<1>4. SubSeq(none \o chunk \o pads, first, last) = chunk
  BY ONLY <1>2
<1> HIDE DEF first, last
<1>5. SubSeq(chunk \o pads, 1, Len(chunk)) = chunk
  BY ONLY <1>1, <1>3, <1>4
<1>6. Lesser(Len(chunk \o pads), l) = Len(chunk)
  OBVIOUS
<1> QED BY ONLY <1>5, <1>6

(* The bytes that are out and the next ones.                               *)
LEMMA ChunkJoins ==
    ASSUME NEW c, c.frame_len \in Nat, c.padding = FALSE, NEW whole \in Seq(Nat),
           NEW k \in Nat, k < Len(whole), NEW s, SessionAt(s, k, Len(whole))
    PROVE  SubSeq(whole, 1, k) \o NextChunk(c, s, whole) = SubSeq(whole, 1, Reach(c, k, Len(whole)))
<1> DEFINE said == SubSeq(whole, 1, k)
           n == Len(whole)
           e == Reach(c, k, n)
           chunk == NextChunk(c, s, whole)
           together == said \o chunk
           S == Nat \cup {Pad}
<1>1. Padded(c, chunk) = chunk
  BY DEF Padded
<1>2. e \in k..n /\ chunk \in Seq(Nat) /\ Len(chunk) = e - k
  BY ChunkReach
<1>3. said \in Seq(Nat) /\ Len(said) = k
  BY PrefixOf
<1>4. Pad \in S /\ whole \in Seq(S)
  OBVIOUS
<1>5. said = SubSeq(whole, 1, k)
  OBVIOUS
<1> HIDE DEF S, said
<1>6. SubSeq(said \o Padded(c, NextChunk(c, s, whole)), 1,
             Lesser(Len(said \o Padded(c, NextChunk(c, s, whole))), Len(whole)))
          = SubSeq(whole, 1, Reach(c, k, Len(whole)))
  BY <1>4, <1>5, HeardSoFar
<1> HIDE DEF chunk, n, e
<1>7. together \in Seq(Nat) /\ Len(together) = k + (e - k)
  BY <1>2, <1>3, Joined
<1> HIDE DEF together
<1>8. SubSeq(together, 1, Lesser(Len(together), n)) = SubSeq(whole, 1, e)
  BY ONLY <1>1, <1>6 DEF chunk, n, e, together
<1>9. Len(together) = e /\ Lesser(Len(together), n) = e /\ n \in Nat
  BY <1>2, <1>7 DEF Lesser, n
<1>10. SubSeq(together, 1, e) = together
  BY ONLY <1>2, <1>7, <1>9, WholeOf
<1> QED BY ONLY <1>8, <1>9, <1>10 DEF together, e, n, chunk, said

Taken(c, whole, k, n, sn, e, pdu) ==
    LET r == on_pdu(c, RxOf(whole, k, sn), pdu)
        to == RxOf(whole, e, NextSn(sn))
    IN  /\ e < n => r = Returns(to, "None")
        /\ e >= n => r = Returns([to EXCEPT !.state = "Idle"], "Completed")

(* The receive machine takes the Consecutive Frame that continues what it  *)
(* has: the payload is complete if nothing is left, else it waits for the  *)
(* next number.                                                            *)
LEMMA NextAccepted ==
    ASSUME NEW c, Plain(c), NEW whole \in Seq(Nat), NEW n \in Nat, Len(whole) = n, Fits(n),
           NEW k \in Nat, k < n, NEW sn \in 0..15, NEW s, SessionAt(s, k, Len(whole)),
           NEW e, Reach(c, k, n) = e, NEW chunk, NextChunk(c, s, whole) = chunk,
           NEW pads \in Seq(Nat), e = n \/ Len(pads) = 0
    PROVE  Taken(c, whole, k, n, sn, e, ConsecutiveFrame(sn, chunk \o pads))
<1> DEFINE before == RxOf(whole, k, sn)
           data == chunk \o pads
           pdu == ConsecutiveFrame(sn, data)
           said == SubSeq(whole, 1, k)
           all == SubSeq(whole, 1, e)
           r == RxOf(whole, e, NextSn(sn))
<1>1. c.frame_len \in Nat /\ c.padding = FALSE /\ c.capacity = 4095
  BY DEF Plain
<1>2. /\ e \in k..n /\ chunk \in Seq(Nat) /\ Len(chunk) = e - k
  <2>1. /\ SessionAt(s, k, Len(whole)) /\ k < Len(whole) /\ Len(whole) = n
        /\ Reach(c, k, n) = e /\ NextChunk(c, s, whole) = chunk
    OBVIOUS
  <2>2. c.frame_len \in Nat
    BY ONLY <1>1
  <2>3. LET z == Reach(c, k, Len(whole))
            part == NextChunk(c, s, whole)
        IN  z \in k..Len(whole) /\ part \in Seq(Nat) /\ Len(part) = z - k
    <3>1. SessionAt(s, k, Len(whole)) /\ k < Len(whole)
      BY ONLY <2>1
    <3> QED BY ONLY <2>2, <3>1, ChunkReach
  <2> QED BY ONLY <2>1, <2>3
<1>3. /\ pdu.kind = "CF" /\ pdu.sn = sn /\ pdu.data = data
  BY ONLY TRUE DEF ConsecutiveFrame
<1>4. /\ before.state = "Receiving" /\ before.next_sn = sn /\ before.content = said
      /\ before.expected_len = Len(whole) /\ before.block_size = 0 /\ before.block_remaining = 0
  BY ONLY TRUE DEF RxOf
<1>5. said \in Seq(Nat) /\ Len(said) = k
  BY PrefixOf
<1>6. all \in Seq(Nat) /\ Len(all) = e
  <2>1. Len(whole) = n
    OBVIOUS
  <2>2. e \in 0..Len(whole)
    BY ONLY <1>2, <2>1
  <2> QED BY ONLY <2>2, PrefixOf
<1>7. said \o chunk = all
  <2>1. k < Len(whole) /\ Len(whole) = n /\ Reach(c, k, n) = e /\ NextChunk(c, s, whole) = chunk
    OBVIOUS
  <2>2. SubSeq(whole, 1, k) \o NextChunk(c, s, whole) = SubSeq(whole, 1, Reach(c, k, Len(whole)))
    <3>1. SessionAt(s, k, Len(whole)) /\ whole \in Seq(Nat) /\ k \in Nat
      OBVIOUS
    <3>2. c.frame_len \in Nat /\ c.padding = FALSE
      BY ONLY <1>1
    <3> QED BY ONLY <2>1, <3>1, <3>2, ChunkJoins
  <2> QED BY ONLY <2>1, <2>2
<1>8. Chunk(before, data) = chunk
  <2>0. Len(whole) = n /\ k < n /\ (e = n \/ Len(pads) = 0)
    OBVIOUS
  <2> HIDE DEF before, said, data
  <2>1. Chunk(before, data) = SubSeq(data, 1, Lesser(Len(data), n - k))
    BY ONLY <1>4, <1>5, <2>0 DEF Chunk
  <2>2. Len(chunk \o pads) = (e - k) + Len(pads)
    BY ONLY <1>2, Joined
  <2> DEFINE l == n - k
  <2>3. l \in Nat
    BY ONLY <2>0
  <2>4. Lesser(Len(data), l) = Len(chunk)
    <3> HIDE DEF l
    <3>1. Len(data) = (e - k) + Len(pads) /\ Len(pads) \in Nat
      BY ONLY <2>2 DEF data
    <3> HIDE DEF data
    <3> QED BY ONLY <1>2, <2>0, <3>1 DEF Lesser, l
  <2> HIDE DEF l
  <2>5. SubSeq(data, 1, Lesser(Len(data), l)) = chunk
    BY ONLY <1>2, <2>3, <2>4, ChunkTaken DEF data
  <2> QED BY ONLY <2>1, <2>5 DEF l
<1> DEFINE ext == Extended(before, data)
<1>9. /\ DOMAIN ext = DOMAIN before
      /\ ext.state = "Receiving" /\ ext.content = all /\ ext.expected_len = n
      /\ ext.block_size = 0
      /\ ext = r
  <2>0. Len(whole) = n
    OBVIOUS
  <2>1. ext = [before EXCEPT !.content = all, !.next_sn = NextSn(sn)]
    <3> HIDE DEF before, data, all, said
    <3> QED BY ONLY <1>4, <1>7, <1>8 DEF Extended, ext
  <2>2. ext = r
    <3> HIDE DEF ext, all
    <3> QED BY ONLY <2>1 DEF RxOf, all
  <2> QED BY ONLY <2>0, <2>1, <2>2 DEF RxOf
<1>10. on_pdu(c, before, pdu) = AfterChunk(ext)
  <2>0. Len(whole) = n /\ k < n /\ n <= 4095
    BY DEF Fits
  <2> HIDE DEF before, pdu, data, said, all, ext
  <2>1. on_pdu(c, before, pdu) = handle_consecutive(c, before, pdu)
    BY ONLY <1>3 DEF on_pdu
  <2>2. ~(Len(before.content) >= before.expected_len)
    BY ONLY <1>4, <1>5, <2>0
  <2>3. ~(Len(before.content \o Chunk(before, pdu.data)) > c.capacity)
    BY ONLY <1>1, <1>2, <1>3, <1>4, <1>6, <1>7, <1>8, <2>0
  <2> QED BY ONLY <1>3, <1>4, <2>1, <2>2, <2>3 DEF handle_consecutive, ext
<1>11. AfterChunk(ext) = IF e >= n THEN Returns([r EXCEPT !.state = "Idle"], "Completed")
                         ELSE Returns(r, "None")
  <2> HIDE DEF before, data, all, ext, r
  <2> QED BY ONLY <1>6, <1>9 DEF AfterChunk
<1> QED
  <2> HIDE DEF before, data, all, ext
  <2>1. e \in Nat /\ n \in Nat
    BY ONLY <1>2
  <2> QED BY <1>10, <1>11, <2>1 DEF Taken, before, data

(* The session after a frame.                                              *)
Kept(l, whole, k, sn) ==
    [payload_len |-> l, offset |-> k, next_sn |-> sn, block_size |-> 0,
     block_remaining |-> 0, st_min |-> 0, wait_count |-> 0, owner |-> whole]

(* The fields of a session change one at a time.                           *)
LEMMA OffsetMoves ==
    ASSUME NEW l, NEW whole, NEW k, NEW sn, NEW e
    PROVE  [Kept(l, whole, k, sn) EXCEPT !.offset = e] = Kept(l, whole, e, sn)
BY DEF Kept

(* The same of the number of the next frame.                               *)
LEMMA CountMoves ==
    ASSUME NEW l, NEW whole, NEW k, NEW sn, NEW succ
    PROVE  [Kept(l, whole, k, sn) EXCEPT !.next_sn = succ] = Kept(l, whole, k, succ)
BY DEF Kept

Moved(s, e, succ) == [s EXCEPT !.offset = e, !.next_sn = succ]

(* Both of them.                                                           *)
LEMMA SessionMoves ==
    ASSUME NEW whole, NEW k, NEW sn, NEW e, NEW succ
    PROVE  Moved(SessionOf(whole, k, sn), e, succ) = SessionOf(whole, e, succ)
<1> DEFINE s == SessionOf(whole, k, sn)
           l == Len(whole)
           mid == [s EXCEPT !.offset = e]
<1>1. s = Kept(l, whole, k, sn) /\ SessionOf(whole, e, succ) = Kept(l, whole, e, succ)
  BY DEF SessionOf, Kept
<1> HIDE DEF s, l
<1>2. [s EXCEPT !.offset = e, !.next_sn = succ] = [mid EXCEPT !.next_sn = succ]
  OBVIOUS
<1>3. mid = Kept(l, whole, e, sn)
  BY ONLY <1>1, OffsetMoves
<1> HIDE DEF mid
<1>4. [mid EXCEPT !.next_sn = succ] = Kept(l, whole, e, succ)
  BY ONLY <1>3, CountMoves
<1> QED BY ONLY <1>1, <1>2, <1>4 DEF Moved, s

(* continue_send: the next frame, and the session behind it.               *)
Continues(c, whole, k, n, sn, e) ==
    LET s == SessionOf(whole, k, sn)
        succ == NextSn(sn)
    IN  /\ SessionAt(s, k, Len(whole))
        /\ NextFrame(c, s, whole) = ConsecutiveFrame(sn, NextChunk(c, s, whole))
        /\ succ \in 0..15
        /\ e < n => AfterFrame(c, s, whole) = Sending(SessionOf(whole, e, succ), Timer(0))
        /\ e >= n => AfterFrame(c, s, whole) = TxIdle

(* What continue_send sends next, and where the session stands then.       *)
LEMMA NextSent ==
    ASSUME NEW c, Plain(c), NEW whole \in Seq(Nat), NEW n \in Nat, Len(whole) = n,
           NEW k \in Nat, k < n, NEW sn \in 0..15, NEW e, Reach(c, k, n) = e
    PROVE  Continues(c, whole, k, n, sn, e)
<1> DEFINE s == SessionOf(whole, k, sn)
           chunk == NextChunk(c, s, whole)
           after == NextSn(sn)
           onward == [s EXCEPT !.offset = @ + Len(NextChunk(c, s, whole)), !.next_sn = NextSn(@)]
<1>1. /\ DOMAIN s = SessionFields /\ s.payload_len = n /\ s.offset = k /\ s.next_sn = sn
      /\ s.block_size = 0 /\ s.block_remaining = 0 /\ s.st_min = 0
  BY DEF SessionOf, SessionFields
<1>2. SessionAt(s, k, Len(whole))
  BY <1>1 DEF SessionAt
<1>3. c.frame_len \in Nat /\ c.padding = FALSE
  BY DEF Plain
<1> HIDE DEF s
<1>4. e \in k..n /\ chunk \in Seq(Nat) /\ Len(chunk) = e - k
  <2>1. k < Len(whole) /\ Len(whole) = n /\ Reach(c, k, n) = e
    OBVIOUS
  <2> QED BY ONLY <1>2, <1>3, <2>1, ChunkReach
<1>5. sn % 16 = sn /\ NextSn(sn) \in 0..15
  <2>1. SnMod = 16
    BY CodecAssumption
  <2> QED BY ONLY <2>1 DEF NextSn
<1>6. NextFrame(c, s, whole) = ConsecutiveFrame(sn, chunk)
  <2>1. SnMod = 16
    BY CodecAssumption
  <2> HIDE DEF chunk
  <2>2. Padded(c, chunk) = chunk
    BY ONLY <1>3 DEF Padded
  <2> QED BY ONLY <1>1, <1>5, <2>1, <2>2 DEF NextFrame, chunk
<1> HIDE DEF chunk, after
<1>7. onward = SessionOf(whole, e, after)
  <2>1. k + Len(chunk) = e
    BY ONLY <1>4
  <2>2. onward = Moved(s, e, after)
    BY ONLY <1>1, <2>1 DEF Moved, chunk, after
  <2> HIDE DEF onward
  <2>3. Moved(s, e, after) = SessionOf(whole, e, after)
    BY ONLY SessionMoves DEF s
  <2> QED BY ONLY <2>2, <2>3
<1>8. onward.offset = e
  BY ONLY <1>7 DEF SessionOf
<1> HIDE DEF onward
<1>9. AfterFrame(c, s, whole) = IF e >= n THEN TxIdle ELSE Sending(onward, Timer(0))
  BY ONLY <1>1, <1>8 DEF AfterFrame, onward
<1>10. e \in Nat /\ n \in Nat
  BY ONLY <1>4
<1> QED
  <2>1. e < n => AfterFrame(c, s, whole) = Sending(SessionOf(whole, e, after), Timer(0))
    BY ONLY <1>7, <1>9, <1>10
  <2>2. e >= n => AfterFrame(c, s, whole) = TxIdle
    BY ONLY <1>9, <1>10
  <2> QED BY ONLY <1>2, <1>5, <1>6, <2>1, <2>2 DEF Continues, s, chunk, after

(* What configuration, addressing byte, padding and frame length have to   *)
(* do with each other.                                                     *)
Coded(c, prefix, padding, frame_len) ==
    /\ prefix \in OptionalByte /\ padding \in OptionalByte
    /\ frame_len \in Nat /\ 8 <= frame_len
    /\ Plain(c) /\ c.frame_len = frame_len - Len(prefix)

(* The next frame over the wire and into the machine of the peer.          *)
Arrives(c, prefix, padding, frame_len, whole, k, sn) ==
    LET pdu == NextFrame(c, SessionOf(whole, k, sn), whole)
        h == decode_with_offset(
                 encode_with_prefix_sized(pdu, padding, prefix, frame_len), Len(prefix))
        e == Reach(c, k, Len(whole))
    IN  /\ pdu.kind = "CF" /\ pdu = ConsecutiveFrame(sn, pdu.data)
        /\ pdu.data \in Seq(Nat)
        /\ h = ConsecutiveFrame(sn, pdu.data \o
                   Pads(padding, max_consecutive_frame_payload(c) - Len(pdu.data)))
        /\ e <= Len(whole) /\ e \in Nat
        /\ Taken(c, whole, k, Len(whole), sn, e, h)

(* The next Consecutive Frame arrives with its bytes, and with padding     *)
(* only behind the last of them, where the machine cuts it off.            *)
LEMMA NextCrosses ==
    ASSUME NEW c, NEW prefix, NEW padding, NEW frame_len, Coded(c, prefix, padding, frame_len),
           NEW whole \in Seq(Nat), Fits(Len(whole)), NEW k \in Nat, k < Len(whole), NEW sn \in 0..15
    PROVE  Arrives(c, prefix, padding, frame_len, whole, k, sn)
<1>1. PICK n \in Nat : Len(whole) = n
  OBVIOUS
<1>2. PICK s, pdu : s = SessionOf(whole, k, sn) /\ NextFrame(c, s, whole) = pdu
  OBVIOUS
<1>3. /\ prefix \in OptionalByte /\ padding \in OptionalByte
      /\ frame_len \in Nat /\ 8 <= frame_len
      /\ Plain(c) /\ c.frame_len = frame_len - Len(prefix)
  BY DEF Coded
<1>4. PICK o \in 0..1 : Len(prefix) = o
  BY ONLY <1>3, OptionalIsSeq
<1>5. k < n /\ Fits(n)
  BY <1>1
<1> DEFINE chunk == NextChunk(c, s, whole)
           e == Reach(c, k, n)
           m == max_consecutive_frame_payload(c)
           room == frame_len - (o + (1 + Len(chunk)))
           pads == Pads(padding, room)
           h == decode_with_offset(encode_with_prefix_sized(pdu, padding, prefix, frame_len), o)
<1>6. c.frame_len \in Nat /\ c.frame_len = frame_len - o
  BY ONLY <1>3, <1>4 DEF Plain
<1>7. SessionAt(s, k, Len(whole)) /\ pdu = ConsecutiveFrame(sn, chunk)
  <2>1. Plain(c) /\ Reach(c, k, n) = e
    BY ONLY <1>3
  <2> HIDE DEF e
  <2>2. Continues(c, whole, k, n, sn, e)
    BY ONLY <1>1, <1>5, <2>1, NextSent
  <2> QED BY ONLY <1>2, <2>2 DEF Continues
<1> HIDE DEF e
<1>8. e \in k..n /\ chunk \in Seq(Nat) /\ Len(chunk) = e - k
  <2>1. k < Len(whole) /\ Len(whole) = n /\ Reach(c, k, n) = e
    BY <1>1 DEF e
  <2>2. c.frame_len \in Nat
    BY ONLY <1>6
  <2> QED BY ONLY <1>7, <2>1, <2>2, ChunkReach
<1>9. m \in Nat /\ m = frame_len - o - 1 /\ e = IF k + m <= n THEN k + m ELSE n
  <2>1. 8 <= frame_len /\ o \in 0..1 /\ frame_len \in Nat
    BY <1>3
  <2>2. m = frame_len - o - 1
    BY ONLY <1>6, <2>1 DEF max_consecutive_frame_payload, Saturating
  <2> HIDE DEF m
  <2> QED BY ONLY <2>1, <2>2 DEF e, Reach, Lesser, m
<1> HIDE DEF chunk, m
<1>10. room \in Nat /\ room = m - Len(chunk) /\ (e = n \/ room = 0) /\ o + (1 + Len(chunk)) <= frame_len
  <2>1. frame_len \in Nat
    BY <1>3
  <2> QED BY ONLY <1>8, <1>9, <2>1
<1> HIDE DEF room
<1>11. pads \in Seq(Nat) /\ (e = n \/ Len(pads) = 0)
  BY ONLY <1>10, <1>3, PadsAreSeq
<1>12. h = ConsecutiveFrame(sn, chunk \o pads)
  <2>1. /\ Len(prefix) = o /\ 8 <= frame_len
        /\ prefix \in OptionalByte /\ padding \in OptionalByte /\ frame_len \in Nat
    BY <1>3, <1>4
  <2> HIDE DEF h
  <2>3. Len(prefix) + (1 + Len(chunk)) <= frame_len
    BY ONLY <1>10, <2>1
  <2>2. decode_with_offset(
            encode_with_prefix_sized(ConsecutiveFrame(sn, chunk), padding, prefix, frame_len),
            Len(prefix))
            = ConsecutiveFrame(sn, chunk \o
                  Pads(padding, frame_len - (Len(prefix) + (1 + Len(chunk)))))
    BY ONLY <1>8, <2>1, <2>3, ConsecutiveDecodes
  <2> QED BY ONLY <1>7, <2>1, <2>2 DEF h, pads, room
<1>13. pdu.kind = "CF" /\ pdu.sn = sn /\ pdu.data = chunk
  BY ONLY <1>7 DEF ConsecutiveFrame
<1> HIDE DEF pads, h
<1>14. Taken(c, whole, k, n, sn, e, h)
  <2>1. Plain(c) /\ Len(whole) = n /\ Fits(n) /\ k < n
    BY <1>1, <1>3, <1>5
  <2>2. Reach(c, k, n) = e /\ NextChunk(c, s, whole) = chunk
    BY DEF e, chunk
  <2>3. Taken(c, whole, k, n, sn, e, ConsecutiveFrame(sn, chunk \o pads))
    <3>1. SessionAt(s, k, Len(whole))
      BY ONLY <1>7
    <3> QED BY ONLY <1>11, <2>1, <2>2, <3>1, NextAccepted
  <2> QED BY ONLY <1>12, <2>3
<1>15. e \in Nat /\ e <= n
  BY ONLY <1>8
<1>16. pdu = ConsecutiveFrame(sn, pdu.data) /\ pdu.data \in Seq(Nat)
  BY ONLY <1>7, <1>8, <1>13
<1> QED BY ONLY <1>1, <1>2, <1>4, <1>10, <1>12, <1>13, <1>14, <1>15, <1>16 DEF Arrives, e, h, pads, m

-----------------------------------------------------------------------------
(* The steps of the specification.                                         *)

(* Payloads are bytes of the length asked for.                             *)
LEMMA PayloadIsSeq ==
    ASSUME NEW n \in Nat
    PROVE  Payload(n) \in Seq(Nat) /\ Len(Payload(n)) = n
<1> DEFINE p == Payload(n)
<1>1. p = [i \in 1..n |-> (37 * i + n) % 256]
  BY DEF Payload
<1>2. \A i \in 1..n : (37 * i + n) % 256 \in Nat
  <2> SUFFICES ASSUME NEW i \in 1..n PROVE (37 * i + n) % 256 \in Nat
    OBVIOUS
  <2> DEFINE x == 37 * i + n
  <2>1. x \in Int
    OBVIOUS
  <2> HIDE DEF x
  <2>2. x % 256 \in Nat
    BY ONLY <2>1
  <2> QED BY ONLY <2>2 DEF x
<1> HIDE DEF p
<1>3. p \in [1..n -> Nat]
  BY ONLY <1>1, <1>2
<1> QED BY ONLY <1>3 DEF p

(* What the types of a link say of its configuration.                      *)
LEMMA LinkFacts ==
    ASSUME link \in Links
    PROVE  /\ link.prefix \in OptionalByte /\ link.padding \in OptionalByte
           /\ link.frame_len \in Nat /\ 8 <= link.frame_len /\ link.frame_len <= 64
           /\ Len(link.prefix) \in 0..1
           /\ Plain(Config) /\ Config.frame_len = link.frame_len - Len(link.prefix)
<1>1. /\ link.prefix \in OptionalByte /\ link.padding \in OptionalByte
      /\ link.frame_len \in 8..64
  BY CodecAssumption DEF Links
<1>2. link.frame_len \in Nat /\ 8 <= link.frame_len /\ link.frame_len <= 64
  BY ONLY <1>1
<1>3. Len(link.prefix) \in 0..1
  BY ONLY <1>1, OptionalIsSeq
<1> DEFINE o == Len(link.prefix)
<1>4. /\ Config.frame_len = link.frame_len - o
      /\ Config.padding = FALSE /\ Config.block_size = 0 /\ Config.st_min = 0
      /\ Config.max_payload_len = 4095 /\ Config.capacity = 4095
  BY ONLY TRUE DEF Config
<1>5. Plain(Config)
  <2> DEFINE c == Config
  <2>1. /\ c.frame_len = link.frame_len - o
        /\ c.padding = FALSE /\ c.block_size = 0 /\ c.st_min = 0
        /\ c.max_payload_len = 4095 /\ c.capacity = 4095
    BY ONLY <1>4
  <2>2. o \in 0..1
    BY ONLY <1>3
  <2> HIDE DEF o, c
  <2>3. c.frame_len \in Nat /\ 7 <= c.frame_len
    <3>1. c.frame_len = link.frame_len - o
      BY ONLY <2>1
    <3> QED BY ONLY <1>2, <2>2, <3>1
  <2>4. Plain(c)
    BY ONLY <2>1, <2>3 DEF Plain
  <2> QED BY ONLY <2>4 DEF c
<1> QED BY ONLY <1>1, <1>2, <1>3, <1>4, <1>5

(* A payload in one Single Frame arrives and is complete.                  *)
LEMMA ShortCrosses ==
    ASSUME link \in Links, NEW data \in Seq(Nat),
           Len(data) <= max_single_frame_payload(Config),
           Len(data) > 0 \/ link.padding = <<>> \/ link.frame_len = 8,
           Encodable(SingleFrame(data), Len(link.prefix), link.frame_len),
           NEW h, h = decode_with_offset(Wire(SingleFrame(data)), Len(link.prefix))
    PROVE  /\ h = SingleFrame(data)
           /\ on_pdu(Config, RxNew, h) = Returns([RxNew EXCEPT !.content = data], "Completed")
<1>1. /\ link.prefix \in OptionalByte /\ link.padding \in OptionalByte
      /\ link.frame_len \in Nat /\ 8 <= link.frame_len
  BY LinkFacts
<1>2. Plain(Config) /\ Config.frame_len = link.frame_len - Len(link.prefix)
        /\ link.frame_len <= 64 /\ Len(link.prefix) \in 0..1
  BY LinkFacts
<1>3. h = SingleFrame(data)
  <2>1. /\ Len(data) > 0 \/ link.padding = <<>> \/ link.frame_len = 8
        /\ Encodable(SingleFrame(data), Len(link.prefix), link.frame_len)
    OBVIOUS
  <2>2. h = decode_with_offset(
            encode_with_prefix_sized(SingleFrame(data), link.padding, link.prefix, link.frame_len),
            Len(link.prefix))
    BY DEF Wire
  <2> QED BY ONLY <1>1, <2>1, <2>2, SingleDecodes
<1>4. Len(data) <= 4095
  <2>1. Len(data) <= max_single_frame_payload(Config) /\ Len(data) \in Nat
    OBVIOUS
  <2>2. max_single_frame_payload(Config) <= link.frame_len
    BY ONLY <1>1, <1>2 DEF max_single_frame_payload, Saturating
  <2>3. Config.frame_len \in Nat
    BY ONLY <1>2 DEF Plain
  <2>4. max_single_frame_payload(Config) \in Nat
    BY ONLY <2>3, FrameRoom
  <2> QED BY ONLY <1>1, <1>2, <2>1, <2>2, <2>4
<1> QED BY ONLY <1>2, <1>3, <1>4, ShortTaken

(* A First Frame opens the transfer: session and machine are behind its    *)
(* bytes.                                                                  *)
LEMMA FirstCrosses ==
    ASSUME link \in Links, NEW data \in Seq(Nat), NEW n \in Nat, Len(data) = n,
           n > max_single_frame_payload(Config), NEW pdu, FirstFrameOf(Config, data) = pdu,
           Encodable(pdu, Len(link.prefix), link.frame_len),
           NEW h, h = decode_with_offset(Wire(pdu), Len(link.prefix)),
           NEW k, max_first_frame_payload(Config) = k
    PROVE  /\ Fits(n) /\ k \in Nat /\ k < n /\ h = pdu
           /\ on_pdu(Config, RxNew, h) = Returns(RxOf(data, k, 1), "SendFlowControl")
           /\ NewSession(Config, data) = SessionOf(data, k, 1)
<1> DEFINE o == Len(link.prefix)
           first == SubSeq(data, 1, k)
<1>1. /\ link.prefix \in OptionalByte /\ link.padding \in OptionalByte
      /\ link.frame_len \in Nat /\ 8 <= link.frame_len
  BY LinkFacts
<1>2. Plain(Config) /\ Config.frame_len = link.frame_len - o /\ o \in 0..1
  BY LinkFacts
<1>3. Config.frame_len \in Nat /\ Config.block_size = 0 /\ Config.st_min = 0
  BY ONLY <1>2 DEF Plain
<1>4. k \in Nat /\ k < n /\ o + (2 + k) = link.frame_len
  <2>1. max_first_frame_payload(Config) = k /\ n > max_single_frame_payload(Config) /\ n \in Nat
    OBVIOUS
  <2>2. k \in Nat /\ k <= max_single_frame_payload(Config) /\ max_single_frame_payload(Config) \in Nat
    BY ONLY <1>3, <2>1, FrameRoom
  <2>3. k = link.frame_len - o - 2
    <3> HIDE DEF o
    <3> QED BY ONLY <1>1, <1>2, <2>1 DEF max_first_frame_payload, Saturating
  <2> HIDE DEF o
  <2> QED BY ONLY <1>1, <1>2, <2>1, <2>2, <2>3
<1>5. first \in Seq(Nat) /\ Len(first) = k
  <2>1. Len(data) = n
    OBVIOUS
  <2>2. k \in 0..Len(data)
    BY ONLY <1>4, <2>1
  <2> QED BY ONLY <2>2, PrefixOf
<1>6. pdu = FirstFrame(n, first)
  BY DEF FirstFrameOf
<1>7. Fits(n) /\ n > max_sf(link.frame_len, o)
  <2>1. pdu.kind = "FF" /\ pdu.len = n
    BY ONLY <1>6 DEF FirstFrame
  <2>2. Encodable(pdu, o, link.frame_len)
    OBVIOUS
  <2> HIDE DEF o
  <2> QED BY ONLY <2>1, <2>2 DEF Encodable, Fits
<1>8. h = FirstFrame(n, first)
  <2>1. Len(link.prefix) = o
    OBVIOUS
  <2>2. h = decode_with_offset(encode_with_prefix_sized(pdu, link.padding, link.prefix, link.frame_len), o)
    BY DEF Wire
  <2>3. o \in 0..1
    BY ONLY <1>2
  <2>4. Announces(n, link.prefix, first, link.frame_len)
    <3> HIDE DEF first
    <3>1. Len(link.prefix) + (2 + Len(first)) = link.frame_len
      BY ONLY <1>4, <1>5
    <3>2. Fits(n) /\ n > max_sf(link.frame_len, Len(link.prefix))
      BY ONLY <1>7
    <3> HIDE DEF o
    <3> QED BY ONLY <3>1, <3>2 DEF Announces
  <2> HIDE DEF o, first
  <2>5. decode_with_offset(
            encode_with_prefix_sized(FirstFrame(n, first), link.padding, link.prefix,
                                     link.frame_len), Len(link.prefix)) = FirstFrame(n, first)
    BY ONLY <1>1, <1>5, <2>4, FirstDecodes
  <2> QED BY ONLY <1>6, <2>1, <2>2, <2>5
<1>9. on_pdu(Config, RxNew, h) = Returns(RxOf(data, k, 1), "SendFlowControl")
  <2>1. Len(data) = n /\ FirstFrameOf(Config, data) = pdu /\ max_first_frame_payload(Config) = k
    OBVIOUS
  <2>2. k <= n
    BY ONLY <1>4
  <2> QED BY ONLY <1>2, <1>4, <1>6, <1>7, <1>8, <2>1, <2>2, FirstAccepted
<1>10. NewSession(Config, data) = SessionOf(data, k, 1)
  <2>1. max_first_frame_payload(Config) = k
    OBVIOUS
  <2> QED BY ONLY <1>3, <2>1 DEF NewSession, SessionOf
<1> QED BY ONLY <1>4, <1>6, <1>7, <1>8, <1>9, <1>10

(* The transfer of data is open: session and machine are at the same byte. *)
Opened(data, session, machine) ==
    \E k \in Nat, sn \in 0..15 :
        /\ k < Len(data) /\ Fits(Len(data))
        /\ session = SessionOf(data, k, sn) /\ machine = RxOf(data, k, sn)

(* The next frame of an open transfer arrives, and the transfer is open    *)
(* again or the payload is complete.                                       *)
Passes(c, prefix, padding, frame_len, whole, s, machine) ==
    LET pdu == NextFrame(c, s, whole)
        h == decode_with_offset(
                 encode_with_prefix_sized(pdu, padding, prefix, frame_len), Len(prefix))
        r == on_pdu(c, machine, h)
        t == AfterFrame(c, s, whole)
    IN  /\ pdu.kind = "CF"
        /\ padding # <<>> =>
              h = ConsecutiveFrame(pdu.sn, pdu.data \o
                      Fill(padding[1], max_consecutive_frame_payload(c) - Len(pdu.data)))
        /\ padding = <<>> => h = pdu
        /\ \/ t.state = "Idle" /\ r.out = "Completed" /\ r.rx.content = whole
           \/ t.state = "Sending" /\ r.out = "None" /\ Opened(whole, t.session, r.rx)

(* Each frame keeps an open transfer open, or completes it at both ends.   *)
LEMMA NextPasses ==
    ASSUME NEW c, NEW prefix, NEW padding, NEW frame_len, Coded(c, prefix, padding, frame_len),
           NEW whole \in Seq(Nat), NEW s, NEW machine, Opened(whole, s, machine)
    PROVE  Passes(c, prefix, padding, frame_len, whole, s, machine)
<1>1. PICK k \in Nat, sn \in 0..15 :
          /\ k < Len(whole) /\ Fits(Len(whole))
          /\ s = SessionOf(whole, k, sn) /\ machine = RxOf(whole, k, sn)
  BY DEF Opened
<1>2. PICK n \in Nat : Len(whole) = n
  OBVIOUS
<1>3. PICK pdu : NextFrame(c, s, whole) = pdu
  OBVIOUS
<1>4. /\ prefix \in OptionalByte /\ padding \in OptionalByte
      /\ frame_len \in Nat /\ 8 <= frame_len
      /\ Plain(c) /\ c.frame_len = frame_len - Len(prefix)
  BY DEF Coded
<1>5. PICK o \in 0..1 : Len(prefix) = o
  BY ONLY <1>4, OptionalIsSeq
<1>6. k < n /\ Fits(n)
  BY ONLY <1>1, <1>2
<1>7. c.frame_len = frame_len - o
  BY ONLY <1>4, <1>5
<1> DEFINE e == Reach(c, k, n)
           m == max_consecutive_frame_payload(c)
           h == decode_with_offset(encode_with_prefix_sized(pdu, padding, prefix, frame_len), o)
           r == on_pdu(c, machine, h)
           t == AfterFrame(c, s, whole)
<1>8. /\ pdu.kind = "CF" /\ pdu = ConsecutiveFrame(sn, pdu.data)
      /\ pdu.data \in Seq(Nat)
      /\ h = ConsecutiveFrame(sn, pdu.data \o Pads(padding, m - Len(pdu.data)))
      /\ e <= n /\ e \in Nat
      /\ Taken(c, whole, k, n, sn, e, h)
  <2>1. s = SessionOf(whole, k, sn)
    BY ONLY <1>1
  <2>2. Arrives(c, prefix, padding, frame_len, whole, k, sn)
    <3>1. Coded(c, prefix, padding, frame_len)
      OBVIOUS
    <3> QED BY ONLY <1>1, <3>1, NextCrosses
  <2> QED BY ONLY <1>2, <1>3, <1>5, <2>1, <2>2 DEF Arrives
<1>9. /\ NextSn(sn) \in 0..15
      /\ e < n => t = Sending(SessionOf(whole, e, NextSn(sn)), Timer(0))
      /\ e >= n => t = TxIdle
  <2>1. Reach(c, k, n) = e /\ Plain(c)
    BY ONLY <1>4
  <2> HIDE DEF e
  <2>2. Continues(c, whole, k, n, sn, e)
    BY ONLY <1>6, <1>2, <2>1, NextSent
  <2> QED BY ONLY <1>1, <2>2 DEF Continues
<1> HIDE DEF m, e, h, r, t
<1>10. pdu.sn = sn
  BY ONLY <1>8 DEF ConsecutiveFrame
<1>11. padding = <<>> => h = pdu
  <2> SUFFICES ASSUME padding = <<>> PROVE h = pdu
    OBVIOUS
  <2>1. Pads(padding, m - Len(pdu.data)) = <<>>
    BY DEF Pads
  <2>2. pdu.data \o <<>> = pdu.data
    BY ONLY <1>8, ConcatEmptySeq
  <2> QED BY ONLY <1>8, <2>1, <2>2
<1>12. padding # <<>> =>
           h = ConsecutiveFrame(pdu.sn, pdu.data \o Fill(padding[1], m - Len(pdu.data)))
  BY ONLY <1>8, <1>10 DEF Pads
<1>13. CASE e < n
  <2> DEFINE next == NextSn(sn)
  <2>1. t.state = "Sending" /\ t.session = SessionOf(whole, e, next)
    BY ONLY <1>9, <1>13 DEF Sending
  <2>2. r.out = "None" /\ r.rx = RxOf(whole, e, next)
    BY ONLY <1>1, <1>8, <1>13 DEF Taken, Returns, r
  <2>3. next \in 0..15 /\ e \in Nat /\ e < Len(whole) /\ Fits(Len(whole))
    BY ONLY <1>1, <1>8, <1>9, <1>13, <1>2
  <2> HIDE DEF next
  <2>4. Opened(whole, t.session, r.rx)
    BY ONLY <2>1, <2>2, <2>3 DEF Opened
  <2> QED BY ONLY <1>8, <1>11, <1>12, <2>1, <2>2, <2>4, <1>3, <1>5 DEF Passes, m, h, r, t
<1>14. CASE ~(e < n)
  <2> DEFINE to == RxOf(whole, e, NextSn(sn))
  <2>1. e = n
    BY ONLY <1>6, <1>8, <1>14
  <2>2. t.state = "Idle"
    BY ONLY <1>6, <1>9, <2>1 DEF TxIdle
  <2>3. r = Returns([to EXCEPT !.state = "Idle"], "Completed")
    BY ONLY <1>1, <1>6, <1>8, <2>1 DEF Taken, r
  <2>4. [to EXCEPT !.state = "Idle"].content = SubSeq(whole, 1, e)
    BY ONLY TRUE DEF RxOf
  <2>5. SubSeq(whole, 1, e) = whole
    BY ONLY <1>2, <2>1, WholeOf
  <2>6. r.out = "Completed" /\ r.rx.content = whole
    BY ONLY <2>3, <2>4, <2>5 DEF Returns
  <2> QED BY ONLY <1>8, <1>11, <1>12, <2>2, <2>6, <1>3, <1>5 DEF Passes, m, h, r, t
<1> QED BY ONLY <1>13, <1>14

-----------------------------------------------------------------------------
(* The inductive invariant.                                                *)

(* An empty Single Frame has length 0 in its nibble, which is also the     *)
(* escape to the length in the next byte: what follows it in a CAN FD      *)
(* frame must not be padding.                                              *)
NoEmptyPadded ==
    0 \notin PayloadLens \/ Paddings \subseteq {<<>>} \/ FrameLens \subseteq {8}

Underway ==
    /\ tx.state \in {"Idle", "Sending"}
    /\ sent = Nothing => tx.state = "Idle" /\ rx = RxNew
    /\ tx.state = "Sending" => payload \in Seq(Nat) /\ Opened(payload, tx.session, rx)

CodecInv ==
    /\ link \in Links /\ Underway
    /\ NoEmptyPadded => WireIsFaithful /\ TransferIsExact
    /\ FirstFrameAnnouncesMore /\ StMinSurvives /\ OnlyPartnersMeet

(* Nothing was sent, heard or met.                                         *)
LEMMA CodecInit ==
    ASSUME Init
    PROVE  CodecInv
BY DEF Init, CodecInv, Underway, TxIdle, Nothing, WireIsFaithful, TransferIsExact,
       FirstFrameAnnouncesMore, StMinSurvives, OnlyPartnersMeet

(* Whatever is heard. *)
LEMMA StMinAlways == StMinSurvives
<1> SUFFICES ASSUME heard # Nothing, heard.kind = "FC", st_min_to_duration(heard.st_min, -1) # -1
             PROVE  duration_to_st_min(st_min_to_duration(heard.st_min, -1)) = heard.st_min
  BY DEF StMinSurvives
<1> QED BY StMinReturns

(* Whatever bytes it is decoded from. *)
LEMMA FirstHeardIsLonger ==
    ASSUME NEW w \in Seq(Nat), NEW o \in 0..1, heard' = decode_with_offset(w, o)
    PROVE  FirstFrameAnnouncesMore'
<1> SUFFICES ASSUME heard'.kind = "FF" PROVE heard'.len > Len(heard'.data)
  BY DEF FirstFrameAnnouncesMore
<1> QED BY FirstIsLonger

(* A frame that was encoded is decoded and processed. *)
LEMMA CrossesMeans ==
    ASSUME NEW pdu, Crosses(pdu)
    PROVE  LET h == decode_with_offset(Wire(pdu), Len(link.prefix))
               r == on_pdu(Config, rx, h)
           IN  /\ Encodable(pdu, Len(link.prefix), link.frame_len)
               /\ sent' = pdu /\ heard' = h /\ rx' = r.rx /\ out' = r.out
               /\ link' = link /\ met' = met
BY DEF Crosses

(* The configurations of the runs are ones validate() accepts.             *)
LEMMA LinkCoded ==
    ASSUME link \in Links
    PROVE  Coded(Config, link.prefix, link.padding, link.frame_len)
BY LinkFacts DEF Coded

(* A frame without hidden padding has only to be heard as it was sent.     *)
LEMMA FaithfulIf ==
    ASSUME link' = link, sent' = heard', sent'.kind # "CF"
    PROVE  WireIsFaithful'
BY DEF WireIsFaithful

(* Encoding and decoding do not touch who met.                             *)
LEMMA MetKept ==
    ASSUME met' = met, OnlyPartnersMeet
    PROVE  OnlyPartnersMeet'
BY DEF OnlyPartnersMeet

(* One step for each way the codec is used.                                *)
LEMMA ShortStep ==
    ASSUME CodecInv, SendShort
    PROVE  CodecInv'
<1>1. PICK n \in PayloadLens :
          /\ n <= max_single_frame_payload(Config)
          /\ payload' = Payload(n)
          /\ Crosses(SingleFrame(payload'))
  BY DEF SendShort
<1> DEFINE data == Payload(n)
           pdu == SingleFrame(data)
           h == decode_with_offset(Wire(pdu), Len(link.prefix))
<1>2. n \in Nat
  BY CodecAssumption
<1>3. data \in Seq(Nat) /\ Len(data) = n
  BY ONLY <1>2, PayloadIsSeq
<1>4. sent = Nothing /\ tx' = tx
  BY DEF SendShort, Fresh
<1>5. link \in Links /\ tx.state = "Idle" /\ rx = RxNew
  BY <1>4 DEF CodecInv, Underway
<1> HIDE DEF data
<1>6. /\ Encodable(pdu, Len(link.prefix), link.frame_len)
      /\ sent' = pdu /\ heard' = h
      /\ rx' = on_pdu(Config, rx, h).rx /\ out' = on_pdu(Config, rx, h).out
      /\ link' = link /\ met' = met
  <2>1. Crosses(pdu)
    BY <1>1 DEF data
  <2> QED BY ONLY <2>1, CrossesMeans
<1>7. NoEmptyPadded => Len(data) > 0 \/ link.padding = <<>> \/ link.frame_len = 8
  <2>1. link.padding \in Paddings /\ link.frame_len \in FrameLens
    BY <1>5 DEF Links
  <2>2. n # 0 => n > 0
    BY <1>2
  <2> QED BY <1>3, <2>1, <2>2 DEF NoEmptyPadded
<1>8. ASSUME NoEmptyPadded
      PROVE  /\ h = pdu
             /\ on_pdu(Config, RxNew, h) = Returns([RxNew EXCEPT !.content = data], "Completed")
  <2>1. Len(data) <= max_single_frame_payload(Config)
    BY <1>1, <1>3
  <2> QED BY ONLY <1>3, <1>5, <1>6, <1>7, <1>8, <2>1, ShortCrosses
<1>9. FirstFrameAnnouncesMore'
  <2>1. /\ link.prefix \in OptionalByte /\ link.padding \in OptionalByte
        /\ link.frame_len \in Nat /\ 8 <= link.frame_len
    BY <1>5, LinkFacts
  <2>2. Len(link.prefix) \in 0..1
    BY ONLY <2>1, OptionalIsSeq
  <2>3. Wire(pdu) \in Seq(Nat)
    BY ONLY <1>3, <1>6, <2>1, SingleDecodes DEF Wire
  <2> QED BY ONLY <1>6, <2>2, <2>3, FirstHeardIsLonger
<1> HIDE DEF h
<1>10. ASSUME NoEmptyPadded
      PROVE  out' = "Completed" /\ rx'.content = data
  <2>1. [RxNew EXCEPT !.content = data].content = data
    BY DEF RxNew
  <2> DEFINE taken == [RxNew EXCEPT !.content = data]
             r == on_pdu(Config, rx, h)
  <2> HIDE DEF taken
  <2>2. r = Returns(taken, "Completed")
    BY ONLY <1>5, <1>8, <1>10 DEF taken
  <2>3. rx' = r.rx /\ out' = r.out
    BY ONLY <1>6
  <2> HIDE DEF r
  <2>4. r.rx = taken /\ r.out = "Completed"
    BY ONLY <2>2 DEF Returns
  <2> QED BY ONLY <2>1, <2>3, <2>4 DEF taken
<1>11. pdu.kind = "SF" /\ pdu # Nothing
  BY DEF SingleFrame, Nothing
<1> HIDE DEF pdu
<1>12. ASSUME NoEmptyPadded PROVE WireIsFaithful'
  BY ONLY <1>6, <1>8, <1>11, <1>12, FaithfulIf
<1>13. ASSUME NoEmptyPadded PROVE TransferIsExact'
  <2>1. tx'.state = "Idle" /\ payload' = data
    BY <1>1, <1>4, <1>5 DEF data
  <2> QED BY ONLY <1>10, <1>13, <2>1 DEF TransferIsExact
<1>14. StMinSurvives'
  BY StMinAlways, PTL
<1>15. OnlyPartnersMeet'
  BY <1>6, MetKept DEF CodecInv
<1>16. link' \in Links' /\ Underway'
  <2>1. tx'.state = "Idle" /\ sent' # Nothing
    BY ONLY <1>4, <1>5, <1>6, <1>11
  <2>2. link' \in Links'
    BY ONLY <1>5, <1>6 DEF Links
  <2>3. Nothing' = Nothing
    BY DEF Nothing
  <2> QED BY ONLY <2>1, <2>2, <2>3 DEF Underway
<1>17. NoEmptyPadded' = NoEmptyPadded
  BY DEF NoEmptyPadded
<1> QED BY ONLY <1>12, <1>13, <1>9, <1>14, <1>15, <1>16, <1>17 DEF CodecInv

(* A payload that needs several frames starts.                             *)
LEMMA FirstStep ==
    ASSUME CodecInv, SendFirst
    PROVE  CodecInv'
<1>1. PICK n \in PayloadLens :
          /\ n > max_single_frame_payload(Config)
          /\ payload' = Payload(n)
          /\ Crosses(FirstFrameOf(Config, payload'))
          /\ tx' = Sending(NewSession(Config, payload'), 0)
  BY DEF SendFirst
<1> DEFINE data == Payload(n)
           pdu == FirstFrameOf(Config, data)
           h == decode_with_offset(Wire(pdu), Len(link.prefix))
           k == max_first_frame_payload(Config)
<1>2. n \in Nat
  BY CodecAssumption
<1>3. data \in Seq(Nat) /\ Len(data) = n
  BY ONLY <1>2, PayloadIsSeq
<1>4. sent = Nothing
  BY DEF SendFirst, Fresh
<1>5. link \in Links /\ rx = RxNew
  BY <1>4 DEF CodecInv, Underway
<1> HIDE DEF data
<1>6. /\ Encodable(pdu, Len(link.prefix), link.frame_len)
      /\ sent' = pdu /\ heard' = h
      /\ rx' = on_pdu(Config, rx, h).rx /\ out' = on_pdu(Config, rx, h).out
      /\ link' = link /\ met' = met
  <2>1. Crosses(pdu)
    BY <1>1 DEF data
  <2> QED BY ONLY <2>1, CrossesMeans
<1>7. pdu.kind = "FF" /\ pdu # Nothing /\ pdu.len = n
  BY <1>3 DEF FirstFrameOf, FirstFrame, Nothing
<1>8. /\ Fits(n) /\ k \in Nat /\ k < n /\ h = pdu
      /\ on_pdu(Config, RxNew, h) = Returns(RxOf(data, k, 1), "SendFlowControl")
      /\ NewSession(Config, data) = SessionOf(data, k, 1)
  <2>1. n > max_single_frame_payload(Config)
    BY <1>1
  <2> HIDE DEF pdu, h, k
  <2>2. FirstFrameOf(Config, data) = pdu /\ max_first_frame_payload(Config) = k
    BY DEF pdu, k
  <2>3. h = decode_with_offset(Wire(pdu), Len(link.prefix))
    BY DEF h
  <2> QED BY ONLY <1>2, <1>3, <1>5, <1>6, <2>1, <2>2, <2>3, FirstCrosses
<1>9. out' = "SendFlowControl" /\ rx' = RxOf(data, k, 1)
  <2> DEFINE r == on_pdu(Config, rx, h)
  <2> HIDE DEF pdu, k, h
  <2>1. r = Returns(RxOf(data, k, 1), "SendFlowControl")
    BY ONLY <1>5, <1>8
  <2>2. rx' = r.rx /\ out' = r.out
    BY ONLY <1>6
  <2> HIDE DEF r
  <2> QED BY ONLY <2>1, <2>2 DEF Returns
<1> HIDE DEF h, k, pdu
<1>10. tx'.state = "Sending" /\ tx'.session = SessionOf(data, k, 1) /\ payload' = data
  BY <1>1, <1>8 DEF Sending, data
<1>11. WireIsFaithful'
  BY ONLY <1>6, <1>7, <1>8, FaithfulIf
<1>12. TransferIsExact'
  BY ONLY <1>9, <1>10 DEF TransferIsExact
<1>13. FirstFrameAnnouncesMore'
  <2>1. pdu.data = SubSeq(data, 1, k) /\ k \in 0..Len(data)
    BY <1>3, <1>8 DEF pdu, k, FirstFrameOf, FirstFrame
  <2>2. Len(pdu.data) = k
    BY ONLY <1>3, <2>1, PrefixOf
  <2> QED BY ONLY <1>6, <1>7, <1>8, <2>2 DEF FirstFrameAnnouncesMore
<1>14. StMinSurvives'
  BY ONLY <1>6, <1>7, <1>8 DEF StMinSurvives
<1>15. OnlyPartnersMeet'
  BY <1>6, MetKept DEF CodecInv
<1>16. link' \in Links' /\ Underway'
  <2>1. sent' # Nothing
    BY ONLY <1>6, <1>7
  <2>2. link' \in Links'
    BY ONLY <1>5, <1>6 DEF Links
  <2>3. Nothing' = Nothing
    BY DEF Nothing
  <2>4. Opened(payload', tx'.session, rx')
    <3>1. k \in Nat /\ k < Len(data) /\ Fits(Len(data)) /\ 1 \in 0..15
      BY ONLY <1>3, <1>8
    <3> QED BY ONLY <1>9, <1>10, <3>1 DEF Opened
  <2>5. Underway'
    BY ONLY <1>3, <1>10, <2>1, <2>3, <2>4 DEF Underway
  <2> QED BY ONLY <2>2, <2>5
<1> QED BY ONLY <1>11, <1>12, <1>13, <1>14, <1>15, <1>16 DEF CodecInv

(* It goes on.                                                             *)
LEMMA NextStep ==
    ASSUME CodecInv, SendNext
    PROVE  CodecInv'
<1> DEFINE s == tx.session
           pdu == NextFrame(Config, s, payload)
           h == decode_with_offset(Wire(pdu), Len(link.prefix))
           r == on_pdu(Config, rx, h)
           t == AfterFrame(Config, s, payload)
<1>1. tx.state = "Sending" /\ Crosses(pdu) /\ tx' = t /\ payload' = payload
  BY DEF SendNext
<1>2. link \in Links /\ payload \in Seq(Nat) /\ Opened(payload, s, rx)
  BY <1>1 DEF CodecInv, Underway
<1>3. /\ sent' = pdu /\ heard' = h /\ rx' = r.rx /\ out' = r.out
      /\ link' = link /\ met' = met
  BY ONLY <1>1, CrossesMeans
<1>4. /\ pdu.kind = "CF"
      /\ link.padding # <<>> =>
            h = ConsecutiveFrame(pdu.sn, pdu.data \o
                    Fill(link.padding[1],
                         max_consecutive_frame_payload(Config) - Len(pdu.data)))
      /\ link.padding = <<>> => h = pdu
      /\ \/ t.state = "Idle" /\ r.out = "Completed" /\ r.rx.content = payload
         \/ t.state = "Sending" /\ r.out = "None" /\ Opened(payload, t.session, r.rx)
  <2>1. Passes(Config, link.prefix, link.padding, link.frame_len, payload, s, rx)
    <3>1. Coded(Config, link.prefix, link.padding, link.frame_len)
      BY ONLY <1>2, LinkCoded
    <3> HIDE DEF s
    <3> QED BY ONLY <1>2, <3>1, NextPasses
  <2> QED BY ONLY <2>1 DEF Passes, Wire
<1> HIDE DEF s, pdu, h, r, t
<1>5. pdu # Nothing /\ h.kind = "CF"
  <2>1. pdu # Nothing
    BY ONLY <1>4 DEF Nothing
  <2>2. h.kind = "CF"
    <3> DEFINE d == pdu.data \o Fill(link.padding[1],
                         max_consecutive_frame_payload(Config) - Len(pdu.data))
    <3>1. h = ConsecutiveFrame(pdu.sn, d) \/ h = pdu
      BY ONLY <1>4
    <3>2. ConsecutiveFrame(pdu.sn, d).kind = "CF"
      BY ONLY TRUE DEF ConsecutiveFrame
    <3> HIDE DEF d
    <3> QED BY ONLY <1>4, <3>1, <3>2
  <2> QED BY ONLY <2>1, <2>2
<1>6. Config' = Config /\ Nothing' = Nothing
  BY ONLY <1>3 DEF Config, Nothing
<1>7. WireIsFaithful'
  BY ONLY <1>3, <1>4, <1>6 DEF WireIsFaithful
<1>8. TransferIsExact'
  BY ONLY <1>1, <1>3, <1>4 DEF TransferIsExact
<1>9. FirstFrameAnnouncesMore' /\ StMinSurvives'
  BY ONLY <1>3, <1>5 DEF FirstFrameAnnouncesMore, StMinSurvives
<1>10. OnlyPartnersMeet'
  BY <1>3, MetKept DEF CodecInv
<1>11. link' \in Links' /\ Underway'
  <2>1. link' \in Links'
    BY ONLY <1>2, <1>3 DEF Links
  <2>2. Underway'
    BY ONLY <1>1, <1>2, <1>3, <1>4, <1>5, <1>6 DEF Underway
  <2> QED BY ONLY <2>1, <2>2
<1> QED BY ONLY <1>7, <1>8, <1>9, <1>10, <1>11 DEF CodecInv

(* Every Flow Control survives: three states, a block size, an STmin byte. *)
LEMMA AnswerStep ==
    ASSUME CodecInv, Answer
    PROVE  CodecInv'
<1>1. PICK status \in FlowStatus, raw \in StMins : Crosses(FlowControl(status, 8, raw))
  BY DEF Answer
<1> DEFINE pdu == FlowControl(status, 8, raw)
           h == decode_with_offset(Wire(pdu), Len(link.prefix))
           r == on_pdu(Config, rx, h)
<1>2. sent = Nothing /\ tx' = tx /\ payload' = payload
  BY DEF Answer, Fresh
<1>3. link \in Links /\ tx.state = "Idle"
  BY <1>2 DEF CodecInv, Underway
<1>4. sent' = pdu /\ heard' = h /\ link' = link /\ met' = met
  BY ONLY <1>1, CrossesMeans
<1>5. pdu.kind = "FC" /\ pdu # Nothing
  BY DEF FlowControl, Nothing
<1>6. h = pdu
  <2>1. /\ link.prefix \in OptionalByte /\ link.padding \in OptionalByte
        /\ link.frame_len \in Nat /\ 8 <= link.frame_len
    BY <1>3, LinkFacts
  <2>2. raw \in Nat /\ 8 \in Nat
    BY CodecAssumption
  <2>3. status \in FlowStatus
    OBVIOUS
  <2> QED BY ONLY <2>1, <2>2, <2>3, FlowControlDecodes DEF Wire
<1> HIDE DEF pdu, h
<1>7. WireIsFaithful'
  BY ONLY <1>4, <1>5, <1>6, FaithfulIf
<1>8. TransferIsExact' /\ FirstFrameAnnouncesMore'
  BY ONLY <1>4, <1>5, <1>6 DEF TransferIsExact, FirstFrameAnnouncesMore
<1>9. StMinSurvives'
  BY StMinAlways, PTL
<1>10. OnlyPartnersMeet'
  BY <1>4, MetKept DEF CodecInv
<1>11. link' \in Links' /\ Underway'
  <2>1. link' \in Links'
    BY ONLY <1>3, <1>4 DEF Links
  <2>2. Underway'
    <3>1. Nothing' = Nothing
      BY DEF Nothing
    <3> QED BY ONLY <1>2, <1>3, <1>4, <1>5, <3>1 DEF Underway
  <2> QED BY ONLY <2>1, <2>2
<1> QED BY ONLY <1>7, <1>8, <1>9, <1>10, <1>11 DEF CodecInv

(* Bytes nobody encoded decode to something or nothing.                    *)
LEMMA AnythingStep ==
    ASSUME CodecInv, HearAnything
    PROVE  CodecInv'
<1>1. PICK bytes \in RawFrames : heard' = decode_with_offset(bytes, Len(link.prefix))
  BY DEF HearAnything
<1>2. /\ link' = link /\ payload' = payload /\ tx' = tx /\ rx' = rx
      /\ sent' = sent /\ out' = out /\ met' = met /\ sent = Nothing
  BY DEF HearAnything, Fresh
<1>3. Nothing' = Nothing /\ Config' = Config
  BY <1>2 DEF Nothing, Config
<1>4. WireIsFaithful' /\ TransferIsExact'
  BY ONLY <1>2, <1>3 DEF WireIsFaithful, TransferIsExact
<1>5. FirstFrameAnnouncesMore'
  <2>1. bytes \in Seq(Nat)
    BY CodecAssumption
  <2>2. link \in Links
    BY DEF CodecInv
  <2>3. Len(link.prefix) \in 0..1
    BY <2>2, LinkFacts
  <2> QED BY ONLY <1>1, <2>1, <2>3, FirstHeardIsLonger
<1>6. StMinSurvives'
  BY StMinAlways, PTL
<1>7. OnlyPartnersMeet'
  BY <1>2, MetKept DEF CodecInv
<1>8. link' \in Links' /\ Underway'
  BY <1>2, <1>3 DEF CodecInv, Underway, Links
<1> QED BY ONLY <1>4, <1>5, <1>6, <1>7, <1>8 DEF CodecInv

(* One station speaks, another listens.                                    *)
LEMMA MeetStep ==
    ASSUME CodecInv, Meet
    PROVE  CodecInv'
<1>1. link \in Links
  BY DEF CodecInv
<1>2. PICK p \in Stations, q \in Stations :
          LET a == AddressOf(p)
              b == AddressOf(q)
              bytes == encode_with_prefix_sized(Greeting, link.padding, a.tx_addr, link.frame_len)
          IN  met' = [kind |-> "Met", p |-> p, q |-> q, built |-> ValidAddress(a),
                      heard |-> IF ValidAddress(a) /\ ValidAddress(b)
                                     /\ Hears(b, a.tx_id, bytes)
                                THEN decode_with_offset(bytes, Len(b.rx_addr))
                                ELSE Nothing]
  BY DEF Meet
<1> DEFINE a == AddressOf(p)
           b == AddressOf(q)
           bytes == encode_with_prefix_sized(Greeting, link.padding, a.tx_addr, link.frame_len)
           taken == ValidAddress(a) /\ ValidAddress(b) /\ Hears(b, a.tx_id, bytes)
           h == decode_with_offset(bytes, Len(b.rx_addr))
<1>3. /\ link' = link /\ payload' = payload /\ tx' = tx /\ rx' = rx
      /\ sent' = sent /\ heard' = heard /\ out' = out
  BY DEF Meet
<1>4. /\ met'.p = p /\ met'.q = q /\ met'.built = ValidAddress(a)
      /\ met'.heard = IF taken THEN h ELSE Nothing
  BY <1>2
<1>5. /\ decode_with_offset(bytes, Len(a.tx_addr)) = Greeting
      /\ a.tx_addr # <<>> => SubSeq(bytes, 1, 1) = a.tx_addr
  <2>1. a.tx_addr \in OptionalByte
    BY AddressShape
  <2>2. link.padding \in OptionalByte /\ link.frame_len \in 8..64
    BY <1>1, CodecAssumption DEF Links
  <2> HIDE DEF a
  <2> QED BY ONLY <2>1, <2>2, GreetingCrosses
<1>6. /\ ValidAddress(a) /\ Partners(p, q) =>
            taken /\ Answered(p, q) /\ b.rx_addr = a.tx_addr
      /\ Alike(p, q) /\ taken =>
            p # q /\ (Partners(p, q) \/ (p.mode \notin FixedModes /\ ~Answered(p, q)))
  <2>1. taken <=> ValidAddress(a) /\ ValidAddress(b) /\ Hears(b, a.tx_id, bytes)
    OBVIOUS
  <2> HIDE DEF taken, bytes
  <2> QED BY ONLY <1>5, <2>1, GreetingHeard
<1>7. ValidAddress(a) <=> ~Partners(p, p)
  BY BuiltUnlessSelf
<1> HIDE DEF a, b, bytes, taken, h
<1>8. OnlyPartnersMeet'
  <2>1. met'.built <=> ~Partners(p, p)
    BY ONLY <1>4, <1>7
  <2>2. met'.built /\ Partners(p, q) => met'.heard = Greeting /\ Answered(p, q)
    BY ONLY <1>4, <1>5, <1>6 DEF h
  <2>3. Alike(p, q) /\ met'.heard # Nothing =>
            p # q /\ (Partners(p, q) \/ (p.mode \notin FixedModes /\ ~Answered(p, q)))
    BY ONLY <1>4, <1>6
  <2> QED BY ONLY <1>4, <2>1, <2>2, <2>3 DEF OnlyPartnersMeet, Alike, Answered
<1>9. Nothing' = Nothing /\ Config' = Config
  BY <1>3 DEF Nothing, Config
<1>10. WireIsFaithful' /\ TransferIsExact' /\ FirstFrameAnnouncesMore' /\ StMinSurvives'
  <2>1. sent = Nothing
    BY DEF Meet, Fresh
  <2> QED BY <1>3, <1>9, <2>1
     DEF CodecInv, WireIsFaithful, TransferIsExact, FirstFrameAnnouncesMore, StMinSurvives
<1>11. link' \in Links' /\ Underway'
  BY <1>3, <1>9 DEF CodecInv, Underway, Links
<1> QED BY ONLY <1>8, <1>10, <1>11 DEF CodecInv

(* Nothing happens.                                                        *)
LEMMA StutterStep ==
    ASSUME CodecInv, UNCHANGED vars
    PROVE  CodecInv'
BY DEF vars, CodecInv, Underway, Links, Config, Nothing, WireIsFaithful, TransferIsExact,
       FirstFrameAnnouncesMore, StMinSurvives, OnlyPartnersMeet

(* The codec keeps its promises whatever is sent, heard or met. *)
THEOREM CodecInvariant == Spec => []CodecInv
<1>1. Init => CodecInv
  BY CodecInit
<1>2. CodecInv /\ [Next]_vars => CodecInv'
  <2> SUFFICES ASSUME CodecInv, [Next]_vars PROVE CodecInv'
    OBVIOUS
  <2>1. CASE SendShort
    BY <2>1, ShortStep
  <2>2. CASE SendFirst
    BY <2>2, FirstStep
  <2>3. CASE SendNext
    BY <2>3, NextStep
  <2>4. CASE Answer
    BY <2>4, AnswerStep
  <2>5. CASE HearAnything
    BY <2>5, AnythingStep
  <2>6. CASE Meet
    BY <2>6, MeetStep
  <2>7. CASE UNCHANGED vars
    BY <2>7, StutterStep
  <2> QED BY <2>1, <2>2, <2>3, <2>4, <2>5, <2>6, <2>7 DEF Next
<1> QED BY <1>1, <1>2, PTL DEF Spec

(* What the peer decodes is the PDU that was encoded.                      *)
THEOREM FramesSurviveTheWire ==
    ASSUME NoEmptyPadded
    PROVE  Spec => []WireIsFaithful
<1>1. CodecInv => WireIsFaithful
  BY DEF CodecInv
<1> QED BY <1>1, CodecInvariant, PTL

(* The last segment, and no earlier one, completes the payload.            *)
THEOREM PayloadsAreExact ==
    ASSUME NoEmptyPadded
    PROVE  Spec => []TransferIsExact
<1>1. CodecInv => TransferIsExact
  BY DEF CodecInv
<1> QED BY <1>1, CodecInvariant, PTL

(* No bytes decode to a First Frame that announces no more than it         *)
(* carries.                                                                *)
THEOREM FirstFramesAnnounceMore == Spec => []FirstFrameAnnouncesMore
<1>1. CodecInv => FirstFrameAnnouncesMore
  BY DEF CodecInv
<1> QED BY <1>1, CodecInvariant, PTL

(* No separation time is lost on the way to a duration and back.           *)
THEOREM SeparationTimesSurvive == Spec => []StMinSurvives
<1>1. CodecInv => StMinSurvives
  BY DEF CodecInv
<1> QED BY <1>1, CodecInvariant, PTL

(* Partners hear each other, and of the stations of a like mode nobody     *)
(* else does.                                                              *)
THEOREM PartnersMeet == Spec => []OnlyPartnersMeet
<1>1. CodecInv => OnlyPartnersMeet
  BY DEF CodecInv
<1> QED BY <1>1, CodecInvariant, PTL
=============================================================================
