----------------------------- MODULE SlotProofs -----------------------------
(***************************************************************************)
(* The slots of a demultiplexer together with its ring, for any number of  *)
(* stations: looking a station up, filling a slot, and keeping the ring    *)
(* and the rx_ready flags in step.  The proofs about the polling and the   *)
(* async demultiplexer both rest on these lemmas.                          *)
(***************************************************************************)
EXTENDS DemuxPeers, FiniteSetTheorems, SequenceTheorems, WellFoundedInduction, TLAPS

(* An index into the ring.  head never leaves the ring, so one turn at     *)
(* most has to be taken off.                                               *)
LEMMA RingIndex ==
    ASSUME NEW h \in 0..(MaxPeers - 1), NEW k \in 0..MaxPeers
    PROVE  (h + k) % MaxPeers = IF h + k < MaxPeers THEN h + k ELSE h + k - MaxPeers
<1>1. MaxPeers \in Nat \ {0}
  BY DemuxAssumption
<1> DEFINE c == h + k
           r == IF c < MaxPeers THEN c ELSE c - MaxPeers
           q == c \div MaxPeers
           m == c % MaxPeers
<1>2. c \in Nat /\ r \in 0..(MaxPeers - 1)
  BY <1>1
<1>3. c = MaxPeers * q + m /\ m \in 0..(MaxPeers - 1) /\ q \in Int
  BY <1>1, <1>2
<1>4. q < 2 /\ q > -1
  <2>1. q >= 2 => MaxPeers * q >= MaxPeers * 2
    BY <1>1, <1>3
  <2>2. q <= -1 => MaxPeers * q <= MaxPeers * (-1)
    BY <1>1, <1>3
  <2> QED BY <1>1, <1>2, <1>3, <2>1, <2>2
<1>5. q = 0 \/ q = 1
  BY <1>3, <1>4
<1>6. q = 0 => m = c
  BY <1>1, <1>2, <1>3
<1>7. q = 1 => m = c - MaxPeers
  BY <1>1, <1>2, <1>3
<1> QED BY <1>1, <1>2, <1>3, <1>5, <1>6, <1>7

(* Going on by one, at either end, and never meeting an earlier place.     *)
LEMMA RingStep ==
    ASSUME NEW h \in 0..(MaxPeers - 1), NEW k \in 0..(MaxPeers - 1)
    PROVE  /\ (h + k) % MaxPeers \in 0..(MaxPeers - 1)
           /\ (((h + k) % MaxPeers) + 1) % MaxPeers = (h + (k + 1)) % MaxPeers
           /\ (((h + 1) % MaxPeers) + k) % MaxPeers = (h + (k + 1)) % MaxPeers
<1>1. MaxPeers \in Nat \ {0}
  BY DemuxAssumption
<1>2. k \in 0..MaxPeers /\ k + 1 \in 0..MaxPeers /\ 1 \in 0..MaxPeers
  BY <1>1
<1> DEFINE here == (h + k) % MaxPeers
           next == (h + (k + 1)) % MaxPeers
           start == (h + 1) % MaxPeers
<1>3. here = IF h + k < MaxPeers THEN h + k ELSE h + k - MaxPeers
  BY <1>2, RingIndex
<1>4. next = IF h + (k + 1) < MaxPeers THEN h + (k + 1) ELSE h + (k + 1) - MaxPeers
  BY <1>2, RingIndex
<1>5. start = IF h + 1 < MaxPeers THEN h + 1 ELSE h + 1 - MaxPeers
  BY <1>2, RingIndex
<1>6. here \in 0..(MaxPeers - 1) /\ next \in 0..(MaxPeers - 1) /\ start \in 0..(MaxPeers - 1)
  BY <1>1, <1>3, <1>4, <1>5
<1> HIDE DEF here, next, start
<1>7. (here + 1) % MaxPeers = IF here + 1 < MaxPeers THEN here + 1 ELSE here + 1 - MaxPeers
  BY <1>2, <1>6, RingIndex
<1>8. (start + k) % MaxPeers = IF start + k < MaxPeers THEN start + k ELSE start + k - MaxPeers
  BY <1>2, <1>6, RingIndex
<1>9. (here + 1) % MaxPeers = next
  BY <1>1, <1>3, <1>4, <1>7
<1>10. (start + k) % MaxPeers = next
  BY <1>1, <1>4, <1>5, <1>8
<1> QED BY <1>6, <1>9, <1>10 DEF here, next, start

(* Entries fewer than a turn apart lie at different places.                *)
LEMMA RingDistinct ==
    ASSUME NEW h \in 0..(MaxPeers - 1), NEW k \in 0..(MaxPeers - 1),
           NEW l \in 0..(MaxPeers - 1), (h + k) % MaxPeers = (h + l) % MaxPeers
    PROVE  k = l
<1>1. MaxPeers \in Nat \ {0}
  BY DemuxAssumption
<1>2. k \in 0..MaxPeers /\ l \in 0..MaxPeers
  BY <1>1
<1>3. (h + k) % MaxPeers = IF h + k < MaxPeers THEN h + k ELSE h + k - MaxPeers
  BY <1>2, RingIndex
<1>4. (h + l) % MaxPeers = IF h + l < MaxPeers THEN h + l ELSE h + l - MaxPeers
  BY <1>2, RingIndex
<1> QED BY <1>1, <1>3, <1>4

-----------------------------------------------------------------------------
(* The k-th entry of the ring, counted from the oldest.                    *)
Entry(q, k) == q.buf[(q.head + k) % MaxPeers]

Ring == [buf : [0..(MaxPeers - 1) -> 0..MaxPeers], head : 0..(MaxPeers - 1),
         tail : 0..(MaxPeers - 1), len : 0..MaxPeers]

(* The ring holds the members of S, each once. *)
Holds(q, S) ==
    /\ q \in Ring
    /\ q.tail = (q.head + q.len) % MaxPeers
    /\ \A k \in 0..(q.len - 1) : Entry(q, k) \in S
    /\ \A k, l \in 0..(q.len - 1) : Entry(q, k) = Entry(q, l) => k = l
    /\ \A s \in S : \E k \in 0..(q.len - 1) : Entry(q, k) = s

(* ReadyQueue::new lists nothing.                                          *)
LEMMA EmptyHolds == Holds(EmptyQueue, {})
<1>1. MaxPeers \in Nat \ {0}
  BY DemuxAssumption
<1>2. (0 + 0) % MaxPeers = 0
  BY <1>1, RingIndex
<1> QED BY <1>1, <1>2 DEF Holds, Ring, EmptyQueue

(* The fields of a ring and their ranges.                                  *)
LEMMA RingType ==
    ASSUME NEW q \in Ring
    PROVE  /\ q.buf \in [0..(MaxPeers - 1) -> 0..MaxPeers]
           /\ q.head \in 0..(MaxPeers - 1) /\ q.tail \in 0..(MaxPeers - 1)
           /\ q.len \in 0..MaxPeers
           /\ MaxPeers \in Nat \ {0}
           /\ q = [buf |-> q.buf, head |-> q.head, tail |-> q.tail, len |-> q.len]
BY DemuxAssumption DEF Ring

(* Which fields push and pop change. *)
LEMMA RingRecord ==
    ASSUME NEW b, NEW h, NEW t, NEW n, NEW v, NEW q,
           q = [buf |-> b, head |-> h, tail |-> t, len |-> n]
    PROVE  /\ Pushed(q, v) = [buf |-> [b EXCEPT ![t] = v], head |-> h,
                              tail |-> (t + 1) % MaxPeers, len |-> n + 1]
           /\ Popped(q) = [buf |-> b, head |-> (h + 1) % MaxPeers, tail |-> t, len |-> n - 1]
<1>1. q.buf = b /\ q.head = h /\ q.tail = t /\ q.len = n
  OBVIOUS
<1>2. Pushed(q, v) = [q EXCEPT !.buf[t] = v, !.tail = (@ + 1) % MaxPeers, !.len = @ + 1]
  BY <1>1 DEF Pushed
<1>3. [q EXCEPT !.buf[t] = v] = [buf |-> [b EXCEPT ![t] = v], head |-> h, tail |-> t, len |-> n]
  OBVIOUS
<1>4. Popped(q) = [q EXCEPT !.head = (@ + 1) % MaxPeers, !.len = @ - 1]
  BY DEF Popped
<1> QED BY <1>1, <1>2, <1>3, <1>4

(* push adds its argument behind the others, unless the ring is full. *)
LEMMA PushHolds ==
    ASSUME NEW q, NEW S, Holds(q, S), q.len # MaxPeers,
           NEW v \in 0..MaxPeers, v \notin S
    PROVE  /\ Holds(Pushed(q, v), S \cup {v})
           /\ Pushed(q, v).len = q.len + 1
           /\ \A k \in 0..(q.len - 1) : Entry(Pushed(q, v), k) = Entry(q, k)
           /\ Entry(Pushed(q, v), q.len) = v
<1> DEFINE p == Pushed(q, v)
           n == q.len
           h == q.head
<1>1. q \in Ring /\ q.tail = (h + n) % MaxPeers
  BY DEF Holds
<1>2. /\ MaxPeers \in Nat \ {0} /\ n \in 0..(MaxPeers - 1) /\ h \in 0..(MaxPeers - 1)
      /\ q.tail \in 0..(MaxPeers - 1) /\ q.buf \in [0..(MaxPeers - 1) -> 0..MaxPeers]
  BY <1>1, RingType
<1>3. p = [buf |-> [q.buf EXCEPT ![q.tail] = v], head |-> h,
           tail |-> (q.tail + 1) % MaxPeers, len |-> n + 1]
  <2> DEFINE b == q.buf
             t == q.tail
  <2>1. q = [buf |-> b, head |-> h, tail |-> t, len |-> n]
    BY <1>1, RingType
  <2> HIDE DEF b, t, h, n
  <2>2. Pushed(q, v) = [buf |-> [b EXCEPT ![t] = v], head |-> h,
                        tail |-> (t + 1) % MaxPeers, len |-> n + 1]
    BY <2>1, RingRecord
  <2> QED BY <2>2 DEF p, b, t
<1>4. /\ p.buf = [q.buf EXCEPT ![q.tail] = v] /\ p.head = h
      /\ p.tail = (q.tail + 1) % MaxPeers /\ p.len = n + 1
  BY <1>3
<1> HIDE DEF p, n, h
<1>5. p.tail = (p.head + p.len) % MaxPeers /\ p.tail \in 0..(MaxPeers - 1)
  <2>1. (q.tail + 1) % MaxPeers = (h + (n + 1)) % MaxPeers
    BY <1>1, <1>2, RingStep
  <2>2. 0 \in 0..(MaxPeers - 1)
    BY <1>2
  <2>3. (q.tail + 1) % MaxPeers \in 0..(MaxPeers - 1)
    BY <1>2
  <2> QED BY <1>4, <2>1, <2>3
<1>6. p \in Ring
  <2>1. n + 1 \in 0..MaxPeers
    BY <1>2
  <2>2. [q.buf EXCEPT ![q.tail] = v] \in [0..(MaxPeers - 1) -> 0..MaxPeers]
    BY <1>2
  <2> QED BY <1>2, <1>3, <1>4, <1>5, <2>1, <2>2 DEF Ring
<1>7. \A k \in 0..(n - 1) : Entry(p, k) = Entry(q, k)
  <2> SUFFICES ASSUME NEW k \in 0..(n - 1)
               PROVE  Entry(p, k) = Entry(q, k)
    OBVIOUS
  <2>1. k \in 0..(MaxPeers - 1) /\ k # n
    BY <1>2
  <2>2. (h + k) % MaxPeers \in 0..(MaxPeers - 1) /\ (h + k) % MaxPeers # q.tail
    <3>1. (h + k) % MaxPeers \in 0..(MaxPeers - 1)
      BY <1>2, <2>1, RingStep
    <3>2. (h + k) % MaxPeers # (h + n) % MaxPeers
      BY <1>2, <2>1, RingDistinct
    <3> QED BY <1>1, <3>1, <3>2
  <2> DEFINE x == (h + k) % MaxPeers
  <2> HIDE DEF x
  <2>3. [q.buf EXCEPT ![q.tail] = v][x] = q.buf[x]
    BY <1>2, <2>2 DEF x
  <2> QED BY <1>4, <2>3 DEF Entry, x, h
<1>8. Entry(p, n) = v
  <2>1. [q.buf EXCEPT ![q.tail] = v][q.tail] = v
    BY <1>2
  <2> QED BY <1>1, <1>4, <2>1 DEF Entry
<1>9. 0..(p.len - 1) = (0..(n - 1)) \cup {n} /\ n \notin 0..(n - 1)
  <2>1. n \in Nat
    BY <1>2
  <2>2. p.len - 1 = n
    BY <1>4, <2>1
  <2>3. 0..n = (0..(n - 1)) \cup {n}
    BY <2>1
  <2>4. n \notin 0..(n - 1)
    BY <2>1
  <2> QED BY <2>2, <2>3, <2>4
<1>10. /\ \A k \in 0..(n - 1) : Entry(q, k) \in S
       /\ \A k, l \in 0..(n - 1) : Entry(q, k) = Entry(q, l) => k = l
       /\ \A s \in S : \E k \in 0..(n - 1) : Entry(q, k) = s
  BY DEF Holds, n
<1>11. \A k \in 0..(p.len - 1) : Entry(p, k) \in S \cup {v}
  BY <1>7, <1>8, <1>9, <1>10
<1>12. \A k, l \in 0..(p.len - 1) : Entry(p, k) = Entry(p, l) => k = l
  BY <1>7, <1>8, <1>9, <1>10
<1>13. \A s \in S \cup {v} : \E k \in 0..(p.len - 1) : Entry(p, k) = s
  BY <1>7, <1>8, <1>9, <1>10
<1>14. Holds(p, S \cup {v})
  BY <1>5, <1>6, <1>11, <1>12, <1>13 DEF Holds
<1> QED BY <1>4, <1>7, <1>8, <1>14 DEF p, n

(* pop takes the oldest member out; the others move up. *)
LEMMA PopHolds ==
    ASSUME NEW q, NEW S, Holds(q, S), q.len > 0
    PROVE  /\ Oldest(q) \in S /\ Oldest(q) = Entry(q, 0)
           /\ Holds(Popped(q), S \ {Oldest(q)})
           /\ Popped(q).len = q.len - 1
           /\ \A k \in 0..(q.len - 2) : Entry(Popped(q), k) = Entry(q, k + 1)
<1> DEFINE p == Popped(q)
           n == q.len
           h == q.head
<1>1. q \in Ring /\ q.tail = (h + n) % MaxPeers
  BY DEF Holds
<1>2. /\ MaxPeers \in Nat \ {0} /\ n \in 1..MaxPeers /\ h \in 0..(MaxPeers - 1)
      /\ q.tail \in 0..(MaxPeers - 1) /\ q.buf \in [0..(MaxPeers - 1) -> 0..MaxPeers]
  BY <1>1, RingType
<1>3. p = [buf |-> q.buf, head |-> (h + 1) % MaxPeers, tail |-> q.tail, len |-> n - 1]
  BY <1>1, RingType, RingRecord DEF p, n, h
<1>4. p.buf = q.buf /\ p.head = (h + 1) % MaxPeers /\ p.tail = q.tail /\ p.len = n - 1
  BY <1>3
<1> HIDE DEF p, n, h
<1>5. \A k \in 0..(n - 1) : (p.head + k) % MaxPeers = (h + (k + 1)) % MaxPeers
  <2> SUFFICES ASSUME NEW k \in 0..(n - 1)
               PROVE  (p.head + k) % MaxPeers = (h + (k + 1)) % MaxPeers
    OBVIOUS
  <2>1. k \in 0..(MaxPeers - 1)
    BY <1>2
  <2>2. (((h + 1) % MaxPeers) + k) % MaxPeers = (h + (k + 1)) % MaxPeers
    BY <1>2, <2>1, RingStep
  <2> QED BY <1>4, <2>2
<1>6. p.tail = (p.head + p.len) % MaxPeers
  <2>1. n - 1 \in 0..(n - 1) /\ (n - 1) + 1 = n
    BY <1>2
  <2>2. (p.head + (n - 1)) % MaxPeers = (h + ((n - 1) + 1)) % MaxPeers
    BY <1>5, <2>1
  <2> QED BY <1>1, <1>4, <2>1, <2>2
<1>7. p \in Ring
  <2>1. n - 1 \in 0..MaxPeers
    BY <1>2
  <2>2. (h + 1) % MaxPeers \in 0..(MaxPeers - 1)
    BY <1>2
  <2> QED BY <1>2, <1>3, <2>1, <2>2 DEF Ring
<1>8. \A k \in 0..(p.len - 1) :
          k + 1 \in 0..(n - 1) /\ k + 1 # 0 /\ Entry(p, k) = Entry(q, k + 1)
  <2> SUFFICES ASSUME NEW k \in 0..(p.len - 1)
               PROVE  k + 1 \in 0..(n - 1) /\ k + 1 # 0 /\ Entry(p, k) = Entry(q, k + 1)
    OBVIOUS
  <2>1. k \in 0..(n - 1) /\ k + 1 \in 0..(n - 1) /\ k + 1 # 0
    BY <1>2, <1>4
  <2> QED BY <1>4, <1>5, <2>1 DEF Entry, h
<1>9. Oldest(q) = Entry(q, 0) /\ 0 \in 0..(n - 1)
  <2>1. (h + 0) % MaxPeers = h
    <3>1. 0 \in 0..MaxPeers
      BY <1>2
    <3>2. (h + 0) % MaxPeers = IF h + 0 < MaxPeers THEN h + 0 ELSE h + 0 - MaxPeers
      BY <1>2, <3>1, RingIndex
    <3> QED BY <1>2, <3>2
  <2> QED BY <1>2, <2>1 DEF Oldest, Entry, h
<1>10. /\ \A k \in 0..(n - 1) : Entry(q, k) \in S
       /\ \A k, l \in 0..(n - 1) : Entry(q, k) = Entry(q, l) => k = l
       /\ \A s \in S : \E k \in 0..(n - 1) : Entry(q, k) = s
  BY DEF Holds, n
<1>11. \A k \in 0..(p.len - 1) : Entry(p, k) \in S \ {Oldest(q)}
  BY <1>8, <1>9, <1>10
<1>12. \A k, l \in 0..(p.len - 1) : Entry(p, k) = Entry(p, l) => k = l
  <2> SUFFICES ASSUME NEW k \in 0..(p.len - 1), NEW l \in 0..(p.len - 1),
                      Entry(p, k) = Entry(p, l)
               PROVE  k = l
    OBVIOUS
  <2>1. k + 1 = l + 1
    BY <1>8, <1>10
  <2> QED BY <1>2, <1>4, <2>1
<1>13. \A s \in S \ {Oldest(q)} : \E k \in 0..(p.len - 1) : Entry(p, k) = s
  <2> SUFFICES ASSUME NEW s \in S, s # Oldest(q)
               PROVE  \E k \in 0..(p.len - 1) : Entry(p, k) = s
    OBVIOUS
  <2>1. PICK l \in 0..(n - 1) : Entry(q, l) = s
    BY <1>10
  <2>2. l # 0
    BY <1>9, <2>1
  <2>3. l - 1 \in 0..(p.len - 1) /\ (l - 1) + 1 = l
    BY <1>2, <1>4, <2>2
  <2> QED BY <1>8, <2>1, <2>3
<1>14. Holds(p, S \ {Oldest(q)})
  BY <1>6, <1>7, <1>11, <1>12, <1>13 DEF Holds
<1>15. \A k \in 0..(n - 2) : Entry(p, k) = Entry(q, k + 1)
  <2>1. n - 2 = p.len - 1
    BY <1>2, <1>4
  <2> QED BY <1>8, <2>1
<1> QED BY <1>4, <1>9, <1>10, <1>14, <1>15 DEF p, n

-----------------------------------------------------------------------------
(* Looking a station up, and its slot. *)

(* Every set of naturals that has a member has a least one.                *)
LEMMA LeastOne ==
    ASSUME NEW I, I \subseteq Nat, I # {}
    PROVE  Min(I) \in I
<1> DEFINE R == OpToRel(<, Nat)
<1>1. PICK x \in I : \A y \in I : <<y, x>> \notin R
  BY NatLessThanWellFounded, WFMin
<1>2. \A y \in I : ~(y < x)
  BY <1>1 DEF OpToRel
<1>3. \A y \in I : x =< y
  BY <1>2
<1> QED BY <1>3 DEF Min

(* find_peer_index finds the station's slot, or there is none.             *)
LEMMA Found ==
    ASSUME NEW ps, Len(ps) \in Nat, NEW remote
    PROVE  LET i == find_peer_index(ps, remote)
           IN  \/ i = 0 /\ \A j \in 1..Len(ps) : ps[j].remote # remote
               \/ i \in 1..Len(ps) /\ ps[i].remote = remote
<1> DEFINE I == {j \in 1..Len(ps) : ps[j].remote = remote}
<1>1. find_peer_index(ps, remote) = IF I # {} THEN Min(I) ELSE 0
  BY DEF find_peer_index, SelectInSeq
<1>2. I \subseteq Nat
  OBVIOUS
<1>3. I # {} => Min(I) \in I
  BY <1>2, LeastOne
<1> QED BY <1>1, <1>3

-----------------------------------------------------------------------------
(* A sequence, whatever its elements are. *)
IsList(ps) == \E S : ps \in Seq(S)

(* What Len and DOMAIN are for a sequence of anything.                     *)
LEMMA ListLength ==
    ASSUME NEW ps, IsList(ps)
    PROVE  Len(ps) \in Nat /\ DOMAIN ps = 1..Len(ps)
BY LenProperties DEF IsList

(* Two lists with the same elements are the same.                          *)
LEMMA SameLists ==
    ASSUME NEW s, NEW t, IsList(s), IsList(t), Len(s) = Len(t),
           \A k \in 1..Len(s) : s[k] = t[k]
    PROVE  s = t
<1>1. PICK S : s \in Seq(S)
  BY DEF IsList
<1>2. PICK T : t \in Seq(T)
  BY DEF IsList
<1>3. s \in Seq(S \cup T) /\ t \in Seq(S \cup T)
  BY <1>1, <1>2, SeqMonotonic
<1> QED BY <1>3, SeqEqual

(* ts is ps with p at place i. *)
Replaced(ts, ps, i, p) ==
    /\ IsList(ts) /\ Len(ts) = Len(ps)
    /\ \A j \in 1..Len(ps) : ts[j] = IF j = i THEN p ELSE ps[j]

(* An update at one place.                                                 *)
LEMMA ListReplaced ==
    ASSUME NEW ps, IsList(ps), NEW i \in 1..Len(ps), NEW p,
           NEW ts, ts = [ps EXCEPT ![i] = p]
    PROVE  Replaced(ts, ps, i, p)
<1>1. PICK S : ps \in Seq(S)
  BY DEF IsList
<1>2. ps \in Seq(S \cup {p}) /\ p \in S \cup {p}
  BY <1>1, SeqMonotonic
<1>3. /\ ts \in Seq(S \cup {p}) /\ Len(ts) = Len(ps)
      /\ \A j \in 1..Len(ps) : ts[j] = IF j = i THEN p ELSE ps[j]
  BY <1>2, ExceptSeq
<1> QED BY <1>3 DEF IsList, Replaced

(* One more element at the end.                                            *)
LEMMA ListAppended ==
    ASSUME NEW ps, IsList(ps), NEW p
    PROVE  /\ IsList(Append(ps, p))
           /\ Len(Append(ps, p)) = Len(ps) + 1
           /\ Append(ps, p)[Len(ps) + 1] = p
           /\ \A j \in 1..Len(ps) : Append(ps, p)[j] = ps[j]
<1>1. PICK S : ps \in Seq(S)
  BY DEF IsList
<1>2. ps \in Seq(S \cup {p}) /\ p \in S \cup {p}
  BY <1>1, SeqMonotonic
<1>3. /\ Append(ps, p) \in Seq(S \cup {p})
      /\ Len(Append(ps, p)) = Len(ps) + 1
      /\ Append(ps, p)[Len(ps) + 1] = p
      /\ \A j \in 1..Len(ps) : Append(ps, p)[j] = ps[j]
  BY <1>2
<1> QED BY <1>3 DEF IsList

(* Outside its domain an update changes nothing.                           *)
LEMMA ListUntouched ==
    ASSUME NEW ps, IsList(ps), NEW i, i \notin 1..Len(ps), NEW p
    PROVE  [ps EXCEPT ![i] = p] = ps
<1>1. PICK S : ps \in Seq(S)
  BY DEF IsList
<1>2. ps \in [1..Len(ps) -> S]
  BY <1>1
<1> QED BY <1>2

-----------------------------------------------------------------------------
(* The station and the payload of a slot, as they are handed out. *)
Told(ps, i) == <<ps[i].remote, ps[i].rx.content>>

(* Waiting lists what the slots in the ring hold, oldest first.            *)
LEMMA WaitingList ==
    ASSUME NEW q, NEW S, Holds(q, S), NEW ps
    PROVE  /\ q.len \in Nat
           /\ DOMAIN Waiting(ps, q) = 1..q.len
           /\ \A k \in 1..q.len :
                 /\ k - 1 \in 0..(q.len - 1)
                 /\ Waiting(ps, q)[k] = Told(ps, Entry(q, k - 1))
           /\ IsList(Waiting(ps, q)) /\ Len(Waiting(ps, q)) = q.len
<1> DEFINE n == q.len
           w == Waiting(ps, q)
<1>1. n \in Nat /\ q.head \in Nat
  BY RingType DEF Holds
<1>2. w = [k \in 1..n |-> Told(ps, Queued(q)[k])]
  BY DEF Waiting, Told
<1>3. ASSUME NEW k \in 1..n
      PROVE  k - 1 \in 0..(n - 1) /\ w[k] = Told(ps, Entry(q, k - 1))
  <2>1. Queued(q)[k] = q.buf[(q.head + k - 1) % MaxPeers]
    BY DEF Queued
  <2>2. q.head + k - 1 = q.head + (k - 1) /\ k - 1 \in 0..(n - 1)
    BY <1>1
  <2>3. Queued(q)[k] = Entry(q, k - 1)
    BY <2>1, <2>2 DEF Entry
  <2> QED BY <1>2, <2>2, <2>3
<1> DEFINE W == {w[k] : k \in 1..n}
<1>4. DOMAIN w = 1..n /\ w \in [1..n -> W]
  BY <1>2
<1> HIDE DEF n, w, W
<1>5. w \in Seq(W) /\ Len(w) = n
  BY <1>1, <1>4
<1> QED BY <1>1, <1>3, <1>4, <1>5 DEF IsList, n, w

(* It depends on those slots only.                                         *)
LEMMA WaitingKept ==
    ASSUME NEW q, NEW S, Holds(q, S), NEW ps, NEW ts,
           \A i \in S : Told(ts, i) = Told(ps, i)
    PROVE  Waiting(ts, q) = Waiting(ps, q)
<1> DEFINE v == Waiting(ts, q)
           w == Waiting(ps, q)
<1>1. /\ DOMAIN v = 1..q.len /\ DOMAIN w = 1..q.len
      /\ \A k \in 1..q.len : /\ k - 1 \in 0..(q.len - 1)
                             /\ v[k] = Told(ts, Entry(q, k - 1))
                             /\ w[k] = Told(ps, Entry(q, k - 1))
  BY WaitingList
<1>2. \A k \in 0..(q.len - 1) : Entry(q, k) \in S
  BY DEF Holds
<1>3. \A k \in 1..q.len : v[k] = w[k]
  BY <1>1, <1>2
<1>4. v = [k \in 1..q.len |-> v[k]] /\ w = [k \in 1..q.len |-> w[k]]
  BY DEF Waiting
<1> HIDE DEF v, w
<1>5. v = w
  BY <1>3, <1>4
<1> QED BY <1>5 DEF v, w

(* A slot changes that is not in the ring, or keeps what it tells.         *)
LEMMA WaitingReplaced ==
    ASSUME NEW q, NEW S, Holds(q, S), NEW ps, NEW ts, NEW i, NEW p, Replaced(ts, ps, i, p),
           S \subseteq 1..Len(ps),
           i \in S => p.remote = ps[i].remote /\ p.rx.content = ps[i].rx.content
    PROVE  Waiting(ts, q) = Waiting(ps, q)
<1>1. \A j \in S : Told(ts, j) = Told(ps, j)
  <2> TAKE j \in S
  <2>1. ts[j] = IF j = i THEN p ELSE ps[j]
    BY DEF Replaced
  <2>2. CASE j = i
    BY <2>1, <2>2 DEF Told
  <2>3. CASE j # i
    BY <2>1, <2>3 DEF Told
  <2> QED BY <2>2, <2>3
<1> QED BY <1>1, WaitingKept

(* push puts a payload behind those that wait.                             *)
LEMMA WaitingPushed ==
    ASSUME NEW q, NEW S, Holds(q, S), q.len # MaxPeers,
           NEW v \in 0..MaxPeers, v \notin S, NEW ps
    PROVE  Waiting(ps, Pushed(q, v)) = Append(Waiting(ps, q), Told(ps, v))
<1> DEFINE p == Pushed(q, v)
           n == q.len
           w == Waiting(ps, q)
           u == Waiting(ps, p)
           a == Append(w, Told(ps, v))
<1>1. /\ Holds(p, S \cup {v}) /\ p.len = n + 1
      /\ \A k \in 0..(n - 1) : Entry(p, k) = Entry(q, k)
      /\ Entry(p, n) = v
  BY PushHolds
<1>2. /\ n \in Nat /\ IsList(w) /\ Len(w) = n
      /\ \A k \in 1..n : k - 1 \in 0..(n - 1) /\ w[k] = Told(ps, Entry(q, k - 1))
  BY WaitingList
<1>3. /\ IsList(u) /\ Len(u) = n + 1
      /\ \A k \in 1..(n + 1) : u[k] = Told(ps, Entry(p, k - 1))
  <2> HIDE DEF p, n
  <2>1. /\ IsList(u) /\ Len(u) = p.len
        /\ \A k \in 1..p.len : u[k] = Told(ps, Entry(p, k - 1))
    BY <1>1, WaitingList
  <2> QED BY <1>1, <2>1
<1>4. /\ IsList(a) /\ Len(a) = n + 1 /\ a[n + 1] = Told(ps, v)
      /\ \A k \in 1..n : a[k] = w[k]
  BY <1>2, ListAppended
<1> HIDE DEF p, n, w, u, a
<1>5. \A k \in 1..(n + 1) : u[k] = a[k]
  <2> SUFFICES ASSUME NEW k \in 1..(n + 1) PROVE u[k] = a[k]
    OBVIOUS
  <2>1. CASE k \in 1..n
    BY <1>1, <1>2, <1>3, <1>4, <2>1
  <2>2. CASE k = n + 1
    <3>1. k - 1 = n
      BY <1>2, <2>2
    <3> QED BY <1>1, <1>3, <1>4, <2>2, <3>1
  <2> QED BY <1>2, <2>1, <2>2
<1>6. u = a
  BY <1>2, <1>3, <1>4, <1>5, SameLists
<1> QED BY <1>6 DEF p, w, u, a

(* pop takes the oldest payload away.                                      *)
LEMMA WaitingPopped ==
    ASSUME NEW q, NEW S, Holds(q, S), q.len > 0, NEW ps
    PROVE  /\ Waiting(ps, q) # <<>>
           /\ Head(Waiting(ps, q)) = Told(ps, Oldest(q))
           /\ Waiting(ps, Popped(q)) = Tail(Waiting(ps, q))
<1> DEFINE p == Popped(q)
           n == q.len
           w == Waiting(ps, q)
           u == Waiting(ps, p)
<1>1. /\ Holds(p, S \ {Oldest(q)}) /\ p.len = n - 1
      /\ \A k \in 0..(n - 2) : Entry(p, k) = Entry(q, k + 1)
      /\ Oldest(q) = Entry(q, 0)
  BY PopHolds
<1>2. /\ n \in Nat /\ IsList(w) /\ Len(w) = n
      /\ \A k \in 1..n : w[k] = Told(ps, Entry(q, k - 1))
  BY WaitingList
<1>3. /\ IsList(u) /\ Len(u) = n - 1
      /\ \A k \in 1..(n - 1) : u[k] = Told(ps, Entry(p, k - 1))
  <2> HIDE DEF p, n
  <2>1. /\ IsList(u) /\ Len(u) = p.len
        /\ \A k \in 1..p.len : u[k] = Told(ps, Entry(p, k - 1))
    BY <1>1, WaitingList
  <2> QED BY <1>1, <2>1
<1>4. n > 0
  OBVIOUS
<1> HIDE DEF p, n, w, u
<1>5. w # <<>> /\ Head(w) = w[1] /\ IsList(Tail(w)) /\ Len(Tail(w)) = n - 1
      /\ \A k \in 1..(n - 1) : Tail(w)[k] = w[k + 1]
  <2>1. PICK W : w \in Seq(W)
    BY <1>2 DEF IsList
  <2>2. w # <<>>
    BY <1>2, <1>4, EmptySeq
  <2>3. /\ Head(w) = w[1] /\ Tail(w) \in Seq(W) /\ Len(Tail(w)) = n - 1
        /\ \A k \in 1..(n - 1) : Tail(w)[k] = w[k + 1]
    BY <1>2, <2>1, <2>2, HeadTailProperties
  <2> QED BY <2>2, <2>3 DEF IsList
<1>6. w[1] = Told(ps, Oldest(q))
  <2>1. 1 \in 1..n /\ 1 - 1 = 0
    BY <1>2, <1>4
  <2> QED BY <1>1, <1>2, <2>1
<1>7. \A k \in 1..(n - 1) : u[k] = Tail(w)[k]
  <2> SUFFICES ASSUME NEW k \in 1..(n - 1) PROVE u[k] = Tail(w)[k]
    OBVIOUS
  <2>1. k - 1 \in 0..(n - 2) /\ k + 1 \in 1..n /\ (k - 1) + 1 = k /\ (k + 1) - 1 = k
    BY <1>2
  <2>2. Entry(p, k - 1) = Entry(q, k)
    BY <1>1, <2>1
  <2>3. w[k + 1] = Told(ps, Entry(q, k))
    BY <1>2, <2>1
  <2> QED BY <1>3, <1>5, <2>2, <2>3
<1>8. u = Tail(w)
  BY <1>2, <1>3, <1>5, <1>7, SameLists
<1> QED BY <1>5, <1>6, <1>8 DEF p, w, u

-----------------------------------------------------------------------------
(* The payload of a slot waits. *)
Flagged(ps) == {i \in 1..Len(ps) : ps[i].rx_ready}

RxFields == {"state", "content", "expected_len", "next_sn", "block_size", "block_remaining"}

(* An open transfer is one that the frames of the station r leave open.    *)
Tracks(rx, r) ==
    /\ DOMAIN rx = RxFields
    /\ rx.state \in {"Idle", "Receiving"}
    /\ rx.state = "Receiving" => Transfer(rx) \in Open[r]

(* A slot with the fields F.  The payload that waits in it is one of its   *)
(* station, and a ClearToSend it remembers is one that no block has used.  *)
IsSlot(p, F) ==
    /\ DOMAIN p = F
    /\ {"remote", "rx", "rx_ready", "pending_fc", "unused"} \subseteq F
    /\ p.remote \in Remote \ {LocalAddr}
    /\ Tracks(p.rx, p.remote)
    /\ p.rx_ready \in BOOLEAN
    /\ p.rx_ready => p.rx.content \in Content[p.remote]
    /\ p.unused \in Nat
    /\ p.pending_fc # NoFc /\ p.pending_fc.status = "ClearToSend" => p.unused > 0

(* The slots belong to different stations and the ring lists the flagged.  *)
Consistent(ps, q, F) ==
    /\ IsList(ps) /\ Len(ps) <= MaxPeers
    /\ \A i \in 1..Len(ps) : IsSlot(ps[i], F)
    /\ \A i, j \in 1..Len(ps) : ps[i].remote = ps[j].remote => i = j
    /\ Holds(q, Flagged(ps))

(* No slot is filled and none is queued at the start.                      *)
LEMMA EmptyConsistent ==
    ASSUME NEW F, NEW ps, ps = <<>>
    PROVE  Consistent(ps, EmptyQueue, F)
<1>1. IsList(ps) /\ Len(ps) = 0
  BY EmptySeq DEF IsList
<1>2. 1..0 = {} /\ MaxPeers \in Nat
  BY DemuxAssumption
<1>3. Flagged(ps) = {}
  BY <1>1, <1>2 DEF Flagged
<1> QED BY <1>1, <1>2, <1>3, EmptyHolds DEF Consistent

(* The slots ts are consistent and the same payloads wait as in ps. *)
Alike(ts, ps, q, F) == Consistent(ts, q, F) /\ Waiting(ts, q) = Waiting(ps, q)

(* A slot changes, but for its station, its flag and the payload it holds. *)
LEMMA SlotReplaced ==
    ASSUME NEW ps, NEW q, NEW F, Consistent(ps, q, F), NEW i \in 1..Len(ps),
           NEW p, IsSlot(p, F), p.remote = ps[i].remote, p.rx_ready = ps[i].rx_ready,
           i \in Flagged(ps) => p.rx.content = ps[i].rx.content,
           NEW ts, ts = [ps EXCEPT ![i] = p]
    PROVE  Alike(ts, ps, q, F)
<1>1. Replaced(ts, ps, i, p)
  <2>1. IsList(ps)
    BY DEF Consistent
  <2> QED BY <2>1, ListReplaced
<1>2. Flagged(ts) = Flagged(ps)
  BY <1>1 DEF Flagged, Replaced
<1>3. Holds(q, Flagged(ps)) /\ Flagged(ps) \subseteq 1..Len(ps)
  BY DEF Consistent, Flagged
<1>4. i \in Flagged(ps) => p.remote = ps[i].remote /\ p.rx.content = ps[i].rx.content
  BY DEF Flagged
<1>5. Waiting(ts, q) = Waiting(ps, q)
  BY <1>1, <1>3, <1>4, WaitingReplaced
<1> QED BY <1>1, <1>2, <1>5 DEF Consistent, Replaced, Alike

(* alloc_peer *)
LEMMA SlotFilled ==
    ASSUME NEW ps, NEW q, NEW F, Consistent(ps, q, F), Len(ps) # MaxPeers,
           NEW p, IsSlot(p, F), ~p.rx_ready, \A i \in 1..Len(ps) : ps[i].remote # p.remote
    PROVE  Alike(Append(ps, p), ps, q, F)
<1> DEFINE ts == Append(ps, p)
           n == Len(ps)
<1>1. n \in Nat /\ n < MaxPeers /\ MaxPeers \in Nat
  BY ListLength, DemuxAssumption DEF Consistent
<1>2. /\ IsList(ts) /\ Len(ts) = n + 1 /\ ts[n + 1] = p
      /\ \A j \in 1..n : ts[j] = ps[j]
  BY ListAppended DEF Consistent
<1> HIDE DEF ts, n
<1>3. 1..(n + 1) = (1..n) \cup {n + 1} /\ n + 1 \notin 1..n
  BY <1>1
<1>4. Flagged(ts) = Flagged(ps)
  BY <1>2, <1>3 DEF Flagged, n
<1>5. \A i \in 1..Len(ts) : IsSlot(ts[i], F)
  BY <1>2, <1>3 DEF Consistent, n
<1>6. \A i, j \in 1..Len(ts) : ts[i].remote = ts[j].remote => i = j
  BY <1>2, <1>3 DEF Consistent, n
<1>7. Len(ts) <= MaxPeers
  BY <1>1, <1>2
<1>8. Waiting(ts, q) = Waiting(ps, q)
  <2>1. Holds(q, Flagged(ps))
    BY DEF Consistent
  <2>2. \A j \in Flagged(ps) : Told(ts, j) = Told(ps, j)
    BY <1>2 DEF Flagged, Told, n
  <2> QED BY <2>1, <2>2, WaitingKept
<1>9. Consistent(ts, q, F)
  BY <1>2, <1>4, <1>5, <1>6, <1>7 DEF Consistent
<1> QED BY <1>8, <1>9 DEF Alike, ts

(* How many slots the ring lists, and which.                               *)
LEMMA RingCounts ==
    ASSUME NEW q, NEW S, Holds(q, S)
    PROVE  /\ ToSet(Queued(q)) = S
           /\ IsFiniteSet(S) /\ Cardinality(S) = q.len
           /\ q.len \in Nat
<1> DEFINE n == q.len
           f == Queued(q)
<1>1. n \in Nat
  BY RingType DEF Holds
<1>2. \A i \in 1..n : i - 1 \in 0..(n - 1) /\ f[i] = Entry(q, i - 1)
  <2> SUFFICES ASSUME NEW i \in 1..n
               PROVE  i - 1 \in 0..(n - 1) /\ f[i] = Entry(q, i - 1)
    OBVIOUS
  <2>1. f[i] = q.buf[(q.head + i - 1) % MaxPeers]
    BY DEF Queued
  <2>2. q.head + i - 1 = q.head + (i - 1)
    BY <1>1, RingType DEF Holds
  <2> QED BY <1>1, <2>1, <2>2 DEF Entry
<1>3. DOMAIN f = 1..n
  BY DEF Queued
<1>4. \A k \in 0..(n - 1) : k + 1 \in 1..n /\ f[k + 1] = Entry(q, k)
  <2> SUFFICES ASSUME NEW k \in 0..(n - 1)
               PROVE  k + 1 \in 1..n /\ f[k + 1] = Entry(q, k)
    OBVIOUS
  <2>1. k + 1 \in 1..n /\ (k + 1) - 1 = k
    BY <1>1
  <2> QED BY <1>2, <2>1
<1>5. /\ \A k \in 0..(n - 1) : Entry(q, k) \in S
      /\ \A k, l \in 0..(n - 1) : Entry(q, k) = Entry(q, l) => k = l
      /\ \A s \in S : \E k \in 0..(n - 1) : Entry(q, k) = s
  BY DEF Holds
<1> HIDE DEF f, n
<1>6. \A i \in 1..n : f[i] \in S
  BY <1>2, <1>5
<1>7. \A i, j \in 1..n : f[i] = f[j] => i = j
  BY <1>1, <1>2, <1>5
<1>8. \A s \in S : \E i \in 1..n : f[i] = s
  BY <1>4, <1>5
<1>9. ToSet(f) = S
  BY <1>3, <1>6, <1>8 DEF ToSet
<1>10. ExistsBijection(1..n, S)
  <2>1. [i \in 1..n |-> f[i]] \in Bijection(1..n, S)
    BY <1>6, <1>7, <1>8 DEF Bijection, Injection, Surjection, IsInjective
  <2> QED BY <2>1 DEF ExistsBijection
<1>11. IsFiniteSet(1..n) /\ Cardinality(1..n) = n
  BY <1>1, FS_Interval
<1>12. IsFiniteSet(S) /\ Cardinality(S) = n
  BY <1>10, <1>11, FS_Bijection
<1> QED BY <1>1, <1>9, <1>12 DEF f, n

(* A slot that is not listed finds room: the ring has a place for each.    *)
LEMMA RoomLeft ==
    ASSUME NEW ps, NEW q, NEW F, Consistent(ps, q, F),
           NEW i \in 1..Len(ps), ~ps[i].rx_ready
    PROVE  q.len # MaxPeers
<1> DEFINE S == Flagged(ps)
           T == 1..Len(ps)
<1>1. Len(ps) \in Nat /\ Len(ps) <= MaxPeers /\ MaxPeers \in Nat
  BY ListLength, DemuxAssumption DEF Consistent
<1>2. Cardinality(S) = q.len
  BY RingCounts DEF Consistent
<1>3. IsFiniteSet(T) /\ Cardinality(T) = Len(ps)
  <2>1. 1 \in Int /\ Len(ps) \in Int
    BY <1>1
  <2>2. IsFiniteSet(T) /\ Cardinality(T) = IF 1 > Len(ps) THEN 0 ELSE Len(ps) - 1 + 1
    BY <2>1, FS_Interval
  <2> QED BY <1>1, <2>2
<1>4. IsFiniteSet(T \ {i}) /\ Cardinality(T \ {i}) = Len(ps) - 1
  BY <1>3, FS_RemoveElement
<1>5. S \in SUBSET (T \ {i})
  BY DEF Flagged
<1>6. Cardinality(S) <= Cardinality(T \ {i})
  BY <1>4, <1>5, FS_Subset
<1> QED BY <1>1, <1>2, <1>4, <1>6

(* after is before with one more payload, of a station without one. *)
Adds(before, remote, payload, after) ==
    /\ Len(before) < MaxPeers
    /\ \A k \in 1..Len(before) : before[k][1] # remote
    /\ after = Append(before, <<remote, payload>>)

(* A payload is complete: its slot is flagged and pushed.                  *)
LEMMA SlotMarked ==
    ASSUME NEW ps, NEW q, NEW F, Consistent(ps, q, F),
           NEW i \in 1..Len(ps), ~ps[i].rx_ready,
           NEW p, IsSlot(p, F), p.remote = ps[i].remote, p.rx_ready = TRUE,
           NEW ts, ts = [ps EXCEPT ![i] = p]
    PROVE  /\ Consistent(ts, Pushed(q, i), F)
           /\ Adds(Waiting(ps, q), p.remote, p.rx.content, Waiting(ts, Pushed(q, i)))
<1>1. IsList(ps) /\ Len(ps) \in Nat /\ Len(ps) <= MaxPeers /\ MaxPeers \in Nat
  BY ListLength, DemuxAssumption DEF Consistent
<1>2. Replaced(ts, ps, i, p)
  <2>1. IsList(ps)
    BY <1>1
  <2> QED BY <2>1, ListReplaced
<1>3. Flagged(ts) = Flagged(ps) \cup {i} /\ i \notin Flagged(ps)
  BY <1>2 DEF Flagged, Replaced
<1>4. i \in 0..MaxPeers /\ q.len # MaxPeers /\ Holds(q, Flagged(ps))
  <2>1. q.len # MaxPeers
    BY RoomLeft
  <2> QED BY <1>1, <2>1 DEF Consistent
<1>5. Holds(Pushed(q, i), Flagged(ts))
  <2>1. Holds(Pushed(q, i), Flagged(ps) \cup {i})
    BY <1>3, <1>4, PushHolds
  <2> QED BY <1>3, <2>1
<1>6. Waiting(ts, Pushed(q, i)) = Append(Waiting(ps, q), <<p.remote, p.rx.content>>)
  <2>1. Waiting(ts, Pushed(q, i)) = Append(Waiting(ts, q), Told(ts, i))
    BY <1>3, <1>4, WaitingPushed
  <2>2. Flagged(ps) \subseteq 1..Len(ps)
    BY DEF Flagged
  <2>3. Waiting(ts, q) = Waiting(ps, q)
    BY <1>2, <1>3, <1>4, <2>2, WaitingReplaced
  <2>4. Told(ts, i) = <<p.remote, p.rx.content>>
    BY <1>2 DEF Replaced, Told
  <2> QED BY <2>1, <2>3, <2>4
<1>7. /\ Len(Waiting(ps, q)) < MaxPeers
      /\ \A k \in 1..Len(Waiting(ps, q)) : Waiting(ps, q)[k][1] # p.remote
  <2>1. /\ q.len \in Nat /\ Len(Waiting(ps, q)) = q.len
        /\ \A k \in 1..q.len : k - 1 \in 0..(q.len - 1)
                               /\ Waiting(ps, q)[k] = Told(ps, Entry(q, k - 1))
    BY <1>4, WaitingList
  <2>2. \A k \in 0..(q.len - 1) : Entry(q, k) \in Flagged(ps)
    BY <1>4 DEF Holds
  <2>3. \A j \in Flagged(ps) : Told(ps, j)[1] # p.remote
    BY <1>3 DEF Flagged, Told, Consistent
  <2>4. q.len < MaxPeers
    BY <1>1, <1>4, RingType DEF Holds
  <2>5. Len(Waiting(ps, q)) < MaxPeers
    BY <2>1, <2>4
  <2>6. \A k \in 1..Len(Waiting(ps, q)) : Waiting(ps, q)[k][1] # p.remote
    BY <2>1, <2>2, <2>3
  <2> QED BY <2>5, <2>6
<1>8. Consistent(ts, Pushed(q, i), F)
  BY <1>2, <1>5 DEF Consistent, Replaced
<1>9. Adds(Waiting(ps, q), p.remote, p.rx.content, Waiting(ts, Pushed(q, i)))
  BY <1>6, <1>7 DEF Adds
<1> QED BY <1>8, <1>9

(* The oldest payload is handed out: its slot is popped, the flag cleared. *)
LEMMA SlotDelivered ==
    ASSUME NEW ps, NEW q, NEW F, Consistent(ps, q, F), q.len > 0
    PROVE  /\ Oldest(q) \in 1..Len(ps) /\ ps[Oldest(q)].rx_ready
           /\ Consistent([ps EXCEPT ![Oldest(q)].rx_ready = FALSE], Popped(q), F)
           /\ Waiting(ps, q) # <<>> /\ Head(Waiting(ps, q)) = Told(ps, Oldest(q))
           /\ Waiting([ps EXCEPT ![Oldest(q)].rx_ready = FALSE], Popped(q)) = Tail(Waiting(ps, q))
<1> DEFINE i == Oldest(q)
           p == [ps[i] EXCEPT !.rx_ready = FALSE]
           ts == [ps EXCEPT ![i] = p]
<1>1. Holds(q, Flagged(ps)) /\ IsList(ps)
  BY DEF Consistent
<1>2. i \in Flagged(ps) /\ Holds(Popped(q), Flagged(ps) \ {i})
  BY <1>1, PopHolds
<1>3. i \in 1..Len(ps) /\ ps[i].rx_ready
  BY <1>2 DEF Flagged
<1>4. IsSlot(ps[i], F)
  BY <1>3 DEF Consistent
<1>5. IsSlot(p, F) /\ p.remote = ps[i].remote /\ p.rx_ready = FALSE
  BY <1>4 DEF IsSlot
<1>6. [ps EXCEPT ![i].rx_ready = FALSE] = ts
  OBVIOUS
<1> HIDE DEF i, p
<1>7. Replaced(ts, ps, i, p)
  <2>1. IsList(ps) /\ i \in 1..Len(ps)
    BY <1>1, <1>3
  <2> QED BY <2>1, ListReplaced
<1> HIDE DEF ts
<1>8. Flagged(ts) = Flagged(ps) \ {i}
  BY <1>5, <1>7 DEF Flagged, Replaced
<1>9. Consistent(ts, Popped(q), F)
  BY <1>2, <1>5, <1>7, <1>8 DEF Consistent, Replaced
<1>10. /\ Waiting(ps, q) # <<>> /\ Head(Waiting(ps, q)) = Told(ps, i)
       /\ Waiting(ps, Popped(q)) = Tail(Waiting(ps, q))
  BY <1>1, WaitingPopped DEF i
<1>11. Waiting(ts, Popped(q)) = Waiting(ps, Popped(q))
  <2>1. \A j \in Flagged(ts) : Told(ts, j) = Told(ps, j)
    BY <1>7, <1>8 DEF Flagged, Replaced, Told
  <2> QED BY <1>2, <1>8, <2>1, WaitingKept
<1> QED BY <1>3, <1>6, <1>9, <1>10, <1>11 DEF i

(* Each station is found where it was.                                     *)
LEMMA SameStation ==
    ASSUME NEW ps, NEW q, NEW F, Consistent(ps, q, F),
           NEW i \in 1..Len(ps)
    PROVE  find_peer_index(ps, ps[i].remote) = i
<1>1. Len(ps) \in Nat
  BY ListLength DEF Consistent
<1>2. find_peer_index(ps, ps[i].remote) \in 1..Len(ps)
  BY <1>1, Found
<1>3. ps[find_peer_index(ps, ps[i].remote)].remote = ps[i].remote
  BY <1>1, <1>2, Found
<1> QED BY <1>2, <1>3 DEF Consistent

(* An empty ring lists no payload.                                         *)
LEMMA NothingWaits ==
    ASSUME NEW ps, NEW q, NEW S, Holds(q, S), q.len = 0
    PROVE  Waiting(ps, q) = <<>>
<1>1. IsList(Waiting(ps, q)) /\ Len(Waiting(ps, q)) = 0
  BY WaitingList
<1> QED BY <1>1, EmptySeq DEF IsList

(* One more payload waits, of a station none waited of. *)
Arrives(before, after) ==
    \E r \in Remote : \E payload \in Content[r] : Adds(before, r, payload, after)

(* A payload that arrives where none waits is the only one.                *)
LEMMA ArrivesAlone ==
    ASSUME NEW w, Arrives(<<>>, w)
    PROVE  \E r \in Remote : \E payload \in Content[r] :
              Head(w) = <<r, payload>> /\ Tail(w) = <<>>
<1>1. PICK r \in Remote : \E payload \in Content[r] : Adds(<<>>, r, payload, w)
  BY DEF Arrives
<1>2. PICK payload \in Content[r] : w = <<<<r, payload>>>>
  BY <1>1 DEF Adds
<1>3. Head(w) = <<r, payload>> /\ Tail(w) = <<>>
  BY <1>2
<1> QED BY <1>3

-----------------------------------------------------------------------------
(* What the receive machine answers a frame of the station r, as far as    *)
(* the slots are concerned: an answer is only due in an open transfer, at  *)
(* the start of a block, and a complete payload is one of the station.     *)
Due(rx) == rx.state = "Receiving" /\ rx.block_remaining = rx.block_size

Sound(r, remote) ==
    /\ Tracks(r.rx, remote)
    /\ r.out \in Outcomes
    /\ r.out = "SendFlowControl" => Due(r.rx)
    /\ r.out = "Completed" => r.rx.content \in Content[remote]

(* The machine returns a record and an outcome as they are.                *)
LEMMA ReturnsSound ==
    ASSUME NEW remote, NEW rx, Tracks(rx, remote), NEW out \in Outcomes,
           out = "SendFlowControl" => Due(rx),
           out = "Completed" => rx.content \in Content[remote]
    PROVE  Sound(Returns(rx, out), remote)
BY DEF Returns, Sound

(* The end of handle_consecutive: it answers at the end of a block.        *)
LEMMA AfterChunkSound ==
    ASSUME NEW remote, NEW rx, DOMAIN rx = RxFields, rx.state = "Receiving",
           MakesUp(remote, Transfer(rx))
    PROVE  Sound(AfterChunk(rx), remote)
<1> DEFINE left == Saturating(rx.block_remaining, 1)
           idle == [rx EXCEPT !.state = "Idle"]
           less == [rx EXCEPT !.block_remaining = left]
<1>1. {"None", "SendFlowControl", "Completed"} \subseteq Outcomes
  BY DEF Outcomes
<1>2. CASE Len(rx.content) >= rx.expected_len
  <2>1. Tracks(idle, remote) /\ idle.content = rx.content
    BY DEF Tracks, RxFields
  <2>2. rx.content \in Content[remote]
    BY <1>2 DEF MakesUp, Transfer
  <2>3. Sound(Returns(idle, "Completed"), remote)
    BY <1>1, <2>1, <2>2, ReturnsSound
  <2> QED BY <1>2, <2>3 DEF AfterChunk
<1>3. CASE ~(Len(rx.content) >= rx.expected_len)
  <2>1. Transfer(rx) \in Open[remote]
    BY <1>3 DEF MakesUp, Transfer
  <2>2. Tracks(rx, remote)
    BY <2>1 DEF Tracks
  <2>3. Tracks(less, remote)
    BY <2>1 DEF Tracks, Transfer, RxFields
  <2>4. Tracks(Reloaded(rx), remote) /\ Due(Reloaded(rx))
    BY <2>1 DEF Tracks, Transfer, RxFields, Reloaded, Due
  <2> HIDE DEF less
  <2>5. /\ Sound(Returns(rx, "None"), remote) /\ Sound(Returns(less, "None"), remote)
        /\ Sound(Returns(Reloaded(rx), "SendFlowControl"), remote)
    BY <1>1, <2>2, <2>3, <2>4, ReturnsSound
  <2> QED BY <1>3, <2>5 DEF AfterChunk, less
<1> QED BY <1>2, <1>3

(* A Consecutive Frame extends a transfer.                                 *)
LEMMA TransferExtended ==
    ASSUME NEW content, NEW len, NEW sn, NEW data, NEW t,
           t = [content |-> content, expected_len |-> len, next_sn |-> sn]
    PROVE  Extended(t, data) = [content |-> content \o Chunk(t, data), expected_len |-> len,
                                next_sn |-> NextSn(sn)]
<1> DEFINE more == content \o Chunk(t, data)
           next == NextSn(sn)
           u == [t EXCEPT !.content = more]
<1>1. t.content = content /\ t.next_sn = sn
  OBVIOUS
<1>2. Extended(t, data) = [t EXCEPT !.content = more, !.next_sn = next]
  BY <1>1 DEF Extended
<1> HIDE DEF more, next
<1>3. u = [content |-> more, expected_len |-> len, next_sn |-> sn]
  OBVIOUS
<1>4. [t EXCEPT !.content = more, !.next_sn = next] = [u EXCEPT !.next_sn = next]
  OBVIOUS
<1> HIDE DEF u
<1>5. [u EXCEPT !.next_sn = next] = [content |-> more, expected_len |-> len, next_sn |-> next]
  BY <1>3
<1> QED BY <1>2, <1>4, <1>5 DEF more, next

(* on_pdu, whatever frame it is.                                           *)
LEMMA OnPduSound ==
    ASSUME NEW f \in BusFrame, NEW rx, Tracks(rx, f.source)
    PROVE  Sound(on_pdu(Cfg, rx, f.pdu), f.source)
<1> DEFINE pdu == f.pdu
           remote == f.source
<1>1. ASSUME NEW e \in Errors PROVE Sound(Returns(rx, e), remote)
  BY <1>1, ReturnsSound DEF Errors, Outcomes
<1>2. {"UnexpectedPdu", "BadSequence", "Overflow"} = Errors
  BY DEF Errors
<1>3. Room(Cfg) \in Nat
  BY CfgAssumption DEF Room, Lesser, ValidConfig
<1>4. CASE pdu.kind = "SF"
  <2> DEFINE filled == [rx EXCEPT !.content = pdu.data]
  <2>1. ASSUME rx.state = "Idle", ~(Len(pdu.data) > Room(Cfg))
        PROVE  Sound(Returns(filled, "Completed"), remote)
    <3>1. Len(pdu.data) <= Room(Cfg)
      BY <1>3, <1>4, <2>1, DemuxAssumption
    <3>2. pdu.data \in Content[remote]
      BY <1>4, <3>1, ContentAssumption
    <3>3. Tracks(filled, remote) /\ filled.content = pdu.data
      BY <2>1 DEF Tracks, RxFields
    <3> QED BY <3>2, <3>3, ReturnsSound DEF Outcomes
  <2>2. Sound(handle_single(Cfg, rx, pdu), remote)
    BY <1>1, <1>2, <2>1 DEF handle_single, Tracks
  <2> QED BY <1>4, <2>2 DEF on_pdu
<1>5. CASE pdu.kind = "FF"
  <2> DEFINE open == [state |-> "Receiving",
                      content |-> SubSeq(pdu.data, 1, Lesser(Len(pdu.data), pdu.len)),
                      expected_len |-> pdu.len, next_sn |-> 1,
                      block_size |-> Cfg.block_size, block_remaining |-> Cfg.block_size]
  <2>1. ASSUME ~(pdu.len > Room(Cfg))
        PROVE  Sound(Returns(open, "SendFlowControl"), remote)
    <3>1. pdu.len <= Room(Cfg)
      BY <1>3, <1>5, <2>1, DemuxAssumption
    <3>2. Opened(pdu) \in Open[remote]
      BY <1>5, <3>1, ContentAssumption
    <3>3. Transfer(open) = Opened(pdu)
      BY DEF Transfer, Opened
    <3>4. Tracks(open, remote) /\ Due(open)
      BY <3>2, <3>3 DEF Tracks, RxFields, Due
    <3> HIDE DEF open
    <3> QED BY <3>4, ReturnsSound DEF Outcomes
  <2>2. Sound(handle_first(Cfg, rx, pdu), remote)
    BY <1>1, <1>2, <2>1 DEF handle_first
  <2> QED BY <1>5, <2>2 DEF on_pdu
<1>6. CASE pdu.kind = "CF"
  <2> DEFINE longer == Extended(rx, pdu.data)
  <2>1. ASSUME rx.state = "Receiving", pdu.sn = rx.next_sn
        PROVE  Sound(AfterChunk(longer), remote)
    <3>1. Transfer(rx) \in Open[remote] /\ Transfer(rx).next_sn = pdu.sn
      BY <2>1 DEF Tracks, Transfer
    <3>2. MakesUp(remote, Extended(Transfer(rx), pdu.data))
      BY <1>6, <3>1, ContentAssumption
    <3>3. DOMAIN longer = RxFields /\ longer.state = "Receiving"
      BY <2>1 DEF Extended, Tracks, RxFields
    <3>4. Transfer(longer) = Extended(Transfer(rx), pdu.data)
      <4>1. Chunk(Transfer(rx), pdu.data) = Chunk(rx, pdu.data)
        BY DEF Transfer, Chunk
      <4>2. Extended(Transfer(rx), pdu.data) =
                [content |-> rx.content \o Chunk(rx, pdu.data),
                 expected_len |-> rx.expected_len, next_sn |-> NextSn(rx.next_sn)]
        <5> DEFINE t == Transfer(rx)
        <5>1. t = [content |-> rx.content, expected_len |-> rx.expected_len,
                   next_sn |-> rx.next_sn]
          BY DEF Transfer
        <5> HIDE DEF t
        <5>2. Extended(t, pdu.data) =
                  [content |-> rx.content \o Chunk(t, pdu.data),
                   expected_len |-> rx.expected_len, next_sn |-> NextSn(rx.next_sn)]
          BY <5>1, TransferExtended
        <5> QED BY <4>1, <5>2 DEF t
      <4>3. /\ longer.content = rx.content \o Chunk(rx, pdu.data)
            /\ longer.expected_len = rx.expected_len /\ longer.next_sn = NextSn(rx.next_sn)
        BY DEF Extended, Tracks, RxFields
      <4> QED BY <4>2, <4>3 DEF Transfer
    <3> HIDE DEF longer
    <3> QED BY <3>2, <3>3, <3>4, AfterChunkSound
  <2>2. Sound(handle_consecutive(Cfg, rx, pdu), remote)
    BY <1>1, <1>2, <2>1 DEF handle_consecutive
  <2> QED BY <1>6, <2>2 DEF on_pdu
<1>7. CASE pdu.kind \notin {"SF", "FF", "CF"}
  BY <1>1, <1>2, <1>7 DEF on_pdu
<1> QED BY <1>4, <1>5, <1>6, <1>7

(* The receive machine of a slot moves on, while no payload waits in it.   *)
LEMMA SlotMoved ==
    ASSUME NEW ps, NEW q, NEW F, Consistent(ps, q, F), NEW i \in 1..Len(ps),
           i \notin Flagged(ps), NEW rx, Tracks(rx, ps[i].remote),
           NEW ts, ts = [ps EXCEPT ![i].rx = rx]
    PROVE  /\ Alike(ts, ps, q, F)
           /\ i \in 1..Len(ts) /\ i \notin Flagged(ts)
           /\ ts[i].remote = ps[i].remote /\ ts[i].rx = rx
<1> DEFINE p == [ps[i] EXCEPT !.rx = rx]
<1>1. IsSlot(ps[i], F) /\ IsList(ps)
  BY DEF Consistent
<1>2. /\ IsSlot(p, F) /\ p.rx = rx
      /\ p.remote = ps[i].remote /\ p.rx_ready = ps[i].rx_ready
  BY <1>1 DEF IsSlot, Flagged
<1>3. ts = [ps EXCEPT ![i] = p]
  OBVIOUS
<1> HIDE DEF p
<1>4. Replaced(ts, ps, i, p)
  BY <1>1, <1>3, ListReplaced
<1>5. Alike(ts, ps, q, F)
  BY <1>2, <1>3, SlotReplaced
<1>6. i \in 1..Len(ts) /\ ts[i] = p
  BY <1>4 DEF Replaced
<1>7. i \notin Flagged(ts)
  BY <1>2, <1>6 DEF Flagged
<1> QED BY <1>2, <1>5, <1>6, <1>7

(* Its payload is complete.                                                *)
LEMMA SlotCompleted ==
    ASSUME NEW ps, NEW q, NEW F, Consistent(ps, q, F), NEW i \in 1..Len(ps),
           i \notin Flagged(ps), ps[i].rx.content \in Content[ps[i].remote],
           NEW ts, ts = [ps EXCEPT ![i].rx_ready = TRUE]
    PROVE  /\ Consistent(ts, Pushed(q, i), F) /\ ~QueueFull(q)
           /\ Adds(Waiting(ps, q), ps[i].remote, ps[i].rx.content, Waiting(ts, Pushed(q, i)))
<1> DEFINE p == [ps[i] EXCEPT !.rx_ready = TRUE]
<1>1. IsSlot(ps[i], F) /\ IsList(ps)
  BY DEF Consistent
<1>2. /\ IsSlot(p, F) /\ p.remote = ps[i].remote /\ p.rx_ready = TRUE
      /\ p.rx = ps[i].rx
  BY <1>1 DEF IsSlot
<1>3. ts = [ps EXCEPT ![i] = p]
  OBVIOUS
<1> HIDE DEF p
<1>4. /\ Consistent(ts, Pushed(q, i), F)
      /\ Adds(Waiting(ps, q), p.remote, p.rx.content, Waiting(ts, Pushed(q, i)))
  BY <1>2, <1>3, SlotMarked DEF Flagged
<1>5. q.len # MaxPeers
  BY RoomLeft DEF Flagged
<1> QED BY <1>2, <1>4, <1>5 DEF QueueFull
=============================================================================
