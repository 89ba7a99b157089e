------------------------- MODULE HttpStream_proofs -------------------------
(***************************************************************************)
(* Proofs about HttpStream, for every stream that a client may send and    *)
(* every way TCP cuts it, about the bytes of a frame header (WsFrame), and *)
(* about the TLS records below them (Tls).                                 *)
(***************************************************************************)
EXTENDS HttpStream, WsFrame, Tls, SequenceTheorems, WellFoundedInduction, TLAPS

Kinds == Http \cup Data \cup Control \cup {"cont"}

---------------------------------------------------------------------------
(* Where the items of a stream are *)

First(st, i) == st[i].at
Final(st, i) == st[i].at + st[i].size - 1
Total(st) == IF st = <<>> THEN 0 ELSE Final(st, Len(st))
StartsAt(st, p) == \E i \in DOMAIN st : First(st, i) = p
FrameAt(st, p) == \E i \in DOMAIN st : First(st, i) = p /\ st[i].k \notin Http

\* A nonempty set of numbers has a least element.
LEMMA LeastOf ==
  ASSUME NEW T \in SUBSET Nat, T # {}
  PROVE  \E x \in T : \A y \in T : x <= y
  <1> DEFINE R == OpToRel(<, Nat)
  <1>1. IsWellFoundedOn(R, Nat)  BY NatLessThanWellFounded
  <1>2. \A x, y \in Nat : x < y => <<x, y>> \in R  BY DEF OpToRel
  <1> HIDE DEF R
  <1>3. PICK x \in T : \A y \in T : ~(<<y, x>> \in R)  BY <1>1, WFMin
  <1>4. \A y \in T : y \in Nat /\ x \in Nat /\ ~(y < x)  BY <1>2, <1>3
  <1>5. \A y \in T : x <= y  BY <1>4
  <1>6. QED  BY <1>5

\* The fields of an item.
LEMMA ItemFields ==
  ASSUME NEW it \in Item
  PROVE  it.size \in Nat \ {0} /\ it.at \in Nat \ {0} /\ it.k \in Kinds /\ it.fin \in BOOLEAN
  <1>1. it \in [k : Kinds, at : Nat \ {0}, size : Nat \ {0}, fin : BOOLEAN, ok : BOOLEAN, cl : {"none", "exact", "other"}]
    BY Zenon DEF Item, Kinds
  <1>2. QED  BY <1>1

\* Positions and sizes are numbers, and an item follows the one before it.
LEMMA Layout ==
  ASSUME NEW st \in Streams
  PROVE  /\ st \in Seq(Item) /\ Len(st) \in Nat /\ DOMAIN st = 1..Len(st)
         /\ \A i \in DOMAIN st : /\ st[i] \in Item /\ st[i].size \in Nat \ {0} /\ st[i].k \in Kinds
                                 /\ First(st, i) \in Nat \ {0} /\ Final(st, i) \in Nat
                                 /\ First(st, i) <= Final(st, i)
                                 /\ Final(st, i) = First(st, i) + st[i].size - 1
         /\ \A i \in DOMAIN st : i > 1 => First(st, i) = Final(st, i - 1) + 1
  <1>1. st \in Seq(Item)  BY StreamsAssumption
  <1>2. \A i \in DOMAIN st : st[i] \in Item /\ st[i].size \in Nat \ {0} /\ st[i].at \in Nat \ {0} /\ st[i].k \in Kinds
    <2>1. \A i \in DOMAIN st : st[i] \in Item  BY <1>1
    <2>2. QED  BY <2>1, ItemFields
  <1>3. Len(st) \in Nat /\ DOMAIN st = 1..Len(st)  BY <1>1
  <1>4. ASSUME NEW i \in DOMAIN st, i > 1
        PROVE  First(st, i) = Final(st, i - 1) + 1
    <2>1. i - 1 \in DOMAIN st /\ i # 1  BY <1>3, <1>4
    <2>2. st[i].at = st[i - 1].at + st[i - 1].size  BY <2>1, StreamsAssumption
    <2>3. QED  BY <2>1, <2>2, <1>2 DEF First, Final
  <1>5. QED  BY <1>1, <1>2, <1>3, <1>4 DEF First, Final

\* The items are in order and do not overlap.
LEMMA InOrder ==
  ASSUME NEW st \in Streams, NEW i \in DOMAIN st, NEW j \in DOMAIN st, i < j
  PROVE  Final(st, i) < First(st, j)
  <1> DEFINE T == {n \in DOMAIN st : i < n /\ ~(Final(st, i) < First(st, n))}
  <1>l. /\ Len(st) \in Nat /\ DOMAIN st = 1..Len(st)
        /\ \A n \in DOMAIN st : First(st, n) \in Nat /\ Final(st, n) \in Nat /\ First(st, n) <= Final(st, n)
        /\ \A n \in DOMAIN st : n > 1 => First(st, n) = Final(st, n - 1) + 1
    BY Layout
  <1>1. SUFFICES ASSUME T # {} PROVE FALSE
    OBVIOUS
  <1>2. T \in SUBSET Nat  BY <1>l
  <1>3. PICK n \in T : \A m \in T : n <= m
    <2> HIDE DEF T
    <2> QED  BY <1>1, <1>2, LeastOf
  <1>4. n \in DOMAIN st /\ n > 1 /\ i <= n - 1 /\ n - 1 \in DOMAIN st  BY <1>l, <1>3
  <1>5. First(st, n) = Final(st, n - 1) + 1  BY <1>l, <1>4
  <1>6. CASE i = n - 1
    BY <1>l, <1>3, <1>5, <1>6
  <1>7. CASE i < n - 1
    <2>1. n - 1 \notin T  BY <1>l, <1>3, <1>4
    <2>2. Final(st, i) < First(st, n - 1)  BY <2>1, <1>4, <1>7
    <2>3. QED  BY <2>2, <1>l, <1>3, <1>4, <1>5
  <1>8. QED  BY <1>l, <1>4, <1>6, <1>7

\* An item that starts beyond another's end comes behind it.
LEMMA Behind ==
  ASSUME NEW st \in Streams, NEW i \in DOMAIN st, NEW j \in DOMAIN st, Final(st, i) < First(st, j)
  PROVE  i < j
  <1>l. /\ Len(st) \in Nat /\ DOMAIN st = 1..Len(st)
        /\ \A n \in DOMAIN st : First(st, n) \in Nat /\ Final(st, n) \in Nat /\ First(st, n) <= Final(st, n)
    BY Layout
  <1>1. i # j  BY <1>l
  <1>2. j < i => Final(st, j) < First(st, i)  BY InOrder
  <1>3. QED  BY <1>1, <1>2, <1>l

\* No item ends beyond the stream, and one that ends before it has a next one.
LEMMA Ends ==
  ASSUME NEW st \in Streams
  PROVE  /\ Total(st) \in Nat
         /\ \A i \in DOMAIN st : Final(st, i) <= Total(st)
         /\ \A i \in DOMAIN st : Final(st, i) < Total(st) => i + 1 \in DOMAIN st /\ First(st, i + 1) = Final(st, i) + 1
  <1>l. /\ Len(st) \in Nat /\ DOMAIN st = 1..Len(st) /\ st \in Seq(Item)
        /\ \A n \in DOMAIN st : First(st, n) \in Nat /\ Final(st, n) \in Nat /\ First(st, n) <= Final(st, n)
        /\ \A n \in DOMAIN st : n > 1 => First(st, n) = Final(st, n - 1) + 1
    BY Layout
  <1>1. CASE st = <<>>
    BY <1>1, <1>l DEF Total
  <1>2. CASE st # <<>>
    <2>1. Len(st) \in DOMAIN st /\ Total(st) = Final(st, Len(st))  BY <1>2, <1>l DEF Total
    <2>2. ASSUME NEW i \in DOMAIN st
          PROVE  /\ Final(st, i) <= Total(st)
                 /\ Final(st, i) < Total(st) => i + 1 \in DOMAIN st /\ First(st, i + 1) = Final(st, i) + 1
      <3>1. CASE i = Len(st)  BY <3>1, <2>1, <1>l
      <3>2. CASE i < Len(st)
        <4>1. Final(st, i) < First(st, Len(st))  BY <3>2, <2>1, InOrder
        <4>2. i + 1 \in DOMAIN st /\ i + 1 > 1 /\ i + 1 - 1 = i  BY <3>2, <1>l
        <4>3. First(st, i + 1) = Final(st, i) + 1  BY <4>2, <1>l
        <4>4. QED  BY <4>1, <4>2, <4>3, <2>1, <1>l
      <3>3. QED  BY <3>1, <3>2, <1>l
    <2>3. QED  BY <2>1, <2>2, <1>l
  <1>3. QED  BY <1>1, <1>2

\* A position inside an item, but for the first, starts none.
LEMMA NoStartInside ==
  ASSUME NEW st \in Streams, NEW i \in DOMAIN st, NEW p \in Nat, First(st, i) < p, p <= Final(st, i)
  PROVE  ~StartsAt(st, p)
  <1>l. /\ Len(st) \in Nat /\ DOMAIN st = 1..Len(st)
        /\ \A n \in DOMAIN st : First(st, n) \in Nat /\ Final(st, n) \in Nat /\ First(st, n) <= Final(st, n)
    BY Layout
  <1>1. SUFFICES ASSUME NEW j \in DOMAIN st, First(st, j) = p PROVE FALSE
    BY DEF StartsAt
  <1>2. j # i  BY <1>1, <1>l
  <1>3. i < j => Final(st, i) < First(st, j)  BY InOrder
  <1>4. j < i => Final(st, j) < First(st, i)  BY InOrder
  <1>5. QED  BY <1>1, <1>2, <1>3, <1>4, <1>l

\* Behind a frame there are only frames.
LEMMA FramesFollow ==
  ASSUME NEW st \in Streams, NEW i \in DOMAIN st, NEW j \in DOMAIN st, j <= i, st[j].k \notin Http
  PROVE  st[i].k \notin Http
  <1>1. j \in 1..i  BY Layout
  <1>2. QED  BY <1>1, StreamsAssumption

---------------------------------------------------------------------------
(* Pieces of the stream *)

\* s is what comes last of the bytes up to position n.
UpTo(s, n) == Len(s) <= n /\ \A j \in 1..Len(s) : s[j] = n - Len(s) + j

\* The bytes a segment brings.
LEMMA SegmentUpTo ==
  ASSUME NEW a \in Nat, NEW n \in Nat \ {0}
  PROVE  LET s == Bytes(a + 1, a + n)
         IN s \in Seq(Nat) /\ Len(s) = n /\ s # <<>> /\ UpTo(s, a + n)
  <1> DEFINE s == Bytes(a + 1, a + n)
  <1>1. s = [j \in 1..n |-> a + j]
    <2>1. a + n - (a + 1) + 1 = n /\ \A j \in 1..n : a + 1 + j - 1 = a + j  OBVIOUS
    <2>2. QED  BY <2>1 DEF Bytes
  <1>2. s \in [1..n -> Nat]  BY <1>1
  <1>3. s \in Seq(Nat) /\ Len(s) = n  BY <1>2
  <1>4. \A j \in 1..n : s[j] = a + n - n + j  BY <1>1
  <1> HIDE DEF s
  <1>5. s # <<>>  BY <1>3
  <1>6. QED  BY <1>3, <1>4, <1>5 DEF UpTo, s

\* A kept piece with the next segment behind it.
LEMMA JoinUpTo ==
  ASSUME NEW s \in Seq(Nat), NEW t \in Seq(Nat), NEW a \in Nat, UpTo(t, a), UpTo(s, a - Len(t))
  PROVE  UpTo(s \o t, a)
  <1>1. /\ s \o t \in Seq(Nat) /\ Len(s \o t) = Len(s) + Len(t)
        /\ \A j \in 1..Len(s) + Len(t) : (s \o t)[j] = IF j <= Len(s) THEN s[j] ELSE t[j - Len(s)]
    BY ConcatProperties
  <1>2. Len(s) \in Nat /\ Len(t) \in Nat /\ Len(t) <= a /\ Len(s) <= a - Len(t)  BY DEF UpTo
  <1>3. ASSUME NEW j \in 1..Len(s \o t)
        PROVE  (s \o t)[j] = a - Len(s \o t) + j
    <2>1. CASE j <= Len(s)
      <3>1. j \in 1..Len(s)  BY <2>1, <1>2, <1>1
      <3>2. s[j] = a - Len(t) - Len(s) + j  BY <3>1 DEF UpTo
      <3>3. QED  BY <3>2, <2>1, <1>1, <1>2
    <2>2. CASE j > Len(s)
      <3>1. j - Len(s) \in 1..Len(t)  BY <2>2, <1>2, <1>1
      <3>2. t[j - Len(s)] = a - Len(t) + (j - Len(s))  BY <3>1 DEF UpTo
      <3>3. QED  BY <3>2, <2>2, <1>1, <1>2
    <2>3. QED  BY <2>1, <2>2, <1>1, <1>2
  <1>4. QED  BY <1>1, <1>2, <1>3 DEF UpTo

\* The first byte of a nonempty piece.
LEMMA FirstByte ==
  ASSUME NEW s \in Seq(Nat), NEW a \in Nat, UpTo(s, a), s # <<>>
  PROVE  s[1] = a - Len(s) + 1 /\ Len(s) >= 1 /\ s[1] \in Nat \ {0} /\ s[1] <= a
  <1>1. Len(s) \in Nat /\ Len(s) # 0  BY EmptySeq
  <1>2. 1 \in 1..Len(s)  BY <1>1
  <1>3. s[1] = a - Len(s) + 1 /\ Len(s) <= a  BY <1>2 DEF UpTo
  <1>4. QED  BY <1>1, <1>3

\* What is left of a piece when its first n bytes are consumed.
LEMMA RestUpTo ==
  ASSUME NEW s \in Seq(Nat), NEW n \in Nat, n <= Len(s)
  PROVE  /\ Rest(s, n) \in Seq(Nat) /\ Len(Rest(s, n)) = Len(s) - n
         /\ \A j \in 1..Len(s) - n : Rest(s, n)[j] = s[n + j]
         /\ \A a \in Nat : UpTo(s, a) => UpTo(Rest(s, n), a)
  <1> DEFINE t == SubSeq(s, n + 1, Len(s))
  <1>1. Len(s) \in Nat /\ n + 1 \in Int /\ Len(s) \in Int  OBVIOUS
  <1>2. \A i \in n + 1..Len(s) : s[i] \in Nat  OBVIOUS
  <1>3. /\ t \in Seq(Nat)
        /\ Len(t) = IF n + 1 <= Len(s) THEN Len(s) - (n + 1) + 1 ELSE 0
        /\ \A i \in 1..Len(s) - (n + 1) + 1 : t[i] = s[n + 1 + i - 1]
    BY <1>1, <1>2, SubSeqProperties
  <1>z. t = Rest(s, n)  BY DEF Rest
  <1> HIDE DEF t
  <1>4. Len(t) = Len(s) - n  BY <1>1, <1>3
  <1>5. \A j \in 1..Len(s) - n : t[j] = s[n + j]
    <2>1. Len(s) - (n + 1) + 1 = Len(s) - n /\ \A j \in 1..Len(s) - n : n + 1 + j - 1 = n + j  BY <1>1
    <2>2. QED  BY <2>1, <1>3
  <1>6. ASSUME NEW a \in Nat, UpTo(s, a)  PROVE UpTo(t, a)
    <2>1. \A j \in 1..Len(s) - n : n + j \in 1..Len(s)  BY <1>1
    <2>2. \A j \in 1..Len(s) - n : t[j] = a - Len(s) + (n + j)  BY <1>6, <2>1, <1>5 DEF UpTo
    <2>3. \A j \in 1..Len(s) - n : a - Len(s) + (n + j) = a - (Len(s) - n) + j  BY <1>1
    <2>4. Len(t) <= a  BY <1>1, <1>4, <1>6 DEF UpTo
    <2>5. QED  BY <2>2, <2>3, <2>4, <1>4 DEF UpTo
  <1>7. QED  BY <1>3, <1>4, <1>5, <1>6, <1>z

\* An item in front of a piece is consumed.
LEMMA Consumed ==
  ASSUME NEW st \in Streams, NEW i \in DOMAIN st, NEW a \in Nat, NEW s \in Seq(Nat), s # <<>>,
         UpTo(s, a), First(st, i) = s[1], Len(s) >= st[i].size
  PROVE  LET t == Rest(s, st[i].size)
         IN /\ t \in Seq(Nat) /\ UpTo(t, a) /\ Len(t) = Len(s) - st[i].size
            /\ \A j \in 1..Len(t) : Final(st, i) < t[j]
            /\ Final(st, i) <= a /\ (t = <<>> <=> Final(st, i) = a)
            /\ t # <<>> => t[1] = Final(st, i) + 1 /\ t[1] <= a
  <1> DEFINE n == st[i].size
             t == Rest(s, n)
  <1>1. n \in Nat \ {0} /\ First(st, i) \in Nat /\ Final(st, i) = First(st, i) + n - 1 /\ Len(s) \in Nat
    BY Layout, SMTT(60)
  <1> HIDE DEF n
  <1>2. /\ t \in Seq(Nat) /\ Len(t) = Len(s) - n
        /\ UpTo(t, a)
    <2>1. n \in Nat /\ n <= Len(s)  BY <1>1 DEF n
    <2>2. QED  BY <2>1, RestUpTo
  <1> HIDE DEF t
  <1>3. s[1] = a - Len(s) + 1 /\ Len(s) <= a  BY FirstByte DEF UpTo
  <1>4. Final(st, i) = a - Len(t)  BY <1>1, <1>2, <1>3
  <1>5. \A j \in 1..Len(t) : t[j] = Final(st, i) + j  BY <1>1, <1>2, <1>4 DEF UpTo
  <1>6. Len(t) \in Nat /\ (t = <<>> <=> Len(t) = 0)  BY <1>2, EmptySeq
  <1>7. t # <<>> => t[1] = Final(st, i) + 1 /\ t[1] <= a
    <2>1. t # <<>> => 1 \in 1..Len(t)  BY <1>6
    <2>2. QED  BY <2>1, <1>5, <1>4, <1>6
  <1>8. Final(st, i) <= a /\ (t = <<>> <=> Final(st, i) = a)  BY <1>4, <1>6
  <1>9. \A j \in 1..Len(t) : Final(st, i) < t[j]  BY <1>1, <1>5, <1>6
  <1>10. QED  BY <1>2, <1>7, <1>8, <1>9 DEF t, n

\* An item that is not there to its end: the next byte starts no other one.
LEMMA CutShort ==
  ASSUME NEW st \in Streams, NEW i \in DOMAIN st, NEW a \in Nat, NEW s \in Seq(Nat), s # <<>>,
         UpTo(s, a), First(st, i) = s[1], ~(Len(s) >= st[i].size)
  PROVE  ~StartsAt(st, a + 1)
  <1>1. st[i].size \in Nat \ {0} /\ First(st, i) \in Nat /\ Final(st, i) = First(st, i) + st[i].size - 1 /\ Len(s) \in Nat
    BY Layout
  <1>2. s[1] = a - Len(s) + 1 /\ Len(s) >= 1  BY FirstByte
  <1>3. First(st, i) < a + 1 /\ a + 1 <= Final(st, i) /\ a + 1 \in Nat  BY <1>1, <1>2
  <1>4. QED  BY <1>3, NoStartInside

\* In a piece of the stream, being there to its end is a matter of length.
LEMMA WholeByLength ==
  ASSUME NEW st \in Streams, NEW i \in DOMAIN st, NEW a \in Nat, NEW s \in Seq(Nat), s # <<>>,
         UpTo(s, a), First(st, i) = s[1], Len(s) >= st[i].size
  PROVE  SubSeq(s, 1, st[i].size) = Bytes(First(st, i), Final(st, i))
  <1> DEFINE n == st[i].size
             t == SubSeq(s, 1, n)
             b == Bytes(First(st, i), Final(st, i))
  <1>1. n \in Nat \ {0} /\ First(st, i) \in Nat /\ Final(st, i) = First(st, i) + n - 1 /\ Len(s) \in Nat /\ n <= Len(s)
    BY Layout
  <1>2. s[1] = a - Len(s) + 1  BY FirstByte
  <1> HIDE DEF n
  <1>3. /\ t \in Seq(Nat) /\ Len(t) = n
        /\ \A j \in 1..n : t[j] = s[j]
    <2>1. \A j \in 1..n : s[j] \in Nat  BY <1>1
    <2>2. /\ t \in Seq(Nat)
          /\ Len(t) = IF 1 <= n THEN n - 1 + 1 ELSE 0
          /\ \A j \in 1..n - 1 + 1 : t[j] = s[1 + j - 1]
      BY <2>1, <1>1, SubSeqProperties, SMTT(60)
    <2> HIDE DEF t
    <2>3. n - 1 + 1 = n /\ \A j \in 1..n : 1 + j - 1 = j  BY <1>1
    <2>4. QED  BY <2>2, <2>3, <1>1
  <1>4. b = [j \in 1..n |-> First(st, i) + j - 1]
    <2>1. Final(st, i) - First(st, i) + 1 = n  BY <1>1, SMTT(40)
    <2>2. QED  BY <2>1 DEF Bytes
  <1>5. b \in Seq(Nat) /\ Len(b) = n
    <2>1. b \in [1..n -> Nat]  BY <1>1, <1>4, SMTT(40)
    <2> HIDE DEF b
    <2>2. QED  BY <2>1, <1>1
  <1>6. \A j \in 1..n : b[j] = t[j]
    <2>1. \A j \in 1..n : j \in 1..Len(s)  BY <1>1
    <2>2. \A j \in 1..n : s[j] = a - Len(s) + j  BY <2>1 DEF UpTo
    <2>3. \A j \in 1..n : a - Len(s) + j = First(st, i) + j - 1  BY <1>1, <1>2
    <2> HIDE DEF t
    <2>4. QED  BY <2>2, <2>3, <1>3, <1>4
  <1> HIDE DEF b, t
  <1>7. t = b  BY <1>3, <1>5, <1>6, SeqEqual
  <1>8. QED  BY <1>7 DEF t, b, n

---------------------------------------------------------------------------
(* What the codecs keep and what they look at *)

\* Between two segments, with n bytes behind: what is kept comes last of
\* those, or was garbled; frames that are kept begin with a cut one; when
\* both codecs keep something nothing of it can be parsed any more; and when
\* none does, the next byte starts an item.
Between(st, n, l, w) ==
  /\ l # <<>> => l[1] = 0 \/ UpTo(l, n)
  /\ l = <<>> /\ w # <<>> => UpTo(w, n) /\ FrameAt(st, w[1]) /\ ~StartsAt(st, n + 1)
  /\ l # <<>> /\ w # <<>> => ~StartsAt(st, l[1])
  /\ l = <<>> /\ w = <<>> => n = Total(st) \/ StartsAt(st, n + 1)

Where(st, a, c, r, l, w) ==
  /\ st \in Streams /\ a \in Nat /\ a <= Total(st)
  /\ r \in Seq(Nat) /\ l \in Seq(Nat) /\ w \in Seq(Nat)
  /\ c = "idle" => Between(st, a, l, w)
  /\ c \in {"http", "ws"} => r # <<>> /\ UpTo(r, a) /\ Between(st, a - Len(r), l, w)
  /\ c = "ws" => l = <<>> /\ (w = <<>> => FrameAt(st, r[1]))
  /\ c = "parse" => /\ r # <<>> /\ (r[1] = 0 \/ UpTo(r, a))
                    /\ l = <<>> \/ l = r
                    /\ w # <<>> => ~StartsAt(st, r[1])
  /\ c = "frame" => r # <<>> /\ UpTo(r, a) /\ FrameAt(st, r[1]) /\ l = <<>> /\ w = <<>>

StreamInv == Where(stream, arrived, pc, raw, leftover, wsLeft)

\* The words of the model for positions.
LEMMA Words ==
  /\ \A i : Start(i) = First(stream, i) /\ End(i) = Final(stream, i)
  /\ Length = Total(stream)
  /\ \A p : AtStart(p) <=> StartsAt(stream, p)
  BY DEF Start, End, First, Final, Length, Total, AtStart, StartsAt

\* ItemAt() of the position where an item starts is that item.
LEMMA ItemAtStart ==
  ASSUME stream \in Streams, NEW i \in DOMAIN stream
  PROVE  ItemAt(First(stream, i)) = i
  <1> DEFINE p == First(stream, i)
             In(j) == p \in First(stream, j)..Final(stream, j)
  <1>l. /\ Len(stream) \in Nat /\ DOMAIN stream = 1..Len(stream)
        /\ \A n \in DOMAIN stream : First(stream, n) \in Nat /\ Final(stream, n) \in Nat /\ First(stream, n) <= Final(stream, n)
    BY Layout
  <1>1. In(i)  BY <1>l
  <1>2. ASSUME NEW j \in DOMAIN stream, In(j)  PROVE j = i
    <2>1. i < j => Final(stream, i) < First(stream, j)  BY InOrder
    <2>2. j < i => Final(stream, j) < First(stream, i)  BY InOrder
    <2>3. QED  BY <1>2, <2>1, <2>2, <1>l
  <1>3. ItemAt(p) = CHOOSE j \in DOMAIN stream : In(j)  BY DEF ItemAt, Start, End, First, Final
  <1> HIDE DEF In, p
  <1>4. ItemAt(p) = i  BY <1>1, <1>2, <1>3
  <1>5. QED  BY <1>4 DEF p

\* Item i is in front of the piece s that comes last of a bytes, and t is
\* behind it.
InFront(st, i, a, s, t) ==
  /\ i \in DOMAIN st /\ First(st, i) = s[1] /\ UpTo(s, a) /\ Len(s) >= st[i].size
  /\ t \in Seq(Nat) /\ UpTo(t, a) /\ Len(t) = Len(s) - st[i].size
  /\ \A j \in 1..Len(t) : Final(st, i) < t[j]
  /\ Final(st, i) <= a /\ (t = <<>> <=> Final(st, i) = a)
  /\ t # <<>> => t[1] = Final(st, i) + 1 /\ t[1] <= a

\* The item that a loop finds whole is in front of what it looks at.
LEMMA WholeInFront ==
  ASSUME StreamInv, pc \in {"parse", "frame"}, WholeItem(raw)
  PROVE  /\ InFront(stream, ItemAt(raw[1]), arrived, raw, Rest(raw, stream[ItemAt(raw[1])].size))
         /\ wsLeft = <<>>
  <1>1. /\ stream \in Streams /\ arrived \in Nat /\ raw \in Seq(Nat) /\ raw # <<>>
        /\ raw[1] = 0 \/ UpTo(raw, arrived)
        /\ wsLeft # <<>> => ~StartsAt(stream, raw[1])
    BY DEF StreamInv, Where
  <1>2. ASSUME NEW i \in DOMAIN stream, First(stream, i) = raw[1], Len(raw) >= stream[i].size
        PROVE  /\ ItemAt(raw[1]) = i /\ wsLeft = <<>>
               /\ InFront(stream, i, arrived, raw, Rest(raw, stream[i].size))
    <2>1. ItemAt(raw[1]) = i  BY <1>1, <1>2, ItemAtStart
    <2>2. First(stream, i) # 0  BY <1>1, Layout
    <2>3. UpTo(raw, arrived) /\ wsLeft = <<>>  BY <1>1, <1>2, <2>2 DEF StartsAt
    <2> DEFINE t == Rest(raw, stream[i].size)
    <2>4. /\ t \in Seq(Nat) /\ UpTo(t, arrived) /\ Len(t) = Len(raw) - stream[i].size
          /\ \A j \in 1..Len(t) : Final(stream, i) < t[j]
          /\ Final(stream, i) <= arrived /\ (t = <<>> <=> Final(stream, i) = arrived)
          /\ t # <<>> => t[1] = Final(stream, i) + 1 /\ t[1] <= arrived
      BY <1>1, <1>2, <2>3, Consumed
    <2> HIDE DEF t
    <2>5. InFront(stream, i, arrived, raw, t)  BY <1>2, <2>3, <2>4 DEF InFront
    <2>6. QED  BY <2>1, <2>3, <2>5 DEF t
  <1>3. \E i \in DOMAIN stream : First(stream, i) = raw[1] /\ Len(raw) >= stream[i].size
    BY DEF WholeItem, Start, First
  <1>4. QED  BY <1>2, <1>3, Zenon

\* With nothing kept and an item's end reached, the next byte starts an item.
LEMMA BetweenItems ==
  ASSUME NEW st \in Streams, NEW i \in DOMAIN st
  PROVE  Between(st, Final(st, i), <<>>, <<>>)
  <1>1. Final(st, i) <= Total(st) /\ Total(st) \in Nat /\ Final(st, i) \in Nat
        /\ (Final(st, i) < Total(st) => i + 1 \in DOMAIN st /\ First(st, i + 1) = Final(st, i) + 1)
    BY Ends, Layout
  <1>2. Final(st, i) = Total(st) \/ StartsAt(st, Final(st, i) + 1)  BY <1>1 DEF StartsAt
  <1>3. QED  BY <1>2 DEF Between

\* A segment arrives.
LEMMA ArriveKeeps ==
  ASSUME StreamInv, NEW n \in 1..MaxSegment, Arrive(n)
  PROVE  StreamInv'
  <1> DEFINE s == Bytes(arrived + 1, arrived + n)
  <1>1. /\ stream \in Streams /\ arrived \in Nat /\ leftover \in Seq(Nat) /\ wsLeft \in Seq(Nat)
        /\ pc = "idle" /\ Between(stream, arrived, leftover, wsLeft)
    BY DEF StreamInv, Where, Arrive
  <1>2. n \in Nat \ {0}  BY StreamsAssumption
  <1>3. s \in Seq(Nat) /\ Len(s) = n /\ s # <<>> /\ UpTo(s, arrived + n)  BY <1>1, <1>2, SegmentUpTo
  <1>4. /\ raw' = s /\ arrived' = arrived + n /\ pc' = "http" /\ stream' = stream
        /\ leftover' = leftover /\ wsLeft' = wsLeft /\ arrived + n <= Length
    BY DEF Arrive, MaySend
  <1> HIDE DEF s
  <1>5. arrived + n <= Total(stream) /\ arrived + n - Len(s) = arrived /\ arrived + n \in Nat  BY <1>1, <1>2, <1>3, <1>4, Words
  <1>6. Where(stream, arrived + n, "http", s, leftover, wsLeft)  BY <1>1, <1>3, <1>5 DEF Where
  <1>7. QED  BY <1>4, <1>6 DEF StreamInv

\* HttpServerCodec takes the segment or passes it on.
LEMMA HttpEnterKeeps ==
  ASSUME StreamInv, NEW any, HttpEnter(any)
  PROVE  StreamInv'
  <1>1. /\ stream \in Streams /\ arrived \in Nat /\ arrived <= Total(stream)
        /\ raw \in Seq(Nat) /\ leftover \in Seq(Nat) /\ wsLeft \in Seq(Nat)
        /\ raw # <<>> /\ UpTo(raw, arrived) /\ Between(stream, arrived - Len(raw), leftover, wsLeft)
        /\ pc = "http"
    BY DEF StreamInv, Where, HttpEnter
  <1>2. raw[1] = arrived - Len(raw) + 1 /\ Len(raw) >= 1 /\ Len(raw) \in Nat  BY <1>1, FirstByte
  <1>3. stream' = stream /\ arrived' = arrived /\ wsLeft' = wsLeft  BY DEF HttpEnter
  <1>4. CASE leftover = <<>> /\ ~LooksLikeHttp(raw[1], any)
    <2>1. pc' = "ws" /\ raw' = raw /\ leftover' = leftover  BY <1>4 DEF HttpEnter
    <2>2. ASSUME wsLeft = <<>>  PROVE FrameAt(stream, raw[1])
      <3>1. StartsAt(stream, raw[1])
        <4>1. Total(stream) \in Nat  BY <1>1, Ends
        <4>2. arrived - Len(raw) # Total(stream)  BY <1>1, <1>2, <4>1
        <4>3. QED  BY <2>2, <4>2, <1>1, <1>2, <1>4 DEF Between
      <3>2. PICK i \in DOMAIN stream : First(stream, i) = raw[1]  BY <3>1 DEF StartsAt
      <3>3. ItemAt(raw[1]) = i  BY <3>2, <1>1, ItemAtStart
      <3>4. stream[i].k \notin Http  BY <3>1, <3>3, <1>4, Words DEF LooksLikeHttp
      <3>5. QED  BY <3>2, <3>4 DEF FrameAt
    <2>3. Where(stream, arrived, "ws", raw, leftover, wsLeft)  BY <2>2, <1>1, <1>4 DEF Where
    <2>4. QED  BY <2>1, <2>3, <1>3 DEF StreamInv
  <1>5. CASE ~(leftover = <<>> /\ ~LooksLikeHttp(raw[1], any)) /\ leftover = <<>>
    <2>1. pc' = "parse" /\ raw' = raw /\ leftover' = leftover
      <3>1. pc' = "parse" /\ raw' = leftover \o raw /\ leftover' = leftover  BY <1>5 DEF HttpEnter
      <3>2. QED  BY <3>1, <1>1, <1>5, ConcatEmptySeq
    <2>2. wsLeft # <<>> => ~StartsAt(stream, raw[1])  BY <1>1, <1>2, <1>5 DEF Between
    <2>3. Where(stream, arrived, "parse", raw, leftover, wsLeft)  BY <2>2, <1>1, <1>5 DEF Where
    <2>4. QED  BY <2>1, <2>3, <1>3 DEF StreamInv
  <1>6. CASE leftover # <<>>
    <2> DEFINE t == leftover \o raw
    <2>1. pc' = "parse" /\ raw' = t /\ leftover' = t  BY <1>6 DEF HttpEnter
    <2>2. /\ t \in Seq(Nat) /\ Len(t) = Len(leftover) + Len(raw)
          /\ \A j \in 1..Len(leftover) + Len(raw) : t[j] = IF j <= Len(leftover) THEN leftover[j] ELSE raw[j - Len(leftover)]
      BY <1>1, ConcatProperties
    <2>3. UpTo(leftover, arrived - Len(raw)) => UpTo(t, arrived)  BY <1>1, JoinUpTo
    <2> HIDE DEF t
    <2>4. Len(leftover) \in Nat /\ Len(leftover) >= 1  BY <1>1, <1>6, EmptySeq
    <2>5. t # <<>> /\ t[1] = leftover[1]
      <3>1. 1 \in 1..Len(leftover) + Len(raw) /\ 1 <= Len(leftover) /\ Len(t) # 0  BY <2>2, <2>4, <1>2
      <3>2. t[1] = leftover[1]  BY <3>1, <2>2
      <3>3. QED  BY <3>1, <3>2
    <2>6. leftover[1] = 0 \/ UpTo(leftover, arrived - Len(raw))  BY <1>1, <1>6 DEF Between
    <2>7. wsLeft # <<>> => ~StartsAt(stream, t[1])  BY <2>5, <1>1, <1>6 DEF Between
    <2>8. Where(stream, arrived, "parse", t, t, wsLeft)  BY <2>2, <2>3, <2>5, <2>6, <2>7, <1>1 DEF Where
    <2>9. QED  BY <2>1, <2>8, <1>3 DEF StreamInv
  <1>7. QED  BY <1>4, <1>5, <1>6

\* channelRead() returns with nothing kept.
LEMMA ReturnsKeeps ==
  ASSUME StreamInv, NEW lost, Returns(lost), stream' = stream, arrived' = arrived, leftover' = <<>>, wsLeft' = <<>>,
         lost = <<>> => Between(stream, arrived, <<>>, <<>>)
  PROVE  StreamInv'
  <1>1. stream \in Streams /\ arrived \in Nat /\ arrived <= Total(stream)  BY DEF StreamInv, Where
  <1>2. raw' = <<>> /\ pc' \in {"idle", "end"}
    BY DEF Returns
  <1>3. ASSUME pc' = "idle"  PROVE Between(stream, arrived, <<>>, <<>>)
    <2>1. CASE lost = <<>>  BY <2>1
    <2>2. CASE lost # <<>>
      <3>1. arrived = Length \/ AtStart(arrived + 1)  BY <1>3, <2>2 DEF Returns
      <3>2. arrived = Total(stream) \/ StartsAt(stream, arrived + 1)  BY <3>1, Words
      <3>3. QED  BY <3>2 DEF Between
    <2>3. QED  BY <2>1, <2>2
  <1>4. Where(stream, arrived, pc', <<>>, <<>>, <<>>)  BY <1>1, <1>2, <1>3 DEF Where
  <1>5. QED  BY <1>2, <1>4 DEF StreamInv

\* A request that is refused.
LEMMA HttpRejectKeeps ==
  ASSUME StreamInv, HttpReject
  PROVE  StreamInv'
  <1> DEFINE i == ItemAt(raw[1])
             t == Rest(raw, stream[i].size)
  <1>1. pc = "parse" /\ WholeItem(raw)  BY DEF HttpReject, Refused, Parsed
  <1>2. InFront(stream, i, arrived, raw, t) /\ wsLeft = <<>>  BY <1>1, WholeInFront
  <1>3. /\ stream' = stream /\ arrived' = arrived /\ leftover' = <<>> /\ wsLeft' = wsLeft
        /\ Returns(t)
    BY DEF HttpReject
  <1> HIDE DEF i, t
  <1>4. t = <<>> => Between(stream, arrived, <<>>, <<>>)
    BY <1>2, BetweenItems DEF InFront, StreamInv, Where
  <1>5. QED  BY <1>2, <1>3, <1>4, ReturnsKeeps

\* An incomplete request is kept, as it was or garbled.
LEMMA HttpIncompleteKeeps ==
  ASSUME StreamInv, NEW garble \in BOOLEAN, HttpIncomplete(garble)
  PROVE  StreamInv'
  <1>1. /\ stream \in Streams /\ arrived \in Nat /\ arrived <= Total(stream)
        /\ raw \in Seq(Nat) /\ leftover \in Seq(Nat) /\ wsLeft \in Seq(Nat) /\ pc = "parse"
        /\ raw # <<>> /\ (raw[1] = 0 \/ UpTo(raw, arrived))
        /\ leftover = <<>> \/ leftover = raw
        /\ wsLeft # <<>> => ~StartsAt(stream, raw[1])
    BY DEF StreamInv, Where, HttpIncomplete
  <1>2. /\ stream' = stream /\ arrived' = arrived /\ wsLeft' = wsLeft /\ raw' = <<>> /\ pc' = "idle"
        /\ leftover' = IF leftover # <<>> THEN leftover ELSE IF garble THEN [j \in DOMAIN raw |-> 0] ELSE raw
    BY DEF HttpIncomplete
  <1> DEFINE z == [j \in DOMAIN raw |-> 0]
  <1>3. leftover' = raw \/ leftover' = z  BY <1>1, <1>2
  <1>4. z \in Seq(Nat) /\ z # <<>> /\ z[1] = 0
    <2>1. Len(raw) \in Nat /\ Len(raw) # 0 /\ DOMAIN raw = 1..Len(raw)  BY <1>1, EmptySeq
    <2>2. z \in [1..Len(raw) -> Nat]  BY <2>1
    <2>3. 1 \in DOMAIN raw  BY <2>1
    <2>4. z[1] = 0  BY <2>3
    <2> HIDE DEF z
    <2>5. z \in Seq(Nat) /\ Len(z) = Len(raw)  BY <2>1, <2>2
    <2>6. QED  BY <2>1, <2>4, <2>5
  <1>5. ~StartsAt(stream, 0)
    BY <1>1, Layout DEF StartsAt
  <1> HIDE DEF z
  <1>6. Between(stream, arrived, raw, wsLeft)  BY <1>1 DEF Between
  <1>7. Between(stream, arrived, z, wsLeft)  BY <1>4, <1>5 DEF Between
  <1>8. Where(stream, arrived, "idle", <<>>, leftover', wsLeft)
    BY <1>1, <1>3, <1>4, <1>6, <1>7 DEF Where
  <1>9. QED  BY <1>2, <1>8 DEF StreamInv

\* A request is handed on and consumed.
LEMMA HttpDeliverStays ==
  ASSUME StreamInv, HttpDeliver
  PROVE  StreamInv'
  <1> DEFINE i == ItemAt(raw[1])
             t == Rest(raw, stream[i].size)
  <1>1. pc = "parse" /\ WholeItem(raw)  BY DEF HttpDeliver, HandOn, Parsed
  <1>2. InFront(stream, i, arrived, raw, t) /\ wsLeft = <<>>  BY <1>1, WholeInFront
  <1>3. /\ stream' = stream /\ arrived' = arrived /\ leftover' = <<>> /\ wsLeft' = wsLeft
        /\ raw' = t /\ pc' = IF t = <<>> THEN "idle" ELSE "parse"
    BY DEF HttpDeliver, HandOn
  <1>4. stream \in Streams /\ arrived \in Nat /\ arrived <= Total(stream)  BY DEF StreamInv, Where
  <1> HIDE DEF i, t
  <1>5. t = <<>> => Between(stream, arrived, <<>>, <<>>)
    BY <1>2, <1>4, BetweenItems DEF InFront
  <1>6. t \in Seq(Nat) /\ UpTo(t, arrived)  BY <1>2 DEF InFront
  <1>7. Where(stream, arrived, pc', t, <<>>, <<>>)
    BY <1>3, <1>4, <1>5, <1>6 DEF Where
  <1>8. QED  BY <1>2, <1>3, <1>7 DEF StreamInv

\* WebSocketCodec puts the segment behind what it kept.
LEMMA WsEnterKeeps ==
  ASSUME StreamInv, WsEnter
  PROVE  StreamInv'
  <1> DEFINE t == wsLeft \o raw
  <1>1. /\ stream \in Streams /\ arrived \in Nat /\ arrived <= Total(stream)
        /\ raw \in Seq(Nat) /\ wsLeft \in Seq(Nat) /\ leftover = <<>>
        /\ raw # <<>> /\ UpTo(raw, arrived) /\ Between(stream, arrived - Len(raw), leftover, wsLeft)
        /\ wsLeft = <<>> => FrameAt(stream, raw[1])
    BY DEF StreamInv, Where, WsEnter
  <1>2. /\ stream' = stream /\ arrived' = arrived /\ wsLeft' = <<>> /\ leftover' = leftover
        /\ raw' = t /\ pc' = "frame"
    BY DEF WsEnter
  <1>3. t \in Seq(Nat) /\ t # <<>> /\ UpTo(t, arrived) /\ FrameAt(stream, t[1])
    <2>1. CASE wsLeft = <<>>
      <3>1. t = raw  BY <2>1, <1>1, ConcatEmptySeq
      <3>2. QED  BY <3>1, <2>1, <1>1
    <2>2. CASE wsLeft # <<>>
      <3>1. UpTo(wsLeft, arrived - Len(raw)) /\ FrameAt(stream, wsLeft[1])  BY <2>2, <1>1 DEF Between
      <3>2. UpTo(t, arrived)  BY <3>1, <1>1, JoinUpTo
      <3>3. /\ t \in Seq(Nat) /\ Len(t) = Len(wsLeft) + Len(raw)
            /\ \A j \in 1..Len(wsLeft) + Len(raw) : t[j] = IF j <= Len(wsLeft) THEN wsLeft[j] ELSE raw[j - Len(wsLeft)]
        BY <1>1, ConcatProperties
      <3> HIDE DEF t
      <3>4. Len(wsLeft) \in Nat /\ Len(wsLeft) # 0 /\ Len(raw) \in Nat  BY <2>2, <1>1, EmptySeq
      <3>5. 1 \in 1..Len(wsLeft) + Len(raw) /\ 1 <= Len(wsLeft) /\ Len(t) # 0  BY <3>3, <3>4
      <3>6. t[1] = wsLeft[1] /\ t # <<>>  BY <3>3, <3>5
      <3>7. QED  BY <3>1, <3>2, <3>3, <3>6
    <2>3. QED  BY <2>1, <2>2
  <1> HIDE DEF t
  <1>4. Where(stream, arrived, "frame", t, <<>>, <<>>)  BY <1>1, <1>3 DEF Where
  <1>5. QED  BY <1>1, <1>2, <1>4 DEF StreamInv

\* What the WebSocket loop looks at.
LEMMA FrameState ==
  ASSUME StreamInv, pc = "frame"
  PROVE  /\ stream \in Streams /\ arrived \in Nat /\ arrived <= Total(stream)
         /\ raw \in Seq(Nat) /\ raw # <<>> /\ UpTo(raw, arrived) /\ FrameAt(stream, raw[1])
         /\ leftover = <<>> /\ wsLeft = <<>>
  BY DEF StreamInv, Where

\* A frame that is not there to its end is kept.
LEMMA WsIncompleteKeeps ==
  ASSUME StreamInv, WsIncomplete
  PROVE  StreamInv'
  <1>1. /\ stream \in Streams /\ arrived \in Nat /\ arrived <= Total(stream)
        /\ raw \in Seq(Nat) /\ raw # <<>> /\ UpTo(raw, arrived) /\ FrameAt(stream, raw[1])
        /\ leftover = <<>>
    BY FrameState DEF WsIncomplete
  <1>2. /\ stream' = stream /\ arrived' = arrived /\ leftover' = leftover /\ wsLeft' = raw
        /\ raw' = <<>> /\ pc' = "idle" /\ ~WholeItem(raw)
    BY DEF WsIncomplete, Returns
  <1>3. ~StartsAt(stream, arrived + 1)
    <2>1. PICK i \in DOMAIN stream : First(stream, i) = raw[1]  BY <1>1 DEF FrameAt
    <2>2. ~(Len(raw) >= stream[i].size)
      <3>1. SUFFICES ASSUME Len(raw) >= stream[i].size  PROVE FALSE
        OBVIOUS
      <3>2. SubSeq(raw, 1, stream[i].size) = Bytes(First(stream, i), Final(stream, i))
        BY <3>1, <2>1, <1>1, WholeByLength
      <3>3. Start(i) = raw[1] /\ SubSeq(raw, 1, stream[i].size) = Bytes(Start(i), End(i))
        BY <3>2, <2>1, Words
      <3>4. QED  BY <3>1, <3>3, <1>2, Zenon DEF WholeItem
    <2>3. QED  BY <2>1, <2>2, <1>1, CutShort
  <1>4. Between(stream, arrived, <<>>, raw)  BY <1>1, <1>3 DEF Between
  <1>5. Where(stream, arrived, "idle", <<>>, <<>>, raw)  BY <1>1, <1>4 DEF Where
  <1>6. QED  BY <1>1, <1>2, <1>5 DEF StreamInv

\* A frame that is refused takes the rest of the read buffer with it.
LEMMA WsRefuseKeeps ==
  ASSUME StreamInv, WsRefuse
  PROVE  StreamInv'
  <1>1. raw # <<>> /\ leftover = <<>> /\ wsLeft = <<>>  BY FrameState DEF WsRefuse
  <1>2. stream' = stream /\ arrived' = arrived /\ leftover' = leftover /\ wsLeft' = wsLeft /\ Returns(raw)
    BY DEF WsRefuse
  <1>3. QED  BY <1>1, <1>2, ReturnsKeeps

\* A frame is consumed and the loop goes on.
LEMMA WsNextKeeps ==
  ASSUME StreamInv, pc = "frame", WholeItem(raw), WsNext,
         stream' = stream, arrived' = arrived, leftover' = leftover, wsLeft' = wsLeft
  PROVE  StreamInv'
  <1> DEFINE i == ItemAt(raw[1])
             t == Rest(raw, stream[i].size)
  <1>1. /\ stream \in Streams /\ arrived \in Nat /\ arrived <= Total(stream)
        /\ raw \in Seq(Nat) /\ FrameAt(stream, raw[1]) /\ leftover = <<>> /\ wsLeft = <<>>
    BY FrameState
  <1>2. InFront(stream, i, arrived, raw, t)  BY WholeInFront
  <1>3. raw' = t /\ pc' = IF Len(raw) = stream[i].size THEN "idle" ELSE "frame"
    BY DEF WsNext, Frame
  <1>4. stream[i].k \notin Http
    <2>1. PICK j \in DOMAIN stream : First(stream, j) = raw[1] /\ stream[j].k \notin Http
      BY <1>1 DEF FrameAt
    <2>2. i = j  BY <2>1, <1>1, ItemAtStart
    <2>3. QED  BY <2>1, <2>2
  <1> HIDE DEF i, t
  <1>5. i \in DOMAIN stream /\ t \in Seq(Nat) /\ UpTo(t, arrived) /\ Len(t) = Len(raw) - stream[i].size
        /\ stream[i].size \in Nat /\ Len(raw) \in Nat
    BY <1>1, <1>2, Layout DEF InFront
  <1>6. Len(raw) = stream[i].size <=> t = <<>>
    <2>1. Len(t) = 0 <=> t = <<>>  BY <1>5, EmptySeq
    <2>2. QED  BY <2>1, <1>5
  <1>7. t = <<>> => Between(stream, arrived, <<>>, <<>>)
    BY <1>1, <1>2, BetweenItems DEF InFront
  <1>8. t # <<>> => FrameAt(stream, t[1])
    <2> SUFFICES ASSUME t # <<>> PROVE FrameAt(stream, t[1])
      OBVIOUS
    <2>1. t[1] = Final(stream, i) + 1 /\ Final(stream, i) + 1 <= arrived  BY <1>2 DEF InFront
    <2>2. Final(stream, i) < Total(stream)
      BY <2>1, <1>1, <1>5, Ends, Layout
    <2>3. i + 1 \in DOMAIN stream /\ First(stream, i + 1) = Final(stream, i) + 1
      BY <2>2, <1>1, <1>5, Ends
    <2>4. i <= i + 1  BY <1>1, <1>5, Layout
    <2>5. stream[i + 1].k \notin Http  BY <2>3, <2>4, <1>1, <1>4, <1>5, FramesFollow
    <2>6. QED  BY <2>1, <2>3, <2>5 DEF FrameAt
  <1>9. Where(stream, arrived, pc', t, <<>>, <<>>)
    BY <1>1, <1>3, <1>5, <1>6, <1>7, <1>8 DEF Where
  <1>10. QED  BY <1>1, <1>3, <1>9 DEF StreamInv

\* CLOSE takes the rest of the segment with it.
LEMMA WsCloseKeeps ==
  ASSUME StreamInv, WsClose
  PROVE  StreamInv'
  <1> DEFINE i == ItemAt(raw[1])
             t == Rest(raw, stream[i].size)
  <1>1. pc = "frame" /\ WholeItem(raw)  BY DEF WsClose
  <1>2. InFront(stream, i, arrived, raw, t) /\ wsLeft = <<>> /\ leftover = <<>>  BY <1>1, WholeInFront, FrameState
  <1>3. /\ stream' = stream /\ arrived' = arrived /\ leftover' = leftover /\ wsLeft' = wsLeft
        /\ Returns(t)
    BY DEF WsClose, Frame
  <1> HIDE DEF i, t
  <1>4. t = <<>> => Between(stream, arrived, <<>>, <<>>)
    BY <1>2, BetweenItems DEF InFront, StreamInv, Where
  <1>5. QED  BY <1>2, <1>3, <1>4, ReturnsKeeps

\* Before anything has arrived.
LEMMA StreamInvInit == Init => StreamInv
  <1> SUFFICES ASSUME Init PROVE StreamInv
    OBVIOUS
  <1>1. /\ stream \in Streams /\ arrived = 0 /\ pc = "idle" /\ raw = <<>> /\ leftover = <<>> /\ wsLeft = <<>>
    BY DEF Init, WsInit
  <1>2. Total(stream) \in Nat  BY <1>1, Ends
  <1>3. 0 = Total(stream) \/ StartsAt(stream, 0 + 1)
    <2>1. CASE stream = <<>>  BY <2>1 DEF Total
    <2>2. CASE stream # <<>>
      <3>1. stream \in Seq(Item)  BY <1>1, StreamsAssumption
      <3>2. 1 \in DOMAIN stream  BY <3>1, <2>2, EmptySeq
      <3>3. stream[1].at = 1  BY <3>2, <1>1, StreamsAssumption
      <3>4. QED  BY <3>2, <3>3 DEF StartsAt, First
    <2>3. QED  BY <2>1, <2>2
  <1>4. Where(stream, 0, "idle", <<>>, <<>>, <<>>)  BY <1>1, <1>2, <1>3 DEF Where, Between
  <1>5. QED  BY <1>1, <1>4 DEF StreamInv

\* Every step keeps the bytes in their places.
LEMMA StreamInvStep == StreamInv /\ [Next]_vars => StreamInv'
  <1> SUFFICES ASSUME StreamInv, [Next]_vars PROVE StreamInv'
    OBVIOUS
  <1>1. ASSUME WsFragment PROVE StreamInv'
    BY <1>1, WsNextKeeps DEF WsFragment
  <1>2. ASSUME WsDeliver PROVE StreamInv'
    BY <1>2, WsNextKeeps DEF WsDeliver
  <1>3. ASSUME NEW i \in DOMAIN stream, NEW what \in Parts, RequestGet(i, what)  PROVE StreamInv'
    BY <1>3 DEF RequestGet, StreamInv
  <1>4. CASE UNCHANGED vars
    BY <1>4 DEF vars, StreamInv
  <1>5. QED
    BY <1>1, <1>2, <1>3, <1>4, ArriveKeeps, HttpEnterKeeps, HttpIncompleteKeeps, HttpRejectKeeps, HttpDeliverStays,
       WsEnterKeeps, WsIncompleteKeeps, WsRefuseKeeps, WsCloseKeeps, Zenon DEF Next

---------------------------------------------------------------------------
(* What was handed on *)

Ascending(s) == \A m, n \in DOMAIN s : m < n => s[m] < s[n]

\* The items in the messages D that were delivered and in the fragments F.
Taken(D, F) == Range(F) \cup UNION {Range(D[d].parts) : d \in DOMAIN D}

\* The messages D and one more.
With(D, k, P) == Append(D, [k |-> k, parts |-> P])

\* Every message has its own items, in order, and its last one comes behind
\* those of the messages before; the fragments that wait are in no message.
Ordered(D, F) ==
  /\ D \in Seq([k : Kinds, parts : Seq(Nat)]) /\ F \in Seq(Nat)
  /\ \A d \in DOMAIN D : D[d].parts # <<>> /\ Ascending(D[d].parts)
  /\ \A d, e \in DOMAIN D : d < e => Last(D[d].parts) < Last(D[e].parts)
  /\ \A d, e \in DOMAIN D : d # e => Range(D[d].parts) \cap Range(D[e].parts) = {}
  /\ Ascending(F)
  /\ \A d \in DOMAIN D : Range(D[d].parts) \cap Range(F) = {}

\* Item c is behind: all of it has arrived, and nothing that is kept or
\* looked at starts with a byte of it.
Ahead(p, s) == s # <<>> => s[1] = 0 \/ p < s[1]
Passed(st, a, r, l, w, c) ==
  /\ c \in DOMAIN st /\ Final(st, c) <= a
  /\ Ahead(Final(st, c), r) /\ Ahead(Final(st, c), l) /\ Ahead(Final(st, c), w)

OrderInv ==
  /\ StreamInv
  /\ frag \in [parts : Seq(Nat), k : Kinds]
  /\ Ordered(delivered, frag.parts)
  /\ \A c \in Taken(delivered, frag.parts) : Passed(stream, arrived, raw, leftover, wsLeft, c)

\* The fields of a message.
LEMMA MessageFields ==
  ASSUME NEW D \in Seq([k : Kinds, parts : Seq(Nat)]), NEW d \in DOMAIN D
  PROVE  D[d].parts \in Seq(Nat) /\ d \in 1..Len(D) /\ Len(D) \in Nat
  <1> DEFINE S == [k : Kinds, parts : Seq(Nat)]
  <1>0. D \in Seq(S)  OBVIOUS
  <1>1. D[d] \in S
    <2> HIDE DEF S
    <2> QED  BY <1>0
  <1>2. D[d].parts \in Seq(Nat)  BY <1>1
  <1>3. QED  BY <1>2

\* The last item of a message is one of its items.
LEMMA LastIn ==
  ASSUME NEW s \in Seq(Nat), s # <<>>
  PROVE  Last(s) \in Range(s) /\ Last(s) \in Nat
  <1>1. Len(s) \in Nat /\ Len(s) # 0 /\ DOMAIN s = 1..Len(s)  BY EmptySeq
  <1>2. Len(s) \in DOMAIN s  BY <1>1
  <1>3. QED  BY <1>2 DEF Last, Range

\* An item that was taken is a fragment or in a message.
LEMMA TakenIs ==
  ASSUME NEW D, NEW F
  PROVE  /\ Range(F) \subseteq Taken(D, F)
         /\ \A d \in DOMAIN D : Range(D[d].parts) \subseteq Taken(D, F)
         /\ \A c \in Taken(D, F) : c \in Range(F) \/ \E d \in DOMAIN D : c \in Range(D[d].parts)
  <1> DEFINE U == {Range(D[d].parts) : d \in DOMAIN D}
  <1>1. Taken(D, F) = Range(F) \cup UNION U  BY DEF Taken
  <1>2. \A d \in DOMAIN D : Range(D[d].parts) \in U  OBVIOUS
  <1>3. \A u \in U : \E d \in DOMAIN D : u = Range(D[d].parts)  OBVIOUS
  <1> HIDE DEF U
  <1>4. Range(F) \subseteq Taken(D, F)  BY <1>1
  <1>5. \A d \in DOMAIN D : Range(D[d].parts) \subseteq Taken(D, F)  BY <1>1, <1>2
  <1>6. \A c \in Taken(D, F) : c \in Range(F) \/ \E d \in DOMAIN D : c \in Range(D[d].parts)
    <2>1. \A c \in Taken(D, F) : c \in Range(F) \/ \E u \in U : c \in u  BY <1>1
    <2>2. QED  BY <2>1, <1>3
  <1>7. QED  BY <1>4, <1>5, <1>6

\* P is a message of item i, and of fragments of F, that may come behind D,
\* with the fragments G left.
Fits(D, F, i, k, P, G) ==
  /\ Ordered(D, F) /\ i \in Nat /\ k \in Kinds /\ \A c \in Taken(D, F) : c < i
  /\ P \in Seq(Nat) /\ P # <<>> /\ Last(P) = i /\ Ascending(P) /\ Range(P) \subseteq Range(F) \cup {i}
  /\ G \in Seq(Nat) /\ Ascending(G) /\ Range(G) \subseteq Range(F) /\ Range(P) \cap Range(G) = {}

\* A message of the item in front, and of fragments that waited, is added.
LEMMA DeliverOrdered ==
  ASSUME NEW D, NEW F, NEW i, NEW k, NEW P, NEW G, Fits(D, F, i, k, P, G)
  PROVE  Ordered(With(D, k, P), G) /\ Taken(With(D, k, P), G) \subseteq Taken(D, F) \cup {i}
  <1> DEFINE x == [k |-> k, parts |-> P]
             E == Append(D, x)
  <1>0. /\ Ordered(D, F) /\ i \in Nat /\ k \in Kinds /\ \A c \in Taken(D, F) : c < i
        /\ P \in Seq(Nat) /\ P # <<>> /\ Last(P) = i /\ Ascending(P) /\ Range(P) \subseteq Range(F) \cup {i}
        /\ G \in Seq(Nat) /\ Ascending(G) /\ Range(G) \subseteq Range(F) /\ Range(P) \cap Range(G) = {}
    BY DEF Fits
  <1>1. D \in Seq([k : Kinds, parts : Seq(Nat)]) /\ Len(D) \in Nat /\ DOMAIN D = 1..Len(D)  BY <1>0 DEF Ordered
  <1>2. x \in [k : Kinds, parts : Seq(Nat)] /\ x.parts = P  BY <1>0
  <1> HIDE DEF x
  <1>3. /\ E \in Seq([k : Kinds, parts : Seq(Nat)]) /\ DOMAIN E = 1..Len(D) + 1
        /\ \A d \in DOMAIN D : E[d] = D[d]
        /\ E[Len(D) + 1] = x
    BY <1>1, <1>2
  <1> HIDE DEF E
  <1> DEFINE new == Len(D) + 1
  <1>4. \A d \in DOMAIN E : \/ d \in DOMAIN D /\ d < new /\ E[d].parts = D[d].parts
                            \/ d = new /\ E[d].parts = P
    <2>1. \A d \in DOMAIN E : (d \in DOMAIN D /\ d < new) \/ d = new  BY <1>1, <1>3
    <2>2. QED  BY <2>1, <1>2, <1>3
  <1>5. \A d \in DOMAIN D : /\ Range(D[d].parts) \cap Range(P) = {}
                            /\ Range(D[d].parts) \cap Range(G) = {}
                            /\ Last(D[d].parts) < i
    <2> SUFFICES ASSUME NEW d \in DOMAIN D
                 PROVE  /\ Range(D[d].parts) \cap Range(P) = {} /\ Range(D[d].parts) \cap Range(G) = {}
                        /\ Last(D[d].parts) < i
      OBVIOUS
    <2>1. Range(D[d].parts) \subseteq Taken(D, F)  BY TakenIs
    <2>2. i \notin Range(D[d].parts)  BY <2>1, <1>0
    <2>3. Range(D[d].parts) \cap Range(F) = {}  BY <1>0 DEF Ordered
    <2>4. D[d].parts \in Seq(Nat) /\ D[d].parts # <<>>  BY <1>0, <1>1, MessageFields DEF Ordered
    <2>5. Last(D[d].parts) \in Range(D[d].parts)  BY <2>4, LastIn
    <2>6. QED  BY <2>1, <2>2, <2>3, <2>5, <1>0
  <1>6. \A d \in DOMAIN E : E[d].parts # <<>> /\ Ascending(E[d].parts)
    BY <1>0, <1>4 DEF Ordered
  <1>7. ASSUME NEW d \in DOMAIN E, NEW e \in DOMAIN E, d < e
        PROVE  Last(E[d].parts) < Last(E[e].parts)
    <2>1. d \in DOMAIN D /\ E[d].parts = D[d].parts  BY <1>1, <1>3, <1>4, <1>7
    <2>2. CASE e \in DOMAIN D /\ E[e].parts = D[e].parts  BY <2>1, <2>2, <1>0, <1>7 DEF Ordered
    <2>3. CASE E[e].parts = P  BY <2>1, <2>3, <1>0, <1>5
    <2>4. QED  BY <2>2, <2>3, <1>4
  <1>8. ASSUME NEW d \in DOMAIN E, NEW e \in DOMAIN E, d # e
        PROVE  Range(E[d].parts) \cap Range(E[e].parts) = {}
    <2>1. CASE d \in DOMAIN D /\ e \in DOMAIN D /\ E[d].parts = D[d].parts /\ E[e].parts = D[e].parts
      BY <2>1, <1>0, <1>8 DEF Ordered
    <2>2. CASE d \in DOMAIN D /\ E[d].parts = D[d].parts /\ E[e].parts = P  BY <2>2, <1>5
    <2>3. CASE e \in DOMAIN D /\ E[e].parts = D[e].parts /\ E[d].parts = P  BY <2>3, <1>5
    <2>4. QED  BY <2>1, <2>2, <2>3, <1>4, <1>8
  <1>9. \A d \in DOMAIN E : Range(E[d].parts) \cap Range(G) = {}  BY <1>0, <1>4, <1>5
  <1>10. Ordered(E, G)  BY <1>0, <1>3, <1>6, <1>7, <1>8, <1>9 DEF Ordered
  <1>11. Taken(E, G) \subseteq Taken(D, F) \cup {i}
    <2>1. Range(F) \subseteq Taken(D, F) /\ \A d \in DOMAIN D : Range(D[d].parts) \subseteq Taken(D, F)  BY TakenIs
    <2>2. \A d \in DOMAIN E : Range(E[d].parts) \subseteq Taken(D, F) \cup {i}  BY <2>1, <1>0, <1>4
    <2>3. \A c \in Taken(E, G) : c \in Range(G) \/ \E d \in DOMAIN E : c \in Range(E[d].parts)  BY TakenIs
    <2>4. QED  BY <2>1, <2>2, <2>3, <1>0
  <1>12. QED  BY <1>10, <1>11 DEF E, x, With

\* The fragments change: the item in front joins them or starts new ones.
LEMMA FragmentOrdered ==
  ASSUME NEW D, NEW F, Ordered(D, F), NEW i \in Nat, \A c \in Taken(D, F) : c < i,
         NEW G \in Seq(Nat), Ascending(G), Range(G) \subseteq Range(F) \cup {i}
  PROVE  Ordered(D, G) /\ Taken(D, G) \subseteq Taken(D, F) \cup {i}
  <1>1. \A d \in DOMAIN D : Range(D[d].parts) \subseteq Taken(D, F)  BY TakenIs
  <1>2. i \notin Taken(D, F)
    <2>1. ~(i < i)  OBVIOUS
    <2>2. QED  BY <2>1
  <1>3. \A d \in DOMAIN D : Range(D[d].parts) \cap Range(F) = {}  BY DEF Ordered
  <1>4. \A d \in DOMAIN D : Range(D[d].parts) \cap Range(G) = {}  BY <1>1, <1>2, <1>3
  <1>5. Ordered(D, G)  BY <1>4 DEF Ordered
  <1>6. /\ Range(F) \subseteq Taken(D, F)
        /\ \A c \in Taken(D, G) : c \in Range(G) \/ \E d \in DOMAIN D : c \in Range(D[d].parts)
    BY TakenIs
  <1>7. Taken(D, G) \subseteq Taken(D, F) \cup {i}  BY <1>1, <1>6
  <1>8. QED  BY <1>5, <1>7

\* The fragments with another sequence of frames.
LEMMA OtherParts ==
  ASSUME NEW f \in [parts : Seq(Nat), k : Kinds], NEW P \in Seq(Nat)
  PROVE  [f EXCEPT !.parts = P] = [parts |-> P, k |-> f.k]
  OBVIOUS

\* One item, and one more behind others.
LEMMA OneMore ==
  ASSUME NEW F \in Seq(Nat), Ascending(F), NEW i \in Nat, \A c \in Range(F) : c < i
  PROVE  /\ <<i>> \in Seq(Nat) /\ <<i>> # <<>> /\ Ascending(<<i>>) /\ Range(<<i>>) = {i} /\ Last(<<i>>) = i
         /\ Append(F, i) \in Seq(Nat) /\ Append(F, i) # <<>> /\ Ascending(Append(F, i))
         /\ Range(Append(F, i)) = Range(F) \cup {i} /\ Last(Append(F, i)) = i
         /\ <<>> \in Seq(Nat) /\ Ascending(<<>>) /\ Range(<<>>) = {}
  <1>1. /\ <<i>> \in Seq(Nat) /\ <<i>> # <<>> /\ Ascending(<<i>>) /\ Range(<<i>>) = {i} /\ Last(<<i>>) = i
    <2>1. <<i>> \in Seq(Nat) /\ Len(<<i>>) = 1 /\ DOMAIN <<i>> = {1} /\ <<i>>[1] = i  OBVIOUS
    <2>2. <<i>> # <<>>  OBVIOUS
    <2>3. QED  BY <2>1, <2>2 DEF Ascending, Range, Last
  <1>2. <<>> \in Seq(Nat) /\ Ascending(<<>>) /\ Range(<<>>) = {}
    <2>1. <<>> \in Seq(Nat) /\ DOMAIN <<>> = {}  OBVIOUS
    <2>2. QED  BY <2>1 DEF Ascending, Range
  <1> DEFINE G == Append(F, i)
  <1>3. /\ Len(F) \in Nat /\ DOMAIN F = 1..Len(F) /\ G \in Seq(Nat) /\ Len(G) = Len(F) + 1 /\ DOMAIN G = 1..Len(F) + 1
        /\ \A m \in DOMAIN F : G[m] = F[m] /\ F[m] \in Nat
        /\ G[Len(F) + 1] = i
    OBVIOUS
  <1> HIDE DEF G
  <1>4. G # <<>>  BY <1>3
  <1>5. Last(G) = i  BY <1>3 DEF Last
  <1>6. \A m \in DOMAIN F : F[m] \in Range(F)  BY DEF Range
  <1>7. Ascending(G)
    <2> SUFFICES ASSUME NEW m \in DOMAIN G, NEW n \in DOMAIN G, m < n PROVE G[m] < G[n]
      BY DEF Ascending
    <2>1. m \in DOMAIN F /\ (n \in DOMAIN F \/ n = Len(F) + 1)  BY <1>3
    <2>2. n \in DOMAIN F => G[m] < G[n]  BY <2>1, <1>3 DEF Ascending
    <2>3. G[m] < i  BY <2>1, <1>3, <1>6
    <2>4. QED  BY <2>1, <2>2, <2>3, <1>3
  <1>8. Range(G) = Range(F) \cup {i}
    <2>1. \A m \in DOMAIN G : m \in DOMAIN F \/ m = Len(F) + 1  BY <1>3
    <2>2. \A m \in DOMAIN G : G[m] \in Range(F) \cup {i}  BY <2>1, <1>3, <1>6
    <2>3. \A m \in DOMAIN F : m \in DOMAIN G  BY <1>3
    <2>4. \A m \in DOMAIN F : F[m] \in Range(G)  BY <2>3, <1>3 DEF Range
    <2>5. i \in Range(G)
      <3>1. Len(F) + 1 \in DOMAIN G  BY <1>3
      <3>2. QED  BY <3>1, <1>3 DEF Range
    <2>6. Range(G) \subseteq Range(F) \cup {i}  BY <2>2 DEF Range
    <2>7. Range(F) \subseteq Range(G)  BY <2>4 DEF Range
    <2>8. QED  BY <2>5, <2>6, <2>7
  <1>9. QED  BY <1>1, <1>2, <1>3, <1>4, <1>5, <1>7, <1>8 DEF G

\* The item in front of what a loop looks at comes behind all that are passed,
\* and when it is consumed it is passed as well.
LEMMA FrontPasses ==
  ASSUME StreamInv, pc \in {"parse", "frame"}, WholeItem(raw)
  PROVE  LET i == ItemAt(raw[1])
             t == Rest(raw, stream[i].size)
         IN /\ i \in DOMAIN stream /\ i \in Nat /\ stream[i].k \in Kinds
            /\ \A c : Passed(stream, arrived, raw, leftover, wsLeft, c) => c \in DOMAIN stream /\ c < i
            /\ \A c : Passed(stream, arrived, raw, leftover, wsLeft, c) \/ c = i =>
                      Passed(stream, arrived, t, <<>>, <<>>, c) /\ Passed(stream, arrived, <<>>, <<>>, <<>>, c)
  <1> DEFINE i == ItemAt(raw[1])
             t == Rest(raw, stream[i].size)
             Before(c) == Passed(stream, arrived, raw, leftover, wsLeft, c)
  <1>2. InFront(stream, i, arrived, raw, t)  BY WholeInFront
  <1>3. stream \in Streams /\ arrived \in Nat /\ raw # <<>>  BY DEF StreamInv, Where
  <1> HIDE DEF i, t
  <1>4. /\ i \in DOMAIN stream /\ First(stream, i) = raw[1] /\ Final(stream, i) <= arrived
        /\ t # <<>> => t[1] = Final(stream, i) + 1
    BY <1>2 DEF InFront
  <1>5. /\ DOMAIN stream = 1..Len(stream) /\ Len(stream) \in Nat
        /\ \A n \in DOMAIN stream : /\ First(stream, n) \in Nat \ {0} /\ Final(stream, n) \in Nat
                                    /\ First(stream, n) <= Final(stream, n) /\ stream[n].k \in Kinds
    BY <1>3, Layout
  <1>6. ASSUME NEW c, Before(c)
        PROVE  c \in DOMAIN stream /\ Final(stream, c) < First(stream, i) /\ Final(stream, c) <= arrived
    BY <1>3, <1>4, <1>5, <1>6 DEF Passed, Ahead
  <1> HIDE DEF Before
  <1>7. \A c : Before(c) => c \in DOMAIN stream /\ c < i
    <2>1. \A c : Before(c) => c \in DOMAIN stream /\ Final(stream, c) < First(stream, i)  BY <1>6
    <2>2. QED  BY <2>1, <1>3, <1>4, Behind
  <1>8. ASSUME NEW c, Before(c) \/ c = i
        PROVE  Passed(stream, arrived, t, <<>>, <<>>, c) /\ Passed(stream, arrived, <<>>, <<>>, <<>>, c)
    <2>1. c \in DOMAIN stream /\ Final(stream, c) <= Final(stream, i) /\ Final(stream, c) <= arrived
      <3>1. CASE c = i  BY <3>1, <1>4, <1>5
      <3>2. CASE Before(c)  BY <3>2, <1>4, <1>5, <1>6
      <3>3. QED  BY <3>1, <3>2, <1>8
    <2>2. t # <<>> => Final(stream, c) < t[1]  BY <2>1, <1>4, <1>5
    <2>3. QED  BY <2>1, <2>2 DEF Passed, Ahead
  <1>9. QED  BY <1>4, <1>5, <1>7, <1>8 DEF i, t, Before

\* So it is with all that were taken.
LEMMA FrontIsNext ==
  ASSUME OrderInv, pc \in {"parse", "frame"}, WholeItem(raw)
  PROVE  LET i == ItemAt(raw[1])
             t == Rest(raw, stream[i].size)
         IN /\ i \in DOMAIN stream /\ i \in Nat /\ stream[i].k \in Kinds
            /\ \A c \in Taken(delivered, frag.parts) : c < i
            /\ \A c \in Taken(delivered, frag.parts) \cup {i} :
                 Passed(stream, arrived, t, <<>>, <<>>, c) /\ Passed(stream, arrived, <<>>, <<>>, <<>>, c)
  <1> DEFINE i == ItemAt(raw[1])
             t == Rest(raw, stream[i].size)
             T == Taken(delivered, frag.parts)
  <1>1. StreamInv /\ \A c \in T : Passed(stream, arrived, raw, leftover, wsLeft, c)  BY DEF OrderInv
  <1>2. /\ i \in DOMAIN stream /\ i \in Nat /\ stream[i].k \in Kinds
        /\ \A c : Passed(stream, arrived, raw, leftover, wsLeft, c) => c < i
        /\ \A c : Passed(stream, arrived, raw, leftover, wsLeft, c) \/ c = i =>
                  Passed(stream, arrived, t, <<>>, <<>>, c) /\ Passed(stream, arrived, <<>>, <<>>, <<>>, c)
    BY <1>1, FrontPasses
  <1> HIDE DEF i, t, T
  <1>3. \A c \in T : c < i  BY <1>1, <1>2
  <1>4. \A c \in T \cup {i} : Passed(stream, arrived, t, <<>>, <<>>, c) /\ Passed(stream, arrived, <<>>, <<>>, <<>>, c)
    BY <1>1, <1>2
  <1>5. QED  BY <1>2, <1>3, <1>4 DEF i, t, T

\* Nothing is handed on, and what is kept or looked at starts no earlier.
LEMMA OrderStays ==
  ASSUME OrderInv, StreamInv', stream' = stream, frag' = frag, delivered' = delivered, NEW ar, arrived' = ar,
         \A c \in Taken(delivered, frag.parts) :
           Passed(stream, arrived, raw, leftover, wsLeft, c) => Passed(stream, ar, raw', leftover', wsLeft', c)
  PROVE  OrderInv'
  <1>1. \A c \in Taken(delivered, frag.parts) : Passed(stream, ar, raw', leftover', wsLeft', c)  BY DEF OrderInv
  <1>2. Ordered(delivered, frag.parts) /\ frag \in [parts : Seq(Nat), k : Kinds]  BY DEF OrderInv
  <1>3. QED  BY <1>1, <1>2 DEF OrderInv

\* The item in front is taken: it is added to the messages or fragments.
LEMMA OrderTakes ==
  ASSUME OrderInv, StreamInv', pc \in {"parse", "frame"}, WholeItem(raw), stream' = stream, arrived' = arrived,
         leftover' = <<>>, wsLeft' = <<>>, raw' = Rest(raw, stream[ItemAt(raw[1])].size) \/ raw' = <<>>,
         NEW D, NEW f, delivered' = D, frag' = f, f \in [parts : Seq(Nat), k : Kinds], Ordered(D, f.parts),
         Taken(D, f.parts) \subseteq Taken(delivered, frag.parts) \cup {ItemAt(raw[1])}
  PROVE  OrderInv'
  <1> DEFINE i == ItemAt(raw[1])
             t == Rest(raw, stream[i].size)
             T == Taken(delivered, frag.parts)
  <1>1. \A c \in T \cup {i} : Passed(stream, arrived, t, <<>>, <<>>, c) /\ Passed(stream, arrived, <<>>, <<>>, <<>>, c)
    BY FrontIsNext
  <1>2. \A c \in T \cup {i} : Passed(stream, arrived, raw', <<>>, <<>>, c)  BY <1>1
  <1>3. \A c \in Taken(D, f.parts) : Passed(stream, arrived, raw', <<>>, <<>>, c)  BY <1>2
  <1>4. QED  BY <1>3 DEF OrderInv

\* A segment arrives behind all that arrived before.
LEMMA PassedArrive ==
  ASSUME StreamInv, NEW n \in 1..MaxSegment, Arrive(n), NEW c, Passed(stream, arrived, raw, leftover, wsLeft, c)
  PROVE  Passed(stream, arrived', raw', leftover', wsLeft', c)
  <1> DEFINE s == Bytes(arrived + 1, arrived + n)
  <1>1. stream \in Streams /\ arrived \in Nat  BY DEF StreamInv, Where
  <1>2. n \in Nat \ {0}  BY StreamsAssumption
  <1>3. s \in Seq(Nat) /\ Len(s) = n /\ s # <<>> /\ UpTo(s, arrived + n)  BY <1>1, <1>2, SegmentUpTo
  <1>4. raw' = s /\ arrived' = arrived + n /\ leftover' = leftover /\ wsLeft' = wsLeft
    BY DEF Arrive
  <1> HIDE DEF s
  <1>5. s[1] = arrived + 1
    <2> DEFINE b == arrived + n
    <2>1. b \in Nat /\ UpTo(s, b)  BY <1>1, <1>2, <1>3
    <2> HIDE DEF b
    <2>2. s[1] = b - Len(s) + 1  BY <2>1, <1>3, FirstByte
    <2>3. QED  BY <2>2, <1>1, <1>2, <1>3 DEF b
  <1>6. c \in DOMAIN stream /\ Final(stream, c) <= arrived /\ Final(stream, c) \in Nat  BY <1>1, Layout DEF Passed
  <1>7. Final(stream, c) < s[1] /\ Final(stream, c) <= arrived + n  BY <1>1, <1>2, <1>5, <1>6
  <1>8. Passed(stream, arrived + n, s, leftover, wsLeft, c)  BY <1>6, <1>7 DEF Passed, Ahead
  <1>9. QED  BY <1>4, <1>8

LEMMA OrderArrive ==
  ASSUME OrderInv, StreamInv', NEW n \in 1..MaxSegment, Arrive(n)
  PROVE  OrderInv'
  <1>1. StreamInv  BY DEF OrderInv
  <1>2. stream' = stream /\ frag' = frag /\ delivered' = delivered  BY DEF Arrive
  <1>3. ASSUME NEW c, Passed(stream, arrived, raw, leftover, wsLeft, c)
        PROVE  Passed(stream, arrived', raw', leftover', wsLeft', c)
    BY <1>1, <1>3, PassedArrive
  <1>4. QED  BY <1>2, <1>3, OrderStays

\* What is put together starts where its first part does.
LEMMA JoinAhead ==
  ASSUME NEW s \in Seq(Nat), NEW t \in Seq(Nat), NEW p, Ahead(p, s), Ahead(p, t)
  PROVE  Ahead(p, s \o t)
  <1>1. CASE s = <<>>
    <2>1. s \o t = t  BY <1>1, ConcatEmptySeq
    <2>2. QED  BY <2>1
  <1>2. CASE s # <<>>
    <2>1. Len(s) \in Nat /\ Len(s) # 0 /\ Len(t) \in Nat  BY <1>2, EmptySeq
    <2>2. \A j \in 1..Len(s) + Len(t) : (s \o t)[j] = IF j <= Len(s) THEN s[j] ELSE t[j - Len(s)]  BY ConcatProperties
    <2>3. 1 \in 1..Len(s) + Len(t) /\ 1 <= Len(s)  BY <2>1
    <2>4. (s \o t)[1] = s[1]  BY <2>2, <2>3
    <2>5. QED  BY <2>4, <1>2 DEF Ahead
  <1>3. QED  BY <1>1, <1>2

\* A codec puts the segment behind what it kept.
LEMMA PassedEnter ==
  ASSUME StreamInv, (\E any \in BOOLEAN : HttpEnter(any)) \/ WsEnter,
         NEW c, Passed(stream, arrived, raw, leftover, wsLeft, c)
  PROVE  Passed(stream, arrived', raw', leftover', wsLeft', c)
  <1>1. raw \in Seq(Nat) /\ leftover \in Seq(Nat) /\ wsLeft \in Seq(Nat)  BY DEF StreamInv, Where
  <1>2. arrived' = arrived  BY DEF HttpEnter, WsEnter
  <1>3. /\ raw' = raw \/ raw' = leftover \o raw \/ raw' = wsLeft \o raw
        /\ leftover' = leftover \/ leftover' = leftover \o raw
        /\ wsLeft' = wsLeft \/ wsLeft' = <<>>
    BY DEF HttpEnter, WsEnter
  <1> DEFINE p == Final(stream, c)
  <1>4. c \in DOMAIN stream /\ p <= arrived /\ Ahead(p, raw) /\ Ahead(p, leftover) /\ Ahead(p, wsLeft)  BY DEF Passed
  <1> HIDE DEF p
  <1>5. Ahead(p, leftover \o raw) /\ Ahead(p, wsLeft \o raw)  BY <1>1, <1>4, JoinAhead
  <1>6. Ahead(p, <<>>)  BY DEF Ahead
  <1>7. Ahead(p, raw') /\ Ahead(p, leftover') /\ Ahead(p, wsLeft')  BY <1>3, <1>4, <1>5, <1>6
  <1>8. QED  BY <1>2, <1>4, <1>7 DEF Passed, p

LEMMA OrderEnter ==
  ASSUME OrderInv, StreamInv', (\E any \in BOOLEAN : HttpEnter(any)) \/ WsEnter
  PROVE  OrderInv'
  <1>1. StreamInv  BY DEF OrderInv
  <1>2. stream' = stream /\ frag' = frag /\ delivered' = delivered  BY DEF HttpEnter, WsEnter
  <1>3. ASSUME NEW c, Passed(stream, arrived, raw, leftover, wsLeft, c)
        PROVE  Passed(stream, arrived', raw', leftover', wsLeft', c)
    BY <1>1, <1>3, PassedEnter
  <1>4. QED  BY <1>2, <1>3, OrderStays

\* A codec keeps what it looked at, or drops it.
Leaves == (\E garble \in BOOLEAN : HttpIncomplete(garble)) \/ HttpReject \/ WsIncomplete \/ WsRefuse

LEMMA PassedLeaves ==
  ASSUME StreamInv, Leaves, NEW c, Passed(stream, arrived, raw, leftover, wsLeft, c)
  PROVE  Passed(stream, arrived', raw', leftover', wsLeft', c)
  <1>1. raw \in Seq(Nat)  BY DEF StreamInv, Where
  <1>2. arrived' = arrived  BY DEF Leaves, HttpIncomplete, HttpReject, WsIncomplete, WsRefuse
  <1> DEFINE z == [j \in DOMAIN raw |-> 0]
  <1>3. /\ raw' = <<>>
        /\ leftover' = leftover \/ leftover' = <<>> \/ leftover' = z \/ leftover' = raw
        /\ wsLeft' = wsLeft \/ wsLeft' = raw
    BY DEF Leaves, HttpIncomplete, HttpReject, WsIncomplete, WsRefuse, Returns
  <1>4. z # <<>> => z[1] = 0
    <2>1. DOMAIN raw = 1..Len(raw) /\ Len(raw) \in Nat  BY <1>1
    <2>2. CASE raw = <<>>
      <3>1. z = <<>>  BY <2>2
      <3>2. QED  BY <3>1
    <2>3. CASE raw # <<>>
      <3>1. 1 \in DOMAIN raw  BY <2>1, <2>3, <1>1, EmptySeq
      <3>2. QED  BY <3>1
    <2>4. QED  BY <2>2, <2>3
  <1> HIDE DEF z
  <1>5. \A p : Ahead(p, <<>>) /\ Ahead(p, z)  BY <1>4 DEF Ahead
  <1>6. QED  BY <1>2, <1>3, <1>5 DEF Passed

LEMMA OrderLeaves ==
  ASSUME OrderInv, StreamInv', Leaves
  PROVE  OrderInv'
  <1>1. StreamInv  BY DEF OrderInv
  <1>2. stream' = stream /\ frag' = frag /\ delivered' = delivered
    BY DEF Leaves, HttpIncomplete, HttpReject, WsIncomplete, WsRefuse
  <1>3. ASSUME NEW c, Passed(stream, arrived, raw, leftover, wsLeft, c)
        PROVE  Passed(stream, arrived', raw', leftover', wsLeft', c)
    BY <1>1, <1>3, PassedLeaves
  <1>4. QED  BY <1>2, <1>3, OrderStays

\* A request is handed on.
LEMMA OrderRequest ==
  ASSUME OrderInv, StreamInv', HttpDeliver
  PROVE  OrderInv'
  <1> DEFINE i == ItemAt(raw[1])
             F == frag.parts
  <1>1. /\ pc \in {"parse", "frame"} /\ WholeItem(raw) /\ Parsed = stream[i].k
        /\ delivered' = Append(delivered, [k |-> Parsed, parts |-> <<i>>])
        /\ stream' = stream /\ arrived' = arrived /\ leftover' = <<>> /\ wsLeft' = wsLeft /\ frag' = frag
        /\ raw' = Rest(raw, stream[i].size)
    BY DEF HttpDeliver, HandOn, Parsed
  <1>2. StreamInv /\ Ordered(delivered, F) /\ frag \in [parts : Seq(Nat), k : Kinds]  BY DEF OrderInv
  <1>3. wsLeft = <<>>  BY <1>1, <1>2, WholeInFront
  <1>4. i \in Nat /\ stream[i].k \in Kinds /\ \A c \in Taken(delivered, F) : c < i  BY <1>1, FrontIsNext
  <1>5. F \in Seq(Nat) /\ Ascending(F) /\ (\A c \in Range(F) : c < i)  BY <1>2, <1>4, TakenIs DEF Ordered
  <1> HIDE DEF i, F
  <1>6. <<i>> \in Seq(Nat) /\ <<i>> # <<>> /\ Ascending(<<i>>) /\ Range(<<i>>) = {i} /\ Last(<<i>>) = i
    BY <1>4, <1>5, OneMore
  <1>7. Range(<<i>>) \cap Range(F) = {}
    <2>1. i \notin Range(F)
      <3>1. ~(i < i)  BY <1>4
      <3>2. QED  BY <3>1, <1>5
    <2>2. QED  BY <2>1, <1>6
  <1> DEFINE E == With(delivered, stream[i].k, <<i>>)
  <1>8. Ordered(E, F) /\ Taken(E, F) \subseteq Taken(delivered, F) \cup {i}
    <2>1. Fits(delivered, F, i, stream[i].k, <<i>>, F)  BY <1>2, <1>4, <1>5, <1>6, <1>7 DEF Fits
    <2>2. QED  BY <2>1, DeliverOrdered
  <1>9. delivered' = E  BY <1>1 DEF With
  <1> HIDE DEF E
  <1>10. QED  BY <1>1, <1>2, <1>3, <1>8, <1>9, OrderTakes DEF i, F

\* What the WebSocket loop leaves when it consumed a frame.
LEMMA FrameTaken ==
  ASSUME OrderInv, WsFragment \/ WsDeliver \/ WsClose
  PROVE  /\ pc = "frame" /\ WholeItem(raw) /\ stream' = stream /\ arrived' = arrived
         /\ leftover' = <<>> /\ wsLeft' = <<>>
         /\ raw' = Rest(raw, stream[ItemAt(raw[1])].size) \/ raw' = <<>>
         /\ Frame = stream[ItemAt(raw[1])]
  <1>1. /\ pc = "frame" /\ WholeItem(raw) /\ stream' = stream /\ arrived' = arrived
        /\ leftover' = leftover /\ wsLeft' = wsLeft
        /\ raw' = Rest(raw, Frame.size) \/ raw' = <<>>
    BY DEF WsFragment, WsDeliver, WsClose, WsNext, Returns
  <1>2. StreamInv  BY DEF OrderInv
  <1>3. leftover = <<>> /\ wsLeft = <<>>  BY <1>1, <1>2, FrameState
  <1>4. Frame = stream[ItemAt(raw[1])]  BY DEF Frame
  <1>5. QED  BY <1>1, <1>3, <1>4

\* The item of the frame in front and the fragments that wait for more.
LEMMA FrameNext ==
  ASSUME OrderInv, pc = "frame", WholeItem(raw)
  PROVE  LET i == ItemAt(raw[1])
             F == frag.parts
         IN /\ i \in Nat /\ stream[i].k \in Kinds /\ (\A c \in Taken(delivered, F) : c < i)
            /\ F \in Seq(Nat) /\ Ascending(F) /\ (\A c \in Range(F) : c < i) /\ i \notin Range(F)
            /\ Ordered(delivered, F) /\ frag.k \in Kinds
            /\ frag = [parts |-> F, k |-> frag.k]
  <1> DEFINE i == ItemAt(raw[1])
             F == frag.parts
  <1>1. Ordered(delivered, F) /\ frag \in [parts : Seq(Nat), k : Kinds]  BY DEF OrderInv
  <1>2. i \in Nat /\ stream[i].k \in Kinds /\ \A c \in Taken(delivered, F) : c < i  BY FrontIsNext
  <1>3. F \in Seq(Nat) /\ Ascending(F) /\ (\A c \in Range(F) : c < i)  BY <1>1, <1>2, TakenIs DEF Ordered
  <1>4. i \notin Range(F)
    <2> HIDE DEF i, F
    <2>1. ~(i < i)  BY <1>2
    <2>2. QED  BY <2>1, <1>3
  <1>5. frag.k \in Kinds /\ frag = [parts |-> frag.parts, k |-> frag.k]  BY <1>1
  <1>6. QED  BY <1>1, <1>2, <1>3, <1>4, <1>5

\* A fragment is kept.
LEMMA OrderFragment ==
  ASSUME OrderInv, StreamInv', WsFragment
  PROVE  OrderInv'
  <1> DEFINE i == ItemAt(raw[1])
             F == frag.parts
  <1>1. /\ pc = "frame" /\ WholeItem(raw) /\ stream' = stream /\ arrived' = arrived
        /\ leftover' = <<>> /\ wsLeft' = <<>>
        /\ raw' = Rest(raw, stream[i].size) \/ raw' = <<>>
        /\ Frame = stream[i]
    BY FrameTaken
  <1>2. /\ delivered' = delivered
        /\ frag' = IF Frame.k = "cont" THEN [frag EXCEPT !.parts = Append(@, i)] ELSE [parts |-> <<i>>, k |-> Frame.k]
    BY DEF WsFragment
  <1>3. /\ i \in Nat /\ stream[i].k \in Kinds /\ (\A c \in Taken(delivered, F) : c < i)
        /\ F \in Seq(Nat) /\ Ascending(F) /\ (\A c \in Range(F) : c < i)
        /\ Ordered(delivered, F) /\ frag.k \in Kinds /\ frag \in [parts : Seq(Nat), k : Kinds]
    BY <1>1, FrameNext DEF OrderInv
  <1>4. [frag EXCEPT !.parts = Append(@, i)] = [parts |-> Append(F, i), k |-> frag.k]
    <2>1. [frag EXCEPT !.parts = Append(@, i)] = [frag EXCEPT !.parts = Append(F, i)]  OBVIOUS
    <2>2. Append(F, i) \in Seq(Nat)  BY <1>3
    <2>3. QED  BY <2>1, <2>2, <1>3, OtherParts, Zenon
  <1> HIDE DEF i, F
  <1>5. PICK G, k : /\ frag' = [parts |-> G, k |-> k] /\ (G = <<i>> \/ G = Append(F, i)) /\ k \in Kinds
    BY <1>1, <1>2, <1>3, <1>4
  <1>6. G \in Seq(Nat) /\ Ascending(G) /\ Range(G) \subseteq Range(F) \cup {i}
    <2>1. /\ <<i>> \in Seq(Nat) /\ Ascending(<<i>>) /\ Range(<<i>>) = {i}
          /\ Append(F, i) \in Seq(Nat) /\ Ascending(Append(F, i)) /\ Range(Append(F, i)) \subseteq Range(F) \cup {i}
      BY <1>3, OneMore
    <2>2. QED  BY <2>1, <1>5
  <1>7. Ordered(delivered, G) /\ Taken(delivered, G) \subseteq Taken(delivered, F) \cup {i}
    BY <1>3, <1>6, FragmentOrdered
  <1>8. frag'.parts = G /\ frag' \in [parts : Seq(Nat), k : Kinds]  BY <1>5, <1>6
  <1>9. QED  BY <1>1, <1>2, <1>7, <1>8, OrderTakes DEF i, F

\* A message is handed on, as it is or with the fragments that waited.
LEMMA OrderMessage ==
  ASSUME OrderInv, StreamInv', WsDeliver \/ WsClose
  PROVE  OrderInv'
  <1> DEFINE i == ItemAt(raw[1])
             F == frag.parts
  <1>1. /\ pc = "frame" /\ WholeItem(raw) /\ stream' = stream /\ arrived' = arrived
        /\ leftover' = <<>> /\ wsLeft' = <<>>
        /\ raw' = Rest(raw, stream[i].size) \/ raw' = <<>>
        /\ Frame = stream[i]
    BY FrameTaken
  <1>2. /\ i \in Nat /\ stream[i].k \in Kinds /\ (\A c \in Taken(delivered, F) : c < i)
        /\ F \in Seq(Nat) /\ Ascending(F) /\ (\A c \in Range(F) : c < i) /\ i \notin Range(F)
        /\ Ordered(delivered, F) /\ frag.k \in Kinds /\ frag \in [parts : Seq(Nat), k : Kinds]
    BY <1>1, FrameNext DEF OrderInv
  <1>3. [frag EXCEPT !.parts = <<>>] = [parts |-> <<>>, k |-> frag.k]
    <2>1. <<>> \in Seq(Nat)  OBVIOUS
    <2>2. QED  BY <2>1, <1>2, OtherParts, Zenon
  <1>4. /\ <<i>> \in Seq(Nat) /\ <<i>> # <<>> /\ Ascending(<<i>>) /\ Range(<<i>>) = {i} /\ Last(<<i>>) = i
        /\ Append(F, i) \in Seq(Nat) /\ Append(F, i) # <<>> /\ Ascending(Append(F, i))
        /\ Range(Append(F, i)) \subseteq Range(F) \cup {i} /\ Last(Append(F, i)) = i
        /\ <<>> \in Seq(Nat) /\ Ascending(<<>>) /\ Range(<<>>) = {}
    BY <1>2, OneMore
  <1>5. CASE WsDeliver /\ Frame.k = "cont"
    <2> DEFINE E == With(delivered, frag.k, Append(F, i))
    <2>1. delivered' = E /\ frag' = [parts |-> <<>>, k |-> frag.k]  BY <1>3, <1>5 DEF WsDeliver, With
    <2> HIDE DEF i, F
    <2>2. Ordered(E, <<>>) /\ Taken(E, <<>>) \subseteq Taken(delivered, F) \cup {i}
      <3>1. Fits(delivered, F, i, frag.k, Append(F, i), <<>>)  BY <1>2, <1>4 DEF Fits
      <3>2. QED  BY <3>1, DeliverOrdered
    <2> HIDE DEF E
    <2>3. frag'.parts = <<>> /\ frag' \in [parts : Seq(Nat), k : Kinds]  BY <2>1, <1>2, <1>4
    <2>4. QED  BY <2>1, <2>2, <2>3, <1>1, OrderTakes DEF i, F
  <1>6. CASE WsClose \/ (WsDeliver /\ Frame.k # "cont")
    <2> DEFINE E == With(delivered, stream[i].k, <<i>>)
    <2>1. delivered' = E /\ frag' = frag  BY <1>1, <1>6 DEF WsDeliver, WsClose, With
    <2> HIDE DEF i, F
    <2>2. Ordered(E, F) /\ Taken(E, F) \subseteq Taken(delivered, F) \cup {i}
      <3>1. Fits(delivered, F, i, stream[i].k, <<i>>, F)  BY <1>2, <1>4 DEF Fits
      <3>2. QED  BY <3>1, DeliverOrdered
    <2> HIDE DEF E
    <2>3. frag'.parts = F /\ frag' \in [parts : Seq(Nat), k : Kinds]  BY <2>1, <1>2 DEF F
    <2>4. QED  BY <2>1, <2>2, <2>3, <1>1, OrderTakes DEF i, F
  <1>7. QED  BY <1>5, <1>6

\* Before anything has arrived nothing was taken.
LEMMA OrderInvInit == Init => OrderInv
  <1> SUFFICES ASSUME Init PROVE OrderInv
    OBVIOUS
  <1>1. StreamInv  BY StreamInvInit
  <1>2. delivered = <<>> /\ frag = [parts |-> <<>>, k |-> "text"]  BY DEF Init, WsInit
  <1>3. frag.parts = <<>> /\ frag \in [parts : Seq(Nat), k : Kinds]  BY <1>2 DEF Kinds, Data
  <1>4. Ordered(<<>>, <<>>) /\ Taken(<<>>, <<>>) = {}
    <2>1. <<>> \in Seq([k : Kinds, parts : Seq(Nat)]) /\ <<>> \in Seq(Nat) /\ DOMAIN <<>> = {}  OBVIOUS
    <2>2. Taken(<<>>, <<>>) = {}
      <3>1. Range(<<>>) = {}  BY <2>1 DEF Range
      <3>2. \A c \in Taken(<<>>, <<>>) : c \in Range(<<>>) \/ \E d \in DOMAIN <<>> : c \in Range(<<>>[d].parts)  BY TakenIs
      <3>3. QED  BY <3>1, <3>2, <2>1
    <2>3. Ascending(<<>>)  BY <2>1 DEF Ascending
    <2>4. QED  BY <2>1, <2>2, <2>3 DEF Ordered
  <1>5. QED  BY <1>1, <1>2, <1>3, <1>4 DEF OrderInv

\* Every step keeps the order.
LEMMA OrderInvStep == OrderInv /\ [Next]_vars => OrderInv'
  <1> SUFFICES ASSUME OrderInv, [Next]_vars PROVE OrderInv'
    OBVIOUS
  <1>1. StreamInv'  BY StreamInvStep DEF OrderInv
  <1>2. ASSUME UNCHANGED <<stream, arrived, raw, leftover, wsLeft, frag, delivered>>
        PROVE  OrderInv'
    BY <1>1, <1>2, OrderStays
  <1>3. ASSUME NEW i \in DOMAIN stream, NEW what \in Parts, RequestGet(i, what)  PROVE OrderInv'
    BY <1>2, <1>3 DEF RequestGet
  <1>4. CASE UNCHANGED vars
    BY <1>2, <1>4 DEF vars
  <1>5. QED
    BY <1>1, <1>3, <1>4, OrderArrive, OrderEnter, OrderLeaves, OrderRequest, OrderFragment, OrderMessage, Zenon DEF Next, Leaves

\* However TCP cuts the stream and whatever was refused before, every request
\* and frame that the codecs hand on is handed on once, in the order in which
\* the client sent them, and the fragments of a message are in order: the
\* leftovers of HttpServerCodec and WebSocketCodec never bring back bytes
\* that were consumed.
THEOREM HandedOnOnceInOrder == Spec => []EachOnceInOrder
  <1>1. OrderInv => EachOnceInOrder
    BY DEF OrderInv, Ordered, EachOnceInOrder, Ascending
  <1>2. QED  BY <1>1, OrderInvInit, OrderInvStep, PTL DEF Spec

---------------------------------------------------------------------------
(* What a 413 leaves behind *)

\* The messages D have one of item n alone.
HandedIn(D, n) == \E d \in DOMAIN D : D[d].parts = <<n>>

\* With these messages item i is tainted; item j was too large and no request
\* behind it was handed on.
TaintedIn(st, D, i) ==
  /\ st[i].k \in Http
  /\ \E j \in 1..i - 1 : st[j].k = "bigbody" /\ \A n \in j + 1..i - 1 : st[n].k \in Http => ~HandedIn(D, n)
Taints(st, D, j) ==
  /\ j \in DOMAIN st /\ st[j].k = "bigbody"
  /\ \A n \in DOMAIN st : n > j /\ st[n].k \in Http => ~HandedIn(D, n)

\* While st.request keeps headers, the Content-Length found in them is too
\* large, and it is a tainted request that comes next.
SpoiledInv ==
  /\ OrderInv /\ kept \in Seq(DOMAIN stream)
  /\ kept # <<>> => /\ TooLarge(kept)
                    /\ \E j \in DOMAIN stream : /\ Taints(stream, delivered, j)
                                                /\ Passed(stream, arrived, raw, leftover, wsLeft, j)
  /\ \A i \in spoiled : TaintedIn(stream, delivered, i) /\ Passed(stream, arrived, raw, leftover, wsLeft, i)

\* A frame is no request.
LEMMA FrameIsNoHttp ==
  ASSUME StreamInv, pc = "frame"
  PROVE  stream[ItemAt(raw[1])].k \notin Http
  <1>1. stream \in Streams /\ FrameAt(stream, raw[1])  BY FrameState
  <1>2. PICK j \in DOMAIN stream : First(stream, j) = raw[1] /\ stream[j].k \notin Http  BY <1>1 DEF FrameAt
  <1>3. ItemAt(raw[1]) = j  BY <1>1, <1>2, ItemAtStart
  <1>4. QED  BY <1>2, <1>3

\* One more message, of item i or ending with it.
LEMMA HandedMore ==
  ASSUME NEW D \in Seq([k : Kinds, parts : Seq(Nat)]), NEW k \in Kinds, NEW P \in Seq(Nat), NEW i, Last(P) = i, NEW n,
         HandedIn(With(D, k, P), n)
  PROVE  HandedIn(D, n) \/ n = i
  <1> DEFINE x == [k |-> k, parts |-> P]
             E == Append(D, x)
             S == [k : Kinds, parts : Seq(Nat)]
  <1>1. x \in S /\ x.parts = P /\ D \in Seq(S)  OBVIOUS
  <1>2. PICK d \in DOMAIN E : E[d].parts = <<n>>  BY DEF HandedIn, With
  <1> HIDE DEF x, S
  <1>3. /\ Len(D) \in Nat /\ DOMAIN D = 1..Len(D) /\ DOMAIN E = 1..Len(D) + 1
        /\ (\A e \in DOMAIN D : E[e] = D[e]) /\ E[Len(D) + 1] = x
    BY <1>1
  <1> HIDE DEF E
  <1>4. CASE d \in DOMAIN D  BY <1>2, <1>3, <1>4 DEF HandedIn
  <1>5. CASE d = Len(D) + 1
    <2>1. P = <<n>>  BY <1>1, <1>2, <1>3, <1>5
    <2>2. Last(<<n>>) = n  BY DEF Last
    <2>3. QED  BY <2>1, <2>2
  <1>6. QED  BY <1>2, <1>3, <1>4, <1>5

\* Only items that come later were handed on since.
LEMMA TaintedStays ==
  ASSUME NEW st, NEW D, NEW E, NEW i \in Nat, TaintedIn(st, D, i),
         \A n \in Nat : n < i /\ st[n].k \in Http /\ HandedIn(E, n) => HandedIn(D, n)
  PROVE  TaintedIn(st, E, i)
  <1>1. PICK j \in 1..i - 1 : st[j].k = "bigbody" /\ \A n \in j + 1..i - 1 : st[n].k \in Http => ~HandedIn(D, n)
    BY DEF TaintedIn
  <1>2. \A n \in j + 1..i - 1 : n \in Nat /\ n < i  OBVIOUS
  <1>3. \A n \in j + 1..i - 1 : st[n].k \in Http => ~HandedIn(E, n)  BY <1>1, <1>2
  <1>4. st[i].k \in Http  BY DEF TaintedIn
  <1>5. QED  BY <1>1, <1>3, <1>4 DEF TaintedIn

\* A body that is too large is refused also behind headers that were.
LEMMA StillTooLarge ==
  ASSUME stream \in Streams, NEW s \in Seq(DOMAIN stream), s = <<>> \/ TooLarge(s),
         NEW i \in DOMAIN stream, stream[i].k = "bigbody"
  PROVE  TooLarge(Append(s, i))
  <1> DEFINE g == Append(s, i)
             cl(m) == stream[m].cl
  <1>1. cl(i) \in {"exact", "other"}
    <2>1. stream[i] \in Item  BY Layout
    <2>2. stream[i].cl \in {"none", "exact", "other"}  BY <2>1 DEF Item
    <2>3. stream[i].cl # "none"  BY StreamsAssumption
    <2>4. QED  BY <2>2, <2>3
  <1>2. /\ Len(s) \in Nat /\ DOMAIN s = 1..Len(s) /\ DOMAIN g = 1..Len(s) + 1
        /\ (\A m \in DOMAIN s : g[m] = s[m]) /\ g[Len(s) + 1] = i
    OBVIOUS
  <1> HIDE DEF g
  <1>3. \A m \in DOMAIN g : m \in DOMAIN s \/ m = Len(s) + 1  BY <1>2
  <1>4. \A n \in DOMAIN g :
          stream[g[n]].k = "bigbody" /\ (\A m \in DOMAIN g : cl(g[m]) \in {"exact", cl(g[n])} => cl(g[m]) = cl(g[n]) /\ n <= m)
          => TooLarge(g)
    BY DEF TooLarge
  <1> HIDE DEF cl
  <1>5. CASE s = <<>>
    <2>1. Len(s) = 0 /\ 1 \in DOMAIN g /\ g[1] = i /\ \A m \in DOMAIN g : m = 1  BY <1>2, <1>5
    <2>2. QED  BY <2>1, <1>4 DEF g
  <1>6. CASE TooLarge(s)
    <2>1. PICK n \in DOMAIN s : stream[s[n]].k = "bigbody" /\ \A m \in DOMAIN s : cl(s[m]) \in {"exact", cl(s[n])} => cl(s[m]) = cl(s[n]) /\ n <= m
      BY <1>6 DEF TooLarge, cl
    <2>2. n \in DOMAIN g /\ g[n] = s[n] /\ n <= Len(s) + 1  BY <1>2
    <2>3. CASE cl(i) = cl(s[n]) \/ cl(i) # "exact"
      <3>1. \A m \in DOMAIN g : cl(g[m]) \in {"exact", cl(g[n])} => cl(g[m]) = cl(g[n]) /\ n <= m
        BY <2>1, <2>2, <2>3, <1>2, <1>3
      <3>2. QED  BY <3>1, <2>1, <2>2, <1>4 DEF g
    <2>4. CASE cl(i) = "exact" /\ cl(s[n]) # "exact"
      <3>1. \A m \in DOMAIN s : cl(s[m]) # "exact"  BY <2>1, <2>4
      <3>2. \A m \in DOMAIN g : cl(g[m]) = "exact" => m = Len(s) + 1  BY <3>1, <1>2, <1>3
      <3>3. Len(s) + 1 \in DOMAIN g /\ g[Len(s) + 1] = i /\ Len(s) + 1 <= Len(s) + 1  BY <1>2
      <3>4. QED  BY <3>2, <3>3, <2>4, <1>4 DEF g
    <2>5. QED  BY <2>3, <2>4
  <1>7. QED  BY <1>5, <1>6

\* A step that hands on no request and leaves st.request alone.
LEMMA SpoiledStays ==
  ASSUME SpoiledInv, OrderInv', stream' = stream, kept' = kept, spoiled' = spoiled, NEW D, delivered' = D,
         \A n \in DOMAIN stream : stream[n].k \in Http /\ HandedIn(D, n) => HandedIn(delivered, n),
         \A c : Passed(stream, arrived, raw, leftover, wsLeft, c) => Passed(stream, arrived', raw', leftover', wsLeft', c)
  PROVE  SpoiledInv'
  <1>1. ASSUME NEW j, Taints(stream, delivered, j)  PROVE Taints(stream, D, j)
    BY <1>1 DEF Taints
  <1>2. stream \in Streams  BY DEF SpoiledInv, OrderInv, StreamInv, Where
  <1>3. DOMAIN stream = 1..Len(stream) /\ Len(stream) \in Nat  BY <1>2, Layout
  <1>4. ASSUME NEW i \in spoiled  PROVE TaintedIn(stream, D, i) /\ Passed(stream, arrived', raw', leftover', wsLeft', i)
    <2>1. TaintedIn(stream, delivered, i) /\ Passed(stream, arrived, raw, leftover, wsLeft, i)  BY DEF SpoiledInv
    <2>2. i \in DOMAIN stream  BY <2>1 DEF Passed
    <2>3. i \in Nat /\ \A n \in Nat : n < i => n = 0 \/ n \in DOMAIN stream  BY <2>2, <1>3
    <2>4. PICK j \in 1..i - 1 : stream[j].k = "bigbody" /\ \A n \in j + 1..i - 1 : stream[n].k \in Http => ~HandedIn(delivered, n)
      BY <2>1 DEF TaintedIn
    <2>5. \A n \in j + 1..i - 1 : n \in DOMAIN stream  BY <2>2, <1>3
    <2>6. \A n \in j + 1..i - 1 : stream[n].k \in Http => ~HandedIn(D, n)  BY <2>4, <2>5
    <2>7. TaintedIn(stream, D, i)  BY <2>1, <2>4, <2>6 DEF TaintedIn
    <2>8. QED  BY <2>1, <2>7
  <1>5. kept # <<>> => TooLarge(kept)'
    BY DEF SpoiledInv, TooLarge
  <1>6. kept # <<>> => \E j \in DOMAIN stream : Taints(stream, D, j) /\ Passed(stream, arrived', raw', leftover', wsLeft', j)
    BY <1>1 DEF SpoiledInv
  <1>7. kept \in Seq(DOMAIN stream)  BY DEF SpoiledInv
  <1>8. QED  BY <1>4, <1>5, <1>6, <1>7 DEF SpoiledInv

\* The item in front of HttpServerCodec, which looks at it with the headers
\* that st.request keeps.
LEMMA FrontTainted ==
  ASSUME SpoiledInv, pc = "parse", WholeItem(raw), stream[ItemAt(raw[1])].k \in Http
  PROVE  LET i == ItemAt(raw[1])
         IN /\ i \in DOMAIN stream /\ i \in Nat /\ stream \in Streams /\ kept \in Seq(DOMAIN stream)
            /\ kept # <<>> => TaintedIn(stream, delivered, i) /\ TooLarge(kept)
            /\ \A n \in DOMAIN stream : n >= i => ~HandedIn(delivered, n)
            /\ \A n \in spoiled : n \in Nat /\ n < i
  <1> DEFINE i == ItemAt(raw[1])
  <1>1. /\ OrderInv /\ StreamInv /\ Ordered(delivered, frag.parts)
        /\ \A c \in Taken(delivered, frag.parts) : Passed(stream, arrived, raw, leftover, wsLeft, c)
    BY DEF SpoiledInv, OrderInv
  <1>2. /\ i \in DOMAIN stream /\ i \in Nat
        /\ \A c : Passed(stream, arrived, raw, leftover, wsLeft, c) => c \in DOMAIN stream /\ c < i
    BY <1>1, FrontPasses
  <1>3. stream \in Streams  BY <1>1 DEF StreamInv, Where
  <1>4. DOMAIN stream = 1..Len(stream) /\ Len(stream) \in Nat  BY <1>3, Layout
  <1>5. stream[i].k \in Http  OBVIOUS
  <1> HIDE DEF i
  <1>6. ASSUME NEW n \in DOMAIN stream, n >= i, HandedIn(delivered, n)  PROVE FALSE
    <2>1. PICK d \in DOMAIN delivered : delivered[d].parts = <<n>>  BY <1>6 DEF HandedIn
    <2>2. n \in Range(<<n>>)
      <3>1. <<n>>[1] = n /\ 1 \in DOMAIN <<n>>  OBVIOUS
      <3>2. QED  BY <3>1 DEF Range
    <2>3. n \in Taken(delivered, frag.parts)  BY <2>1, <2>2, TakenIs
    <2>4. n < i  BY <2>3, <1>1, <1>2
    <2>5. QED  BY <2>4, <1>2, <1>4, <1>6
  <1>7. ASSUME kept # <<>>  PROVE TaintedIn(stream, delivered, i)
    <2>1. PICK j \in DOMAIN stream : Taints(stream, delivered, j) /\ Passed(stream, arrived, raw, leftover, wsLeft, j)
      BY <1>7 DEF SpoiledInv
    <2>2. j < i  BY <2>1, <1>2
    <2>3. j \in 1..i - 1 /\ \A n \in j + 1..i - 1 : n \in DOMAIN stream /\ n > j  BY <2>2, <1>2, <1>4
    <2>4. stream[j].k = "bigbody" /\ \A n \in j + 1..i - 1 : stream[n].k \in Http => ~HandedIn(delivered, n)
      BY <2>1, <2>3 DEF Taints
    <2>5. QED  BY <2>3, <2>4, <1>5 DEF TaintedIn
  <1>8. \A n \in spoiled : n \in Nat /\ n < i  BY <1>2, <1>4 DEF SpoiledInv
  <1>9. kept \in Seq(DOMAIN stream) /\ (kept # <<>> => TooLarge(kept))  BY DEF SpoiledInv
  <1>10. QED  BY <1>2, <1>3, <1>6, <1>7, <1>8, <1>9 DEF i

\* What passed stays so when the item in front is taken, which passes too.
LEMMA PassedTakes ==
  ASSUME StreamInv, pc \in {"parse", "frame"}, WholeItem(raw), arrived' = arrived, leftover' = <<>>, wsLeft' = <<>>,
         raw' = Rest(raw, stream[ItemAt(raw[1])].size) \/ raw' = <<>>,
         NEW c, Passed(stream, arrived, raw, leftover, wsLeft, c) \/ c = ItemAt(raw[1])
  PROVE  Passed(stream, arrived', raw', leftover', wsLeft', c)
  <1> DEFINE i == ItemAt(raw[1])
             t == Rest(raw, stream[i].size)
  <1>1. Passed(stream, arrived, t, <<>>, <<>>, c) /\ Passed(stream, arrived, <<>>, <<>>, <<>>, c)
    BY FrontPasses
  <1>2. QED  BY <1>1

\* A request is refused: its headers stay when it is for its Content-Length.
LEMMA SpoiledReject ==
  ASSUME SpoiledInv, OrderInv', HttpReject
  PROVE  SpoiledInv'
  <1> DEFINE i == ItemAt(raw[1])
  <1>1. /\ pc = "parse" /\ WholeItem(raw) /\ Parsed = stream[i].k /\ stream[i].k \in Http
    BY DEF HttpReject, Refused, Parsed
  <1>2. /\ stream' = stream /\ arrived' = arrived /\ leftover' = <<>> /\ wsLeft' = wsLeft /\ raw' = <<>>
        /\ delivered' = delivered
    BY DEF HttpReject, Returns
  <1>3. StreamInv /\ pc \in {"parse", "frame"}  BY <1>1 DEF SpoiledInv, OrderInv
  <1>4. wsLeft = <<>>  BY <1>1, <1>3, WholeInFront
  <1>5. ASSUME NEW c, Passed(stream, arrived, raw, leftover, wsLeft, c) \/ c = i
        PROVE  Passed(stream, arrived', raw', leftover', wsLeft', c)
    BY <1>1, <1>2, <1>3, <1>4, <1>5, PassedTakes
  <1>6. CASE Parsed = "bighead"
    <2>1. kept' = kept /\ spoiled' = spoiled  BY <1>6 DEF HttpReject
    <2>2. QED  BY <2>1, <1>2, <1>5, SpoiledStays
  <1>7. CASE Parsed # "bighead"
    <2>1. /\ kept' = Append(kept, i) /\ TooLarge(Append(kept, i))
          /\ spoiled' = IF kept = <<>> THEN spoiled ELSE spoiled \cup {i}
      BY <1>7 DEF HttpReject, Refused, Spoil
    <2>2. /\ i \in DOMAIN stream /\ i \in Nat /\ stream \in Streams /\ kept \in Seq(DOMAIN stream)
          /\ kept # <<>> => TaintedIn(stream, delivered, i) /\ TooLarge(kept)
          /\ \A n \in DOMAIN stream : n >= i => ~HandedIn(delivered, n)
      BY <1>1, FrontTainted
    <2> HIDE DEF i
    <2>3. Append(kept, i) \in Seq(DOMAIN stream)  BY <2>2
    <2>4. TooLarge(kept)'  BY <2>1, <1>2 DEF TooLarge
    <2>5. \E j \in DOMAIN stream : Taints(stream, delivered, j) /\ Passed(stream, arrived', raw', leftover', wsLeft', j)
      <3>1. CASE kept # <<>>  BY <3>1, <1>5 DEF SpoiledInv
      <3>2. CASE kept = <<>>
        <4>1. Append(kept, i) = <<i>>  BY <3>2
        <4>2. TooLarge(<<i>>)  BY <4>1, <2>1
        <4>3. stream[i].k = "bigbody"
          <5>1. \A n \in DOMAIN <<i>> : <<i>>[n] = i  OBVIOUS
          <5>2. QED  BY <4>2, <5>1 DEF TooLarge
        <4>4. \A n \in DOMAIN stream : n > i => n >= i
          <5>1. DOMAIN stream = 1..Len(stream) /\ Len(stream) \in Nat  BY <2>2, Layout
          <5>2. QED  BY <5>1, <2>2
        <4>5. Taints(stream, delivered, i)
          <5>1. \A n \in DOMAIN stream : n > i => ~HandedIn(delivered, n)  BY <4>4, <2>2
          <5>2. QED  BY <5>1, <4>3, <2>2 DEF Taints
        <4>6. QED  BY <4>5, <2>2, <1>5
      <3>3. QED  BY <3>1, <3>2
    <2>6. \A n \in spoiled' : TaintedIn(stream, delivered, n) /\ Passed(stream, arrived', raw', leftover', wsLeft', n)
      <3>1. \A n \in spoiled : TaintedIn(stream, delivered, n) /\ Passed(stream, arrived, raw, leftover, wsLeft, n)
        BY DEF SpoiledInv
      <3>2. \A n \in spoiled' : n \in spoiled \/ (n = i /\ kept # <<>>)  BY <2>1
      <3>3. QED  BY <3>1, <3>2, <2>2, <1>5
    <2>7. QED  BY <2>1, <2>3, <2>4, <2>5, <2>6, <1>2 DEF SpoiledInv
  <1>8. QED  BY <1>6, <1>7

\* A request is handed on: none that is too large, and st.request starts anew.
LEMMA DeliverFits ==
  ASSUME SpoiledInv, HttpDeliver
  PROVE  pc = "parse" /\ WholeItem(raw) /\ Parsed = stream[ItemAt(raw[1])].k /\ Parsed \in {"request", "upgrade"}
  <1> DEFINE i == ItemAt(raw[1])
  <1>1. /\ pc = "parse" /\ WholeItem(raw) /\ Parsed = stream[i].k /\ stream[i].k \in Http \ {"bad", "bighead"}
        /\ ~TooLarge(Append(kept, i))
    BY DEF HttpDeliver, HandOn, Refused, Parsed
  <1>2. stream[i].k \in Http  BY <1>1
  <1>3. /\ i \in DOMAIN stream /\ stream \in Streams /\ kept \in Seq(DOMAIN stream)
        /\ kept = <<>> \/ TooLarge(kept)
    BY <1>1, <1>2, FrontTainted
  <1> HIDE DEF i
  <1>4. stream[i].k # "bigbody"  BY <1>1, <1>3, StillTooLarge
  <1>5. QED  BY <1>1, <1>4 DEF Http, i

LEMMA SpoiledDeliver ==
  ASSUME SpoiledInv, OrderInv', HttpDeliver
  PROVE  SpoiledInv'
  <1> DEFINE i == ItemAt(raw[1])
             D == With(delivered, stream[i].k, <<i>>)
  <1>1. pc = "parse" /\ WholeItem(raw) /\ Parsed = stream[i].k /\ Parsed \in {"request", "upgrade"}  BY DeliverFits
  <1>2. /\ stream' = stream /\ arrived' = arrived /\ leftover' = <<>> /\ wsLeft' = wsLeft
        /\ raw' = Rest(raw, stream[i].size) /\ delivered' = D /\ kept' = <<>>
        /\ spoiled' = IF kept = <<>> THEN spoiled ELSE spoiled \cup {i}
    BY <1>1 DEF HttpDeliver, HandOn, Spoil, With
  <1>3. OrderInv /\ StreamInv /\ pc \in {"parse", "frame"}  BY <1>1 DEF SpoiledInv, OrderInv
  <1>4. wsLeft = <<>>  BY <1>1, <1>3, WholeInFront
  <1>5. ASSUME NEW c, Passed(stream, arrived, raw, leftover, wsLeft, c) \/ c = i
        PROVE  Passed(stream, arrived', raw', leftover', wsLeft', c)
    BY <1>1, <1>2, <1>3, <1>4, <1>5, PassedTakes
  <1>6. stream[i].k \in Http  BY <1>1 DEF Http
  <1>7. /\ i \in DOMAIN stream /\ i \in Nat /\ stream[i].k \in Kinds /\ stream \in Streams
        /\ kept # <<>> => TaintedIn(stream, delivered, i)
        /\ \A n \in spoiled : n \in Nat /\ n < i
    BY <1>1, <1>6, FrontTainted DEF Kinds
  <1>8. delivered \in Seq([k : Kinds, parts : Seq(Nat)])  BY <1>3 DEF OrderInv, Ordered
  <1> HIDE DEF i
  <1>9. ASSUME NEW n \in Nat, n < i, HandedIn(D, n)  PROVE HandedIn(delivered, n)
    <2> DEFINE P == <<i>>
               k == stream[i].k
    <2>1. P \in Seq(Nat) /\ k \in Kinds /\ Last(P) = i  BY <1>7 DEF Last
    <2>2. HandedIn(With(delivered, k, P), n)  BY <1>9
    <2> HIDE DEF P, k
    <2>3. HandedIn(delivered, n) \/ n = i  BY <2>1, <2>2, <1>8, HandedMore
    <2>4. QED  BY <2>3, <1>7, <1>9
  <1> HIDE DEF D
  <1>10. ASSUME NEW n \in spoiled'
         PROVE  TaintedIn(stream, D, n) /\ Passed(stream, arrived', raw', leftover', wsLeft', n)
    <2>1. TaintedIn(stream, delivered, n) /\ n \in Nat /\ n <= i
      <3>1. CASE n \in spoiled  BY <3>1, <1>7 DEF SpoiledInv
      <3>2. CASE n = i /\ kept # <<>>  BY <3>2, <1>7
      <3>3. QED  BY <3>1, <3>2, <1>2, <1>10
    <2>2. \A m \in Nat : m < n /\ HandedIn(D, m) => HandedIn(delivered, m)  BY <2>1, <1>7, <1>9
    <2>3. TaintedIn(stream, D, n)  BY <2>1, <2>2, TaintedStays
    <2>4. Passed(stream, arrived, raw, leftover, wsLeft, n) \/ n = i  BY <1>2, <1>10 DEF SpoiledInv
    <2>5. QED  BY <2>3, <2>4, <1>5
  <1>11. <<>> \in Seq(DOMAIN stream)  OBVIOUS
  <1>12. QED  BY <1>2, <1>10, <1>11 DEF SpoiledInv

\* A frame is taken.
LEMMA SpoiledFrame ==
  ASSUME SpoiledInv, OrderInv', WsFragment \/ WsDeliver \/ WsClose
  PROVE  SpoiledInv'
  <1> DEFINE i == ItemAt(raw[1])
             F == frag.parts
  <1>1. OrderInv /\ StreamInv  BY DEF SpoiledInv, OrderInv
  <1>2. /\ pc = "frame" /\ WholeItem(raw) /\ stream' = stream /\ arrived' = arrived
        /\ leftover' = <<>> /\ wsLeft' = <<>>
        /\ raw' = Rest(raw, stream[i].size) \/ raw' = <<>>
        /\ Frame = stream[i]
    BY <1>1, FrameTaken
  <1>3. ASSUME NEW c, Passed(stream, arrived, raw, leftover, wsLeft, c)
        PROVE  Passed(stream, arrived', raw', leftover', wsLeft', c)
    BY <1>1, <1>2, <1>3, PassedTakes
  <1>4. stream[i].k \notin Http  BY <1>1, <1>2, FrameIsNoHttp
  <1>5. i \in Nat /\ stream[i].k \in Kinds /\ F \in Seq(Nat) /\ frag.k \in Kinds /\ Ascending(F) /\ \A c \in Range(F) : c < i
    BY <1>1, <1>2, FrameNext
  <1>6. delivered \in Seq([k : Kinds, parts : Seq(Nat)])  BY <1>1 DEF OrderInv, Ordered
  <1>7. kept' = kept /\ spoiled' = spoiled  BY DEF WsFragment, WsDeliver, WsClose
  <1>8. <<i>> \in Seq(Nat) /\ Last(<<i>>) = i /\ Append(F, i) \in Seq(Nat) /\ Last(Append(F, i)) = i
    BY <1>5, OneMore
  <1>9. \/ delivered' = delivered
        \/ \E k \in Kinds, P \in Seq(Nat) : Last(P) = i /\ delivered' = With(delivered, k, P)
    <2>1. CASE WsFragment  BY <2>1 DEF WsFragment
    <2>2. CASE WsDeliver
      <3>1. delivered' = IF Frame.k = "cont" THEN With(delivered, frag.k, Append(F, i)) ELSE With(delivered, stream[i].k, <<i>>)
        BY <2>2, <1>2 DEF WsDeliver, With
      <3>2. QED  BY <3>1, <1>5, <1>8
    <2>3. CASE WsClose
      <3>1. delivered' = With(delivered, stream[i].k, <<i>>)
        BY <2>3, <1>2 DEF WsClose, With
      <3>2. QED  BY <3>1, <1>5, <1>8
    <2>4. QED  BY <2>1, <2>2, <2>3
  <1> HIDE DEF i, F
  <1>10. \A n \in DOMAIN stream : stream[n].k \in Http /\ HandedIn(delivered', n) => HandedIn(delivered, n)
    <2>1. CASE delivered' = delivered  BY <2>1
    <2>2. CASE \E k \in Kinds, P \in Seq(Nat) : Last(P) = i /\ delivered' = With(delivered, k, P)
      <3>1. PICK k \in Kinds, P \in Seq(Nat) : Last(P) = i /\ delivered' = With(delivered, k, P)  BY <2>2
      <3>2. ASSUME NEW n \in DOMAIN stream, stream[n].k \in Http, HandedIn(With(delivered, k, P), n)
            PROVE  HandedIn(delivered, n)
        <4>1. HandedIn(delivered, n) \/ n = i  BY <3>1, <3>2, <1>6, HandedMore
        <4>2. QED  BY <4>1, <3>2, <1>4
      <3>3. QED  BY <3>1, <3>2
    <2>3. QED  BY <2>1, <2>2, <1>9
  <1>11. QED  BY <1>2, <1>3, <1>7, <1>10, SpoiledStays

\* Before anything has arrived nothing was refused.
LEMMA SpoiledInvInit == Init => SpoiledInv
  <1> SUFFICES ASSUME Init PROVE SpoiledInv
    OBVIOUS
  <1>1. OrderInv /\ kept = <<>> /\ spoiled = {}  BY OrderInvInit DEF Init
  <1>2. <<>> \in Seq(DOMAIN stream)  OBVIOUS
  <1>3. QED  BY <1>1, <1>2 DEF SpoiledInv

\* Every step keeps it.
LEMMA SpoiledInvStep == SpoiledInv /\ [Next]_vars => SpoiledInv'
  <1> SUFFICES ASSUME SpoiledInv, [Next]_vars PROVE SpoiledInv'
    OBVIOUS
  <1>1. OrderInv /\ StreamInv /\ OrderInv'  BY OrderInvStep DEF SpoiledInv, OrderInv
  <1>2. ASSUME stream' = stream, kept' = kept, spoiled' = spoiled, delivered' = delivered,
               \A c : Passed(stream, arrived, raw, leftover, wsLeft, c) => Passed(stream, arrived', raw', leftover', wsLeft', c)
        PROVE  SpoiledInv'
    BY <1>1, <1>2, SpoiledStays
  <1>3. ASSUME NEW n \in 1..MaxSegment, Arrive(n)  PROVE SpoiledInv'
    <2>1. stream' = stream /\ kept' = kept /\ spoiled' = spoiled /\ delivered' = delivered  BY <1>3 DEF Arrive
    <2>2. QED  BY <2>1, <1>1, <1>2, <1>3, PassedArrive
  <1>4. ASSUME (\E any \in BOOLEAN : HttpEnter(any)) \/ WsEnter  PROVE SpoiledInv'
    <2>1. stream' = stream /\ kept' = kept /\ spoiled' = spoiled /\ delivered' = delivered
      BY <1>4 DEF HttpEnter, WsEnter
    <2>2. QED  BY <2>1, <1>1, <1>2, <1>4, PassedEnter
  <1>5. ASSUME (\E garble \in BOOLEAN : HttpIncomplete(garble)) \/ WsIncomplete \/ WsRefuse  PROVE SpoiledInv'
    <2>1. stream' = stream /\ kept' = kept /\ spoiled' = spoiled /\ delivered' = delivered
      BY <1>5 DEF HttpIncomplete, WsIncomplete, WsRefuse
    <2>2. Leaves  BY <1>5 DEF Leaves
    <2>3. QED  BY <2>1, <2>2, <1>1, <1>2, PassedLeaves
  <1>6. ASSUME UNCHANGED <<stream, kept, spoiled, delivered, arrived, raw, leftover, wsLeft>>  PROVE SpoiledInv'
    BY <1>2, <1>6
  <1>7. ASSUME NEW i \in DOMAIN stream, NEW what \in Parts, RequestGet(i, what)  PROVE SpoiledInv'
    BY <1>6, <1>7 DEF RequestGet
  <1>8. CASE UNCHANGED vars
    BY <1>6, <1>8 DEF vars
  <1>9. QED
    BY <1>1, <1>3, <1>4, <1>5, <1>7, <1>8, SpoiledReject, SpoiledDeliver, SpoiledFrame, Zenon DEF Next

---------------------------------------------------------------------------
(* What a request answers *)

Copied == {"headers", "query"}

\* Of every request among the messages D the head was copied.
HeadsCopied(D, q) ==
  \A d \in DOMAIN D : \A i \in DOMAIN q : D[d].k = "request" /\ D[d].parts = <<i>> => Copied \subseteq q[i]

\* The answers A were the request's own, but for a body that it had not copied
\* and for the headers of the requests X.
Sound(s, q, X) == (s[2] = "body" => s[2] \in q[s[1]]) /\ (s[2] = "headers" => s[1] \notin X)
OwnAnswers(st, A, q, X) ==
  /\ A \subseteq (DOMAIN st) \X Parts \X BOOLEAN
  /\ \A s \in A : Sound(s, q, X) => s[3]

\* A message that waits for its last fragment is no request.
LateInv ==
  /\ OrderInv
  /\ frag.k # "request"
  /\ parsed \in [DOMAIN stream -> SUBSET Parts]
  /\ HeadsCopied(delivered, parsed)
  /\ OwnAnswers(stream, seen, parsed, spoiled)

\* One more message, which is no request or has its head copied.
LEMMA HeadsStayCopied ==
  ASSUME NEW D \in Seq([k : Kinds, parts : Seq(Nat)]), NEW k \in Kinds, NEW P \in Seq(Nat), NEW q, NEW r,
         HeadsCopied(D, q), DOMAIN r = DOMAIN q, \A i \in DOMAIN q : q[i] \subseteq r[i],
         \A i \in DOMAIN q : k = "request" /\ P = <<i>> => Copied \subseteq r[i]
  PROVE  HeadsCopied(With(D, k, P), r)
  <1> DEFINE x == [k |-> k, parts |-> P]
             E == Append(D, x)
             S == [k : Kinds, parts : Seq(Nat)]
  <1>1. x \in S /\ x.k = k /\ x.parts = P /\ D \in Seq(S)  OBVIOUS
  <1> HIDE DEF x, S
  <1>2. /\ Len(D) \in Nat /\ DOMAIN D = 1..Len(D) /\ DOMAIN E = 1..Len(D) + 1
        /\ (\A d \in DOMAIN D : E[d] = D[d]) /\ E[Len(D) + 1] = x
    BY <1>1
  <1> HIDE DEF E
  <1>3. \A d \in DOMAIN E : d \in DOMAIN D \/ d = Len(D) + 1  BY <1>2
  <1>4. HeadsCopied(E, r)  BY <1>1, <1>2, <1>3 DEF HeadsCopied
  <1>5. QED  BY <1>4 DEF E, x, With

\* The messages stay and the requests have copied more.
LEMMA MoreCopied ==
  ASSUME NEW D, NEW q, NEW r, HeadsCopied(D, q), DOMAIN r = DOMAIN q, \A i \in DOMAIN q : q[i] \subseteq r[i]
  PROVE  HeadsCopied(D, r)
  BY DEF HeadsCopied

\* A step that neither hands on nor asks.
LEMMA LateStays ==
  ASSUME LateInv, OrderInv', stream' = stream, parsed' = parsed, seen' = seen, delivered' = delivered, spoiled \subseteq spoiled',
         frag'.k # "request"
  PROVE  LateInv'
  BY DEF LateInv, OwnAnswers, Sound

\* A request is handed on with its head copied.
LEMMA LateRequest ==
  ASSUME LateInv, OrderInv', HttpDeliver
  PROVE  LateInv'
  <1> DEFINE i == ItemAt(raw[1])
             r == [parsed EXCEPT ![i] = @ \cup Copied]
  <1>1. /\ pc \in {"parse", "frame"} /\ WholeItem(raw) /\ Parsed = stream[i].k
        /\ delivered' = With(delivered, stream[i].k, <<i>>)
        /\ parsed' = r
        /\ stream' = stream /\ frag' = frag /\ seen' = seen /\ spoiled \subseteq spoiled'
    BY DEF HttpDeliver, HandOn, Spoil, Parsed, With, Copied
  <1>2. /\ OrderInv /\ frag.k # "request" /\ parsed \in [DOMAIN stream -> SUBSET Parts]
        /\ HeadsCopied(delivered, parsed) /\ OwnAnswers(stream, seen, parsed, spoiled)
    BY DEF LateInv
  <1>3. i \in DOMAIN stream /\ i \in Nat /\ stream[i].k \in Kinds  BY <1>1, <1>2, FrontIsNext
  <1>4. delivered \in Seq([k : Kinds, parts : Seq(Nat)])  BY <1>2 DEF OrderInv, Ordered
  <1> HIDE DEF i
  <1>5. /\ r \in [DOMAIN stream -> SUBSET Parts] /\ DOMAIN r = DOMAIN parsed
        /\ r[i] = parsed[i] \cup Copied
        /\ \A j \in DOMAIN stream : j # i => r[j] = parsed[j]
    BY <1>2, <1>3 DEF Copied, Parts
  <1> HIDE DEF r
  <1>6. HeadsCopied(With(delivered, stream[i].k, <<i>>), r)
    <2>1. \A j \in DOMAIN parsed : parsed[j] \subseteq r[j]  BY <1>2, <1>5
    <2> DEFINE P == <<i>>
               k == stream[i].k
    <2>2. \A j \in DOMAIN parsed : k = "request" /\ P = <<j>> => Copied \subseteq r[j]
      <3>1. \A j : <<i>> = <<j>> => i = j
        <4>1. \A j : <<j>>[1] = j  OBVIOUS
        <4>2. QED  BY <4>1
      <3>2. QED  BY <3>1, <1>5
    <2>3. P \in Seq(Nat) /\ k \in Kinds  BY <1>3
    <2> HIDE DEF P, k
    <2>4. HeadsCopied(delivered, parsed) /\ DOMAIN r = DOMAIN parsed  BY <1>2, <1>5
    <2>5. HeadsCopied(With(delivered, k, P), r)  BY <2>1, <2>2, <2>3, <2>4, <1>4, HeadsStayCopied
    <2>6. QED  BY <2>5 DEF P, k
  <1>7. OwnAnswers(stream, seen, r, spoiled')
    <2> SUFFICES ASSUME NEW s \in seen, Sound(s, r, spoiled')  PROVE s[3]
      BY <1>2 DEF OwnAnswers
    <2>1. s[1] \in DOMAIN stream /\ (Sound(s, parsed, spoiled) => s[3])  BY <1>2 DEF OwnAnswers
    <2>2. s[2] = "body" => s[2] \notin Copied  BY DEF Copied
    <2>3. s[2] = "body" /\ s[2] \in r[s[1]] => s[2] \in parsed[s[1]]  BY <2>1, <2>2, <1>5
    <2>4. Sound(s, parsed, spoiled)  BY <2>3, <1>1 DEF Sound
    <2>5. QED  BY <2>1, <2>4
  <1>8. QED  BY <1>1, <1>2, <1>5, <1>6, <1>7 DEF LateInv

\* A frame is no request, nor does it become one with fragments.
LEMMA LateFrame ==
  ASSUME LateInv, OrderInv', WsFragment \/ WsDeliver \/ WsClose
  PROVE  LateInv'
  <1> DEFINE i == ItemAt(raw[1])
             F == frag.parts
  <1>1. /\ OrderInv /\ frag.k # "request" /\ parsed \in [DOMAIN stream -> SUBSET Parts]
        /\ HeadsCopied(delivered, parsed) /\ OwnAnswers(stream, seen, parsed, spoiled)
    BY DEF LateInv
  <1>2. pc = "frame" /\ WholeItem(raw) /\ stream' = stream /\ Frame = stream[i]  BY <1>1, FrameTaken
  <1>3. Frame.k # "request"  BY <1>1, <1>2, FrameIsNoHttp DEF OrderInv, Http
  <1>4. /\ i \in Nat /\ stream[i].k \in Kinds /\ F \in Seq(Nat) /\ frag.k \in Kinds
        /\ frag \in [parts : Seq(Nat), k : Kinds]
    BY <1>1, <1>2, FrameNext DEF OrderInv
  <1>5. delivered \in Seq([k : Kinds, parts : Seq(Nat)])  BY <1>1 DEF OrderInv, Ordered
  <1>6. parsed' = parsed /\ seen' = seen /\ spoiled' = spoiled  BY DEF WsFragment, WsDeliver, WsClose
  <1>7. <<i>> \in Seq(Nat) /\ Append(F, i) \in Seq(Nat) /\ <<>> \in Seq(Nat)  BY <1>4
  <1>8. /\ [frag EXCEPT !.parts = Append(@, i)] = [parts |-> Append(F, i), k |-> frag.k]
        /\ [frag EXCEPT !.parts = <<>>] = [parts |-> <<>>, k |-> frag.k]
    <2>1. [frag EXCEPT !.parts = Append(@, i)] = [frag EXCEPT !.parts = Append(F, i)]  OBVIOUS
    <2>2. QED  BY <2>1, <1>4, <1>7, OtherParts, Zenon
  <1>9. frag'.k # "request"
    <2>1. CASE WsFragment
      <3>1. frag' = IF Frame.k = "cont" THEN [parts |-> Append(F, i), k |-> frag.k] ELSE [parts |-> <<i>>, k |-> Frame.k]
        BY <2>1, <1>8 DEF WsFragment
      <3>2. QED  BY <3>1, <1>1, <1>3
    <2>2. CASE WsDeliver
      <3>1. frag' = IF Frame.k = "cont" THEN [parts |-> <<>>, k |-> frag.k] ELSE frag  BY <2>2, <1>8 DEF WsDeliver
      <3>2. QED  BY <3>1, <1>1
    <2>3. CASE WsClose  BY <2>3, <1>1 DEF WsClose
    <2>4. QED  BY <2>1, <2>2, <2>3
  <1>10. HeadsCopied(delivered', parsed)
    <2>1. \A j \in DOMAIN parsed : parsed[j] \subseteq parsed[j]  OBVIOUS
    <2>2. ASSUME NEW k \in Kinds, NEW P \in Seq(Nat), k # "request"  PROVE HeadsCopied(With(delivered, k, P), parsed)
      BY <2>1, <2>2, <1>1, <1>5, HeadsStayCopied
    <2>3. CASE WsFragment  BY <2>3, <1>1 DEF WsFragment
    <2>4. CASE WsDeliver
      <3>1. delivered' = IF Frame.k = "cont" THEN With(delivered, frag.k, Append(F, i)) ELSE With(delivered, stream[i].k, <<i>>)
        BY <2>4, <1>2 DEF WsDeliver, With
      <3>2. QED  BY <3>1, <2>2, <1>1, <1>2, <1>3, <1>4, <1>7
    <2>5. CASE WsClose
      <3>1. delivered' = With(delivered, stream[i].k, <<i>>)
        BY <2>5, <1>2 DEF WsClose, With
      <3>2. QED  BY <3>1, <2>2, <1>2, <1>3, <1>4, <1>7
    <2>6. QED  BY <2>3, <2>4, <2>5
  <1>11. QED  BY <1>1, <1>2, <1>6, <1>9, <1>10 DEF LateInv

\* A handler asks a request.
LEMMA LateAsk ==
  ASSUME LateInv, OrderInv', NEW i \in DOMAIN stream, NEW what \in Parts, RequestGet(i, what)
  PROVE  LateInv'
  <1> DEFINE r == IF i \in intact THEN [parsed EXCEPT ![i] = @ \cup {what}] ELSE parsed
             own == (what \in parsed[i] \/ i \in intact) /\ (what = "headers" => i \notin spoiled)
  <1>1. /\ frag.k # "request" /\ parsed \in [DOMAIN stream -> SUBSET Parts]
        /\ HeadsCopied(delivered, parsed) /\ OwnAnswers(stream, seen, parsed, spoiled)
    BY DEF LateInv
  <1>2. /\ stream' = stream /\ frag' = frag /\ delivered' = delivered /\ parsed' = r /\ spoiled' = spoiled
        /\ seen' = seen \cup {<<i, what, own>>}
        /\ \A s \in seen : ~(s[1] = i /\ s[2] = what)
    BY DEF RequestGet, Own
  <1>3. /\ r \in [DOMAIN stream -> SUBSET Parts] /\ DOMAIN r = DOMAIN parsed
        /\ \A j \in DOMAIN stream : parsed[j] \subseteq r[j]
        /\ \A j \in DOMAIN stream : j # i => r[j] = parsed[j]
        /\ r[i] \subseteq parsed[i] \cup {what}
        /\ i \notin intact => r[i] = parsed[i]
    BY <1>1
  <1>4. own \in BOOLEAN /\ (own <=> (what \in parsed[i] \/ i \in intact) /\ (what = "headers" => i \notin spoiled))
    OBVIOUS
  <1>5. what # "body" => what \in parsed[i]
    <2>1. PICK d \in DOMAIN delivered : delivered[d] = [k |-> "request", parts |-> <<i>>]  BY DEF RequestGet
    <2>2. delivered[d].k = "request" /\ delivered[d].parts = <<i>>  BY <2>1
    <2>3. Copied \subseteq parsed[i]  BY <2>2, <1>1 DEF HeadsCopied
    <2>4. what # "body" => what \in Copied  BY DEF Parts, Copied
    <2>5. QED  BY <2>3, <2>4
  <1> HIDE DEF r, own
  <1>6. HeadsCopied(delivered, r)
    <2>1. \A j \in DOMAIN parsed : parsed[j] \subseteq r[j]  BY <1>1, <1>3
    <2>2. QED  BY <2>1, <1>1, <1>3, MoreCopied
  <1>7. OwnAnswers(stream, seen', r, spoiled)
    <2>1. seen' \subseteq (DOMAIN stream) \X Parts \X BOOLEAN
      BY <1>1, <1>2, <1>4 DEF OwnAnswers
    <2>2. ASSUME NEW s \in seen, Sound(s, r, spoiled)  PROVE s[3]
      <3>1. s[1] \in DOMAIN stream /\ (Sound(s, parsed, spoiled) => s[3])  BY <1>1 DEF OwnAnswers
      <3>2. s[2] \in r[s[1]] => s[2] \in parsed[s[1]]
        <4>1. CASE s[1] # i  BY <4>1, <3>1, <1>3
        <4>2. CASE s[1] = i
          <5>1. s[2] # what  BY <4>2, <1>2
          <5>2. QED  BY <5>1, <4>2, <1>3
        <4>3. QED  BY <4>1, <4>2
      <3>3. QED  BY <3>1, <3>2, <2>2 DEF Sound
    <2>3. ASSUME what = "body" => what \in r[i], what = "headers" => i \notin spoiled  PROVE own
      BY <2>3, <1>3, <1>4, <1>5
    <2>4. \A s \in {<<i, what, own>>} : s[1] = i /\ s[2] = what /\ s[3] = own  OBVIOUS
    <2>5. ASSUME NEW s \in seen', Sound(s, r, spoiled)  PROVE s[3]
      <3>1. s \in seen \/ s \in {<<i, what, own>>}  BY <1>2
      <3>2. CASE s \in seen  BY <3>2, <2>2, <2>5
      <3>3. CASE s \in {<<i, what, own>>}
        <4>1. s[1] = i /\ s[2] = what /\ s[3] = own  BY <3>3, <2>4
        <4>2. own  BY <4>1, <2>3, <2>5 DEF Sound
        <4>3. QED  BY <4>1, <4>2
      <3>4. QED  BY <3>1, <3>2, <3>3
    <2>6. QED  BY <2>1, <2>5 DEF OwnAnswers
  <1>8. QED  BY <1>1, <1>2, <1>3, <1>6, <1>7 DEF LateInv

\* Before anything was asked.
LEMMA LateInvInit == Init => LateInv
  <1> SUFFICES ASSUME Init PROVE LateInv
    OBVIOUS
  <1>1. /\ OrderInv /\ delivered = <<>> /\ seen = {} /\ frag = [parts |-> <<>>, k |-> "text"]
        /\ parsed = [i \in DOMAIN stream |-> {}]
    BY OrderInvInit DEF Init, WsInit
  <1>2. frag.k # "request"  BY <1>1
  <1>3. parsed \in [DOMAIN stream -> SUBSET Parts]  BY <1>1
  <1>4. HeadsCopied(delivered, parsed) /\ OwnAnswers(stream, seen, parsed, spoiled)
    BY <1>1 DEF HeadsCopied, OwnAnswers
  <1>5. QED  BY <1>1, <1>2, <1>3, <1>4 DEF LateInv

\* Every step keeps the answers.
LEMMA LateInvStep == LateInv /\ [Next]_vars => LateInv'
  <1> SUFFICES ASSUME LateInv, [Next]_vars PROVE LateInv'
    OBVIOUS
  <1>1. OrderInv'  BY OrderInvStep DEF LateInv
  <1>2. ASSUME UNCHANGED <<stream, parsed, seen, delivered, frag>>, spoiled \subseteq spoiled'  PROVE LateInv'
    <2>1. frag'.k # "request"  BY <1>2 DEF LateInv
    <2>2. QED  BY <2>1, <1>1, <1>2, LateStays
  <1>3. ASSUME NEW n \in 1..MaxSegment, Arrive(n)  PROVE LateInv'
    BY <1>2, <1>3 DEF Arrive
  <1>4. ASSUME NEW b \in BOOLEAN, HttpEnter(b) \/ HttpIncomplete(b)  PROVE LateInv'
    BY <1>2, <1>4 DEF HttpEnter, HttpIncomplete
  <1>5. ASSUME HttpReject \/ WsEnter \/ WsIncomplete \/ WsRefuse  PROVE LateInv'
    BY <1>2, <1>5 DEF HttpReject, Spoil, WsEnter, WsIncomplete, WsRefuse
  <1>6. CASE UNCHANGED vars
    BY <1>2, <1>6 DEF vars
  <1>7. QED
    BY <1>1, <1>3, <1>4, <1>5, <1>6, LateRequest, LateAsk, LateFrame, Zenon DEF Next

\* A handler that keeps an HttpRequest gets the request's own headers and
\* query from it at any later time, also when the read buffer it was parsed
\* from holds other bytes by then, and its own body if it asked for that in
\* time: HttpServerCodec has the head copied before it hands the request on.
\* Only the headers of the first request that it hands on behind a 413 may be
\* another's, those of the refused requests: st.request kept them.
THEOREM AnswersAreOwn == Spec => []LateAccessIsOwn
  <1>1. ASSUME LateInv, SpoiledInv  PROVE LateAccessIsOwn
    <2>1. \A n : TaintedIn(stream, delivered, n) => Tainted(n)  BY DEF TaintedIn, Tainted, HandedIn, HandedOn
    <2>2. \A n \in spoiled : Tainted(n)  BY <2>1, <1>1 DEF SpoiledInv
    <2>3. QED  BY <2>2, <1>1 DEF LateInv, OwnAnswers, Sound, LateAccessIsOwn
  <1>2. QED  BY <1>1, LateInvInit, LateInvStep, SpoiledInvInit, SpoiledInvStep, PTL DEF Spec

---------------------------------------------------------------------------
(* Types *)

\* What is looked at and kept are positions of bytes that have arrived, and
\* no longer than those; off is set only where raw is behind it in leftover.
Sized(a, c, r, o, l, w) ==
  /\ c \in {"idle", "http", "parse", "ws", "frame", "end"}
  /\ r \in Seq(0..a) /\ l \in Seq(0..a) /\ w \in Seq(0..a)
  /\ Len(l) <= a
  /\ c = "http" => Len(l) + Len(r) <= a
  /\ c = "parse" => Len(r) <= a
  /\ o = -1 \/ (o \in Nat /\ o + Len(r) <= a /\ c \in {"parse", "idle"})

\* A continuation is never the kind of a message, which is that of the frame
\* that opened it.
KindsFit(D, k) ==
  k \in Data /\ \A d \in DOMAIN D : D[d].k \in Http \cup Data \cup Control

TypeInv ==
  /\ LateInv
  /\ Sized(arrived, pc, raw, off, leftover, wsLeft)
  /\ KindsFit(delivered, frag.k)
  /\ intact \subseteq DOMAIN stream /\ trouble \in BOOLEAN

\* A piece of the stream is made of its positions.
LEMMA PieceType ==
  ASSUME NEW s \in Seq(Nat), NEW a \in Nat, UpTo(s, a)
  PROVE  s \in Seq(0..a) /\ Len(s) \in Nat /\ Len(s) <= a
  <1>1. Len(s) \in Nat /\ Len(s) <= a /\ \A j \in 1..Len(s) : s[j] = a - Len(s) + j  BY DEF UpTo
  <1>2. \A j \in 1..Len(s) : s[j] \in 0..a  BY <1>1
  <1>3. s = [j \in 1..Len(s) |-> s[j]] /\ \A j \in 1..Len(s) : s[j] \in 0..a  BY <1>2
  <1>4. s \in Seq(0..a)
    <2>1. s \in [1..Len(s) -> 0..a]  BY <1>3
    <2>2. QED  BY <2>1, <1>1
  <1>5. QED  BY <1>1, <1>4

\* More bytes have arrived.
LEMMA PieceGrows ==
  ASSUME NEW a \in Nat, NEW b \in Nat, a <= b, NEW s \in Seq(0..a)
  PROVE  s \in Seq(0..b)
  <1>1. 0..a \subseteq 0..b  OBVIOUS
  <1>2. QED  BY <1>1

\* Outside of HttpServerCodec only the pieces themselves matter.
LEMMA SizedNext ==
  ASSUME NEW a \in Nat, NEW d \in {"idle", "frame", "end"}, NEW t \in Seq(0..a),
         NEW x \in Seq(0..a), Len(x) <= a, NEW y \in Seq(0..a)
  PROVE  Sized(a, d, t, -1, x, y)
  BY DEF Sized

\* A segment arrives.
LEMMA SizedArrive ==
  ASSUME TypeInv, StreamInv', NEW n \in 1..MaxSegment, Arrive(n)
  PROVE  Sized(arrived, pc, raw, off, leftover, wsLeft)'
  <1>1. /\ arrived \in Nat /\ arrived' \in Nat /\ raw' \in Seq(Nat) /\ UpTo(raw', arrived')
    BY DEF TypeInv, LateInv, OrderInv, StreamInv, Where, Arrive
  <1>2. /\ arrived' = arrived + n /\ raw' = Bytes(arrived + 1, arrived + n) /\ off' = -1 /\ pc' = "http"
        /\ leftover' = leftover /\ wsLeft' = wsLeft
    BY DEF Arrive
  <1>3. n \in Nat \ {0}  BY StreamsAssumption
  <1>4. Len(raw') = n  BY <1>1, <1>2, <1>3, SegmentUpTo
  <1>5. leftover \in Seq(0..arrived) /\ wsLeft \in Seq(0..arrived) /\ Len(leftover) <= arrived /\ Len(leftover) \in Nat
    BY DEF TypeInv, Sized
  <1>6. leftover \in Seq(0..arrived') /\ wsLeft \in Seq(0..arrived') /\ raw' \in Seq(0..arrived')
    <2>1. arrived <= arrived'  BY <1>1, <1>2, <1>3
    <2>2. QED  BY <2>1, <1>1, <1>5, PieceGrows, PieceType
  <1>7. Len(leftover) <= arrived' /\ Len(leftover) + Len(raw') <= arrived'  BY <1>1, <1>2, <1>3, <1>4, <1>5
  <1>8. QED  BY <1>2, <1>6, <1>7 DEF Sized

\* HttpServerCodec puts the segment behind what it kept, or passes it on.
LEMMA SizedEnter ==
  ASSUME TypeInv, NEW any, HttpEnter(any)
  PROVE  Sized(arrived, pc, raw, off, leftover, wsLeft)'
  <1> DEFINE t == leftover \o raw
  <1>1. /\ arrived \in Nat /\ pc = "http" /\ Sized(arrived, pc, raw, off, leftover, wsLeft)
    BY DEF TypeInv, LateInv, OrderInv, StreamInv, Where, HttpEnter
  <1>2. /\ arrived' = arrived /\ wsLeft' = wsLeft
        /\ \/ pc' \in {"ws", "parse"} /\ raw' = raw /\ off' = off /\ leftover' = leftover
           \/ pc' = "parse" /\ raw' = t /\ off' = 0 /\ leftover' = t
    <2>1. leftover = <<>> => t = raw  BY <1>1, ConcatEmptySeq DEF Sized
    <2> HIDE DEF t
    <2>2. QED  BY <2>1 DEF HttpEnter, t
  <1>3. /\ raw \in Seq(0..arrived) /\ leftover \in Seq(0..arrived) /\ wsLeft \in Seq(0..arrived)
        /\ Len(leftover) <= arrived /\ Len(leftover) + Len(raw) <= arrived /\ off = -1
        /\ Len(leftover) \in Nat /\ Len(raw) \in Nat
    BY <1>1 DEF Sized
  <1>4. t \in Seq(0..arrived) /\ Len(t) = Len(leftover) + Len(raw)  BY <1>3, ConcatProperties
  <1> HIDE DEF t
  <1>5. Len(raw) <= arrived /\ Len(t) <= arrived /\ 0 + Len(t) <= arrived /\ 0 \in Nat  BY <1>1, <1>3, <1>4
  <1>6. QED  BY <1>1, <1>2, <1>3, <1>4, <1>5 DEF Sized

\* A request is handed on: off moves as far as raw becomes shorter.
LEMMA SizedHandOn ==
  ASSUME TypeInv, StreamInv', HttpDeliver
  PROVE  Sized(arrived, pc, raw, off, leftover, wsLeft)'
  <1> DEFINE i == ItemAt(raw[1])
             t == Rest(raw, stream[i].size)
  <1>1. pc = "parse" /\ WholeItem(raw)  BY DEF HttpDeliver, HandOn, Parsed
  <1>2. /\ StreamInv /\ stream \in Streams /\ arrived \in Nat /\ raw \in Seq(Nat)
        /\ Sized(arrived, pc, raw, off, leftover, wsLeft)
    BY DEF TypeInv, LateInv, OrderInv, StreamInv, Where
  <1>3. InFront(stream, i, arrived, raw, t)  BY <1>1, <1>2, WholeInFront
  <1>4. /\ arrived' = arrived /\ leftover' = <<>> /\ wsLeft' = wsLeft /\ raw' = t /\ pc' \in {"idle", "parse"}
        /\ off' = IF off >= 0 THEN off + stream[i].size ELSE off
    BY DEF HttpDeliver, HandOn
  <1> HIDE DEF i, t
  <1>5. stream[i].size \in Nat /\ Len(raw) \in Nat /\ t \in Seq(Nat) /\ UpTo(t, arrived) /\ Len(t) = Len(raw) - stream[i].size
    BY <1>2, <1>3, Layout DEF InFront
  <1>6. t \in Seq(0..arrived) /\ Len(t) \in Nat /\ Len(t) <= arrived  BY <1>2, <1>5, PieceType
  <1>7. off' = -1 \/ (off' \in Nat /\ off' + Len(t) <= arrived)
    <2> DEFINE n == stream[i].size
    <2>1. off = -1 \/ (off \in Nat /\ off + Len(raw) <= arrived)  BY <1>2 DEF Sized
    <2>2. /\ n \in Nat /\ Len(raw) \in Nat /\ Len(t) = Len(raw) - n
          /\ off' = IF off >= 0 THEN off + n ELSE off
      BY <1>4, <1>5
    <2> HIDE DEF n
    <2>3. CASE off = -1  BY <2>2, <2>3
    <2>4. CASE off \in Nat /\ off + Len(raw) <= arrived
      <3>1. off' = off + n  BY <2>2, <2>4
      <3>2. QED  BY <3>1, <2>2, <2>4, <1>2
    <2>5. QED  BY <2>1, <2>3, <2>4
  <1>8. wsLeft \in Seq(0..arrived) /\ <<>> \in Seq(0..arrived) /\ Len(<<>>) <= arrived  BY <1>2 DEF Sized
  <1>9. QED  BY <1>4, <1>6, <1>7, <1>8 DEF Sized

\* An incomplete request is kept.
LEMMA SizedIncomplete ==
  ASSUME TypeInv, NEW garble \in BOOLEAN, HttpIncomplete(garble)
  PROVE  Sized(arrived, pc, raw, off, leftover, wsLeft)'
  <1> DEFINE z == [j \in DOMAIN raw |-> 0]
  <1>1. arrived \in Nat /\ Sized(arrived, pc, raw, off, leftover, wsLeft)
    BY DEF TypeInv, LateInv, OrderInv, StreamInv, Where
  <1>2. /\ arrived' = arrived /\ wsLeft' = wsLeft /\ raw' = <<>> /\ pc' = "idle" /\ off' = -1 /\ pc = "parse"
        /\ leftover' = leftover \/ leftover' = z \/ leftover' = raw
    BY DEF HttpIncomplete
  <1>3. /\ raw \in Seq(0..arrived) /\ leftover \in Seq(0..arrived)
        /\ Len(leftover) <= arrived /\ Len(raw) <= arrived /\ Len(raw) \in Nat
    BY <1>1, <1>2 DEF Sized
  <1>4. z \in Seq(0..arrived) /\ Len(z) = Len(raw)
    <2> DEFINE S == 0..arrived
               n == Len(raw)
    <2>1. DOMAIN raw = 1..n /\ n \in Nat  BY <1>3
    <2>2. z \in [1..n -> S]  BY <2>1, <1>1
    <2> HIDE DEF z, S, n
    <2>3. z \in Seq(S) /\ Len(z) = n  BY <2>1, <2>2
    <2>4. QED  BY <2>3 DEF S, n
  <1> HIDE DEF z
  <1>5. leftover' \in Seq(0..arrived) /\ Len(leftover') <= arrived  BY <1>2, <1>3, <1>4
  <1>6. Sized(arrived, "idle", <<>>, -1, leftover', wsLeft)
    <2>1. <<>> \in Seq(0..arrived) /\ wsLeft \in Seq(0..arrived)  BY <1>1 DEF Sized
    <2>2. QED  BY <2>1, <1>1, <1>5, SizedNext
  <1>7. QED  BY <1>2, <1>6

\* channelRead() returns.
LEMMA SizedReturns ==
  ASSUME TypeInv, NEW lost, Returns(lost), arrived' = arrived,
         leftover' = leftover \/ leftover' = <<>>,
         wsLeft' = wsLeft \/ (wsLeft' = raw /\ leftover' = leftover)
  PROVE  Sized(arrived, pc, raw, off, leftover, wsLeft)'
  <1>1. arrived \in Nat /\ Sized(arrived, pc, raw, off, leftover, wsLeft) /\ raw \in Seq(0..arrived)
    BY DEF TypeInv, LateInv, OrderInv, StreamInv, Where, Sized
  <1>2. raw' = <<>> /\ off' = -1 /\ pc' \in {"idle", "end"}  BY DEF Returns
  <1>3. Sized(arrived, pc', <<>>, -1, leftover', wsLeft')
    <2>1. /\ leftover' \in Seq(0..arrived) /\ Len(leftover') <= arrived /\ wsLeft' \in Seq(0..arrived)
          /\ <<>> \in Seq(0..arrived)
      <3>1. Len(<<>>) <= arrived /\ <<>> \in Seq(0..arrived)  BY <1>1
      <3>2. QED  BY <3>1, <1>1 DEF Sized
    <2>2. QED  BY <2>1, <1>1, <1>2, SizedNext
  <1>4. QED  BY <1>2, <1>3

\* WebSocketCodec takes the segment.
LEMMA SizedWsEnter ==
  ASSUME TypeInv, StreamInv', WsEnter
  PROVE  Sized(arrived, pc, raw, off, leftover, wsLeft)'
  <1>1. arrived \in Nat /\ Sized(arrived, pc, raw, off, leftover, wsLeft)
    BY DEF TypeInv, LateInv, OrderInv, StreamInv, Where
  <1>2. /\ arrived' = arrived /\ wsLeft' = <<>> /\ pc' = "frame" /\ leftover' = leftover /\ off' = off /\ pc = "ws"
    BY DEF WsEnter
  <1>3. raw' \in Seq(Nat) /\ UpTo(raw', arrived)  BY <1>2 DEF StreamInv, Where
  <1>4. raw' \in Seq(0..arrived) /\ <<>> \in Seq(0..arrived)  BY <1>1, <1>3, PieceType
  <1>5. off = -1 /\ leftover \in Seq(0..arrived) /\ Len(leftover) <= arrived  BY <1>1, <1>2 DEF Sized
  <1>6. QED  BY <1>2, <1>4, <1>5 DEF Sized

\* WebSocketCodec goes on with the next frame.
LEMMA SizedWsNext ==
  ASSUME TypeInv, StreamInv', pc = "frame", WsNext, arrived' = arrived, off' = off,
         leftover' = leftover, wsLeft' = wsLeft, WholeItem(raw)
  PROVE  Sized(arrived, pc, raw, off, leftover, wsLeft)'
  <1>1. arrived \in Nat /\ StreamInv /\ Sized(arrived, pc, raw, off, leftover, wsLeft)
    BY DEF TypeInv, LateInv, OrderInv, StreamInv, Where
  <1> DEFINE i == ItemAt(raw[1])
             t == Rest(raw, stream[i].size)
  <1>2. InFront(stream, i, arrived, raw, t)  BY <1>1, WholeInFront
  <1>3. raw' = t /\ pc' \in {"idle", "frame"}  BY DEF WsNext, Frame
  <1> HIDE DEF i, t
  <1>4. t \in Seq(Nat) /\ UpTo(t, arrived)  BY <1>2 DEF InFront
  <1>5. /\ off = -1 /\ leftover \in Seq(0..arrived) /\ Len(leftover) <= arrived /\ wsLeft \in Seq(0..arrived)
        /\ t \in Seq(0..arrived)
    BY <1>1, <1>4, PieceType DEF Sized
  <1> DEFINE d == pc'
  <1>6. d \in {"idle", "frame", "end"}  BY <1>3
  <1> HIDE DEF d
  <1>7. Sized(arrived, d, t, -1, leftover, wsLeft)  BY <1>1, <1>5, <1>6, SizedNext
  <1>8. QED  BY <1>3, <1>5, <1>7 DEF d

\* What comes of the loops that the action is one iteration of.
LEMMA SizedStep ==
  ASSUME TypeInv, StreamInv', Next
  PROVE  Sized(arrived, pc, raw, off, leftover, wsLeft)'
  <1>1. ASSUME HttpReject  PROVE Sized(arrived, pc, raw, off, leftover, wsLeft)'
    <2>1. PICK lost : Returns(lost) /\ arrived' = arrived /\ leftover' = <<>> /\ wsLeft' = wsLeft
      BY <1>1 DEF HttpReject
    <2>2. QED  BY <2>1, SizedReturns
  <1>2. ASSUME WsIncomplete  PROVE Sized(arrived, pc, raw, off, leftover, wsLeft)'
    <2>1. Returns(<<>>) /\ arrived' = arrived /\ leftover' = leftover /\ wsLeft' = raw
      BY <1>2 DEF WsIncomplete
    <2>2. QED  BY <2>1, SizedReturns
  <1>3. ASSUME WsRefuse \/ WsClose  PROVE Sized(arrived, pc, raw, off, leftover, wsLeft)'
    <2>1. PICK lost : Returns(lost) /\ arrived' = arrived /\ leftover' = leftover /\ wsLeft' = wsLeft
      BY <1>3 DEF WsRefuse, WsClose
    <2>2. QED  BY <2>1, SizedReturns
  <1>4. ASSUME WsFragment \/ WsDeliver  PROVE Sized(arrived, pc, raw, off, leftover, wsLeft)'
    <2>1. /\ pc = "frame" /\ WsNext /\ arrived' = arrived /\ off' = off
          /\ leftover' = leftover /\ wsLeft' = wsLeft /\ WholeItem(raw)
      BY <1>4 DEF WsFragment, WsDeliver
    <2>2. QED  BY <2>1, SizedWsNext
  <1>5. ASSUME NEW i \in DOMAIN stream, NEW what \in Parts, RequestGet(i, what)
        PROVE  Sized(arrived, pc, raw, off, leftover, wsLeft)'
    BY <1>5 DEF RequestGet, TypeInv
  <1>6. QED
    BY <1>1, <1>2, <1>3, <1>4, <1>5, SizedArrive, SizedEnter, SizedHandOn, SizedIncomplete, SizedWsEnter, Zenon DEF Next

\* One more message.
LEMMA KindsStay ==
  ASSUME NEW D \in Seq([k : Kinds, parts : Seq(Nat)]), NEW f, KindsFit(D, f),
         NEW k \in Http \cup Data \cup Control, NEW P \in Seq(Nat)
  PROVE  KindsFit(With(D, k, P), f)
  <1> DEFINE x == [k |-> k, parts |-> P]
             E == Append(D, x)
             S == [k : Kinds, parts : Seq(Nat)]
             K == Http \cup Data \cup Control
  <1>1. x \in S /\ x.k = k /\ D \in Seq(S)  BY DEF Kinds
  <1> HIDE DEF x, S
  <1>2. /\ Len(D) \in Nat /\ DOMAIN D = 1..Len(D) /\ DOMAIN E = 1..Len(D) + 1
        /\ (\A d \in DOMAIN D : E[d] = D[d]) /\ E[Len(D) + 1] = x
    BY <1>1
  <1> HIDE DEF E, K
  <1>3. \A d \in DOMAIN E : d \in DOMAIN D \/ d = Len(D) + 1  BY <1>2
  <1>4. k \in K /\ \A d \in DOMAIN D : D[d].k \in K  BY DEF KindsFit, K
  <1>5. \A d \in DOMAIN E : E[d].k \in K  BY <1>1, <1>2, <1>3, <1>4
  <1>6. QED  BY <1>5 DEF KindsFit, With, E, K, x

\* A request, a frame, or a frame that ends a message.
LEMMA KindsStep ==
  ASSUME TypeInv, HttpDeliver \/ WsFragment \/ WsDeliver \/ WsClose
  PROVE  KindsFit(delivered, frag.k)' /\ intact' \subseteq DOMAIN stream
  <1> DEFINE i == ItemAt(raw[1])
             F == frag.parts
             k == stream[i].k
  <1>1. /\ OrderInv /\ delivered \in Seq([k : Kinds, parts : Seq(Nat)]) /\ KindsFit(delivered, frag.k)
        /\ intact \subseteq DOMAIN stream /\ frag.k \in Data /\ F \in Seq(Nat)
        /\ frag \in [parts : Seq(Nat), k : Kinds]
    BY DEF TypeInv, LateInv, OrderInv, Ordered, KindsFit
  <1>2. ASSUME NEW h \in Http \cup Data \cup Control, NEW P \in Seq(Nat)
        PROVE  KindsFit(With(delivered, h, P), frag.k)
    BY <1>1, KindsStay
  <1>3. CASE HttpDeliver
    <2>1. /\ pc \in {"parse", "frame"} /\ WholeItem(raw) /\ k \in Http
          /\ delivered' = With(delivered, k, <<i>>) /\ intact' = intact \cup {i} /\ frag' = frag
      BY <1>3 DEF HttpDeliver, HandOn, Parsed, With
    <2>2. i \in DOMAIN stream /\ i \in Nat  BY <1>1, <2>1, FrontIsNext
    <2> HIDE DEF i, k
    <2>3. <<i>> \in Seq(Nat)  BY <2>2
    <2>4. KindsFit(With(delivered, k, <<i>>), frag.k)  BY <2>1, <2>3, <1>2
    <2>5. QED  BY <2>1, <2>2, <2>4, <1>1
  <1>4. CASE WsFragment \/ WsDeliver \/ WsClose
    <2>1. pc = "frame" /\ WholeItem(raw) /\ Frame = stream[i]  BY <1>1, <1>4, FrameTaken
    <2>2. k \notin Http  BY <1>1, <2>1, FrameIsNoHttp DEF OrderInv
    <2>3. i \in Nat /\ k \in Kinds  BY <1>1, <2>1, FrameNext
    <2>4. Frame.k = k  BY <2>1
    <2> HIDE DEF i, k
    <2>5. k = "cont" \/ k \in Data \cup Control  BY <2>2, <2>3 DEF Kinds
    <2>6. <<i>> \in Seq(Nat) /\ Append(F, i) \in Seq(Nat)  BY <2>3, <1>1
    <2>7. intact' = intact  BY <1>4 DEF WsFragment, WsDeliver, WsClose
    <2>8. CASE WsFragment
      <3>1. k # "cont" => k \in Data  BY <2>4, <2>5, <2>8 DEF WsFragment, WsRefused
      <3>2. frag'.k \in Data
        <4>1. CASE k = "cont"
          <5>1. frag' = [frag EXCEPT !.parts = Append(@, ItemAt(raw[1]))]  BY <4>1, <2>4, <2>8 DEF WsFragment
          <5>2. frag'.k = frag.k  BY <5>1, <1>1
          <5>3. QED  BY <5>2, <1>1
        <4>2. CASE k # "cont"
          <5>1. frag' = [parts |-> <<ItemAt(raw[1])>>, k |-> k]  BY <4>2, <2>4, <2>8 DEF WsFragment
          <5>2. QED  BY <5>1, <4>2, <3>1
        <4>3. QED  BY <4>1, <4>2
      <3>3. delivered' = delivered  BY <2>8 DEF WsFragment
      <3>4. QED  BY <3>2, <3>3, <2>7, <1>1 DEF KindsFit
    <2>9. CASE WsDeliver
      <3>1. delivered' = IF k = "cont" THEN With(delivered, frag.k, Append(F, i)) ELSE With(delivered, k, <<i>>)
        BY <2>4, <2>9 DEF WsDeliver, With, i
      <3>2. frag'.k = frag.k
        <4>1. frag' = [frag EXCEPT !.parts = <<>>] \/ frag' = frag  BY <2>9 DEF WsDeliver
        <4>2. QED  BY <4>1, <1>1
      <3>3. KindsFit(delivered', frag.k)
        <4>1. k # "cont" => KindsFit(With(delivered, k, <<i>>), frag.k)  BY <2>5, <2>6, <1>2
        <4>2. KindsFit(With(delivered, frag.k, Append(F, i)), frag.k)  BY <2>6, <1>1, <1>2
        <4>3. QED  BY <4>1, <4>2, <3>1
      <3>4. QED  BY <3>2, <3>3, <2>7, <1>1
    <2>10. CASE WsClose
      <3>1. delivered' = With(delivered, "close", <<i>>) /\ frag' = frag  BY <2>10 DEF WsClose, With, i
      <3>2. "close" \in Control  BY DEF Control
      <3>3. KindsFit(With(delivered, "close", <<i>>), frag.k)  BY <3>2, <2>6, <1>2
      <3>4. QED  BY <3>1, <3>3, <2>7, <1>1
    <2>11. QED  BY <1>4, <2>8, <2>9, <2>10
  <1>5. QED  BY <1>3, <1>4

\* Before anything has arrived.
LEMMA TypeInvInit == Init => TypeInv
  <1> SUFFICES ASSUME Init PROVE TypeInv
    OBVIOUS
  <1>1. /\ LateInv /\ arrived = 0 /\ pc = "idle" /\ raw = <<>> /\ off = -1 /\ leftover = <<>> /\ wsLeft = <<>>
        /\ delivered = <<>> /\ frag = [parts |-> <<>>, k |-> "text"] /\ intact = {} /\ trouble = FALSE
    BY LateInvInit DEF Init, WsInit
  <1>2. Sized(0, "idle", <<>>, -1, <<>>, <<>>)
    <2>1. <<>> \in Seq(0..0) /\ Len(<<>>) <= 0  OBVIOUS
    <2>2. QED  BY <2>1 DEF Sized
  <1>3. KindsFit(<<>>, "text")  BY DEF KindsFit, Data
  <1>4. frag.k = "text"  BY <1>1
  <1>5. QED  BY <1>1, <1>2, <1>3, <1>4 DEF TypeInv

\* Every step keeps the types.
LEMMA TypeInvStep == TypeInv /\ [Next]_vars => TypeInv'
  <1> SUFFICES ASSUME TypeInv, [Next]_vars PROVE TypeInv'
    OBVIOUS
  <1>1. CASE UNCHANGED vars
    <2>1. LateInv'  BY LateInvStep DEF TypeInv
    <2>2. QED  BY <2>1, <1>1 DEF TypeInv, vars
  <1>2. CASE Next
    <2>1. LateInv' /\ StreamInv' /\ StreamInv
      <3>1. LateInv'  BY LateInvStep DEF TypeInv
      <3>2. QED  BY <3>1 DEF LateInv, OrderInv, TypeInv
    <2>2. Sized(arrived, pc, raw, off, leftover, wsLeft)'  BY <1>2, <2>1, SizedStep
    <2>3. stream' = stream
      BY <1>2 DEF Next, Arrive, HttpEnter, HttpIncomplete, HttpReject, HttpDeliver, HandOn, RequestGet, WsEnter,
         WsIncomplete, WsRefuse, WsFragment, WsDeliver, WsClose
    <2>4. trouble' \in BOOLEAN
      <3>1. ASSUME NEW b \in BOOLEAN, HttpIncomplete(b)  PROVE trouble' \in BOOLEAN
        BY <3>1 DEF HttpIncomplete
      <3>2. ASSUME NEW lost, Returns(lost)  PROVE trouble' \in BOOLEAN
        BY <3>2 DEF Returns
      <3>3. ASSUME trouble' = trouble  PROVE trouble' \in BOOLEAN
        BY <3>3 DEF TypeInv
      <3>4. QED
        BY <1>2, <3>1, <3>2, <3>3 DEF Next, Arrive, HttpEnter, HttpReject, HttpDeliver, HandOn, RequestGet, WsEnter,
           WsIncomplete, WsRefuse, WsFragment, WsDeliver, WsClose
    <2>5. KindsFit(delivered, frag.k)' /\ intact' \subseteq DOMAIN stream
      <3>1. ASSUME delivered' = delivered, frag' = frag, intact' = intact \/ intact' = {}
            PROVE  KindsFit(delivered, frag.k)' /\ intact' \subseteq DOMAIN stream
        BY <3>1 DEF TypeInv
      <3>2. QED
        BY <1>2, <3>1, KindsStep DEF Next, Arrive, HttpEnter, HttpIncomplete, HttpReject, RequestGet, WsEnter,
           WsIncomplete, WsRefuse
    <2>6. QED  BY <2>1, <2>2, <2>3, <2>4, <2>5 DEF TypeInv
  <1>3. QED  BY <1>1, <1>2

\* A sequence whose elements are all in S.
LEMMA SeqWithin ==
  ASSUME NEW A, NEW S, NEW s \in Seq(A), \A j \in DOMAIN s : s[j] \in S
  PROVE  s \in Seq(S)
  <1>1. Len(s) \in Nat /\ DOMAIN s = 1..Len(s) /\ s = [j \in 1..Len(s) |-> s[j]]  OBVIOUS
  <1>2. s \in [1..Len(s) -> S]  BY <1>1
  <1>3. QED  BY <1>1, <1>2

\* The items of a stream, in a sequence of numbers.
LEMMA PartsWithin ==
  ASSUME NEW s \in Seq(Nat), NEW S, Range(s) \subseteq S
  PROVE  s \in Seq(S)
  <1>1. \A j \in DOMAIN s : s[j] \in S  BY DEF Range
  <1>2. QED  BY <1>1, SeqWithin

\* The types follow.
LEMMA TypesHold == TypeInv /\ SpoiledInv => TypeOK
  <1> SUFFICES ASSUME TypeInv, SpoiledInv PROVE TypeOK
    OBVIOUS
  <1>1. /\ stream \in Streams /\ arrived \in Nat /\ arrived <= Total(stream)
        /\ frag \in [parts : Seq(Nat), k : Kinds] /\ delivered \in Seq([k : Kinds, parts : Seq(Nat)])
        /\ \A c \in Taken(delivered, frag.parts) : c \in DOMAIN stream
        /\ parsed \in [DOMAIN stream -> SUBSET Parts] /\ seen \subseteq (DOMAIN stream) \X Parts \X BOOLEAN
    BY DEF TypeInv, LateInv, OrderInv, StreamInv, Where, Passed, Ordered, OwnAnswers
  <1>2. arrived \in 0..Length /\ Length \in Nat /\ arrived <= Length  BY <1>1, Words, Ends
  <1>3. pc \in {"idle", "http", "parse", "ws", "frame", "end"}  BY DEF TypeInv, Sized
  <1>4. {raw, leftover, wsLeft} \subseteq Seq(0..Length)
    <2>1. raw \in Seq(0..arrived) /\ leftover \in Seq(0..arrived) /\ wsLeft \in Seq(0..arrived)  BY DEF TypeInv, Sized
    <2>2. QED  BY <2>1, <1>1, <1>2, PieceGrows
  <1>5. off \in -1..Length
    <2>1. off = -1 \/ (off \in Nat /\ off + Len(raw) <= arrived)  BY DEF TypeInv, Sized
    <2>2. raw \in Seq(0..arrived)  BY DEF TypeInv, Sized
    <2>3. Len(raw) \in Nat  BY <2>2
    <2>4. QED  BY <2>1, <2>3, <1>1, <1>2
  <1>6. frag \in [parts : Seq(DOMAIN stream), k : Data]
    <2>1. frag.parts \in Seq(Nat) /\ frag.k \in Data  BY <1>1 DEF TypeInv, KindsFit
    <2>2. Range(frag.parts) \subseteq DOMAIN stream  BY <1>1, TakenIs
    <2>3. frag.parts \in Seq(DOMAIN stream)  BY <2>1, <2>2, PartsWithin
    <2>4. QED  BY <2>1, <2>3, <1>1
  <1>7. delivered \in Seq([k : Http \cup Data \cup Control, parts : Seq(DOMAIN stream)])
    <2> DEFINE K == Http \cup Data \cup Control
               A == [k : Kinds, parts : Seq(Nat)]
    <2>1. ASSUME NEW d \in DOMAIN delivered
          PROVE  delivered[d] \in [k : K, parts : Seq(DOMAIN stream)]
      <3>1. delivered[d].parts \in Seq(Nat)  BY <1>1, MessageFields
      <3>2. Range(delivered[d].parts) \subseteq DOMAIN stream  BY <1>1, TakenIs
      <3>3. delivered[d].parts \in Seq(DOMAIN stream)  BY <3>1, <3>2, PartsWithin
      <3>4. delivered[d].k \in K  BY DEF TypeInv, KindsFit
      <3>5. delivered[d] \in A
        <4>1. delivered \in Seq(A)  BY <1>1
        <4> HIDE DEF A
        <4>2. QED  BY <4>1
      <3> HIDE DEF K
      <3>6. QED  BY <3>3, <3>4, <3>5
    <2>2. delivered \in Seq(A)  BY <1>1
    <2> DEFINE B == [k : K, parts : Seq(DOMAIN stream)]
    <2>3. \A d \in DOMAIN delivered : delivered[d] \in B  BY <2>1
    <2> HIDE DEF A, B
    <2>4. delivered \in Seq(B)  BY <2>2, <2>3, SeqWithin
    <2>5. QED  BY <2>4 DEF B
  <1>8. intact \subseteq DOMAIN stream /\ trouble \in BOOLEAN  BY DEF TypeInv
  <1>9. kept \in Seq(DOMAIN stream) /\ spoiled \subseteq DOMAIN stream  BY DEF SpoiledInv, Passed
  <1>10. QED  BY <1>1, <1>2, <1>3, <1>4, <1>5, <1>6, <1>7, <1>8, <1>9 DEF TypeOK

\* The codecs only ever look at bytes that have arrived, and every message
\* names items of the stream and the kind of a frame that opened it: types
\* are kept for every stream, cut in any way.
THEOREM TypeCorrect == Spec => []TypeOK
  <1>1. QED  BY TypesHold, TypeInvInit, TypeInvStep, SpoiledInvInit, SpoiledInvStep, PTL DEF Spec

---------------------------------------------------------------------------
(* Nothing is missing *)

\* p is where item n starts, or the stream has ended with the item before.
NextAt(st, p, n) ==
  /\ n \in 1..Len(st) + 1
  /\ p = IF n = Len(st) + 1 THEN Total(st) + 1 ELSE First(st, n)

\* The items before n were dealt with: the messages are D, and f waits; the
\* items X came behind headers of others.
DealtWith(st, n, X, D, f) ==
  /\ \A i \in 1..n - 1 : st[i].k # "bad"
  /\ \A i \in 1..n - 1 : Completes(st, i) => i \in X \/ \E d \in DOMAIN D : MessageAt(st, i, D[d])
  /\ \A d \in DOMAIN D : \E i \in 1..n - 1 : Completes(st, i) /\ MessageAt(st, i, D[d])
  /\ Range(f.parts) = Waiting(st, n) /\ OpenedAs(st, n, f.k)

\* The first byte that was not dealt with.
NextByte(c, a, r, l, w) ==
  IF c \in {"parse", "frame"} THEN r[1]
  ELSE IF l # <<>> THEN l[1] ELSE IF w # <<>> THEN w[1] ELSE IF c = "idle" THEN a + 1 ELSE r[1]

\* Everything before item n was dealt with, and between two segments item n
\* is not there to its end or malformed.
UpToItem(st, n, X, a, c, r, l, w, D, f) ==
  /\ NextAt(st, NextByte(c, a, r, l, w), n) /\ DealtWith(st, n, X, D, f)
  /\ c \in {"idle", "http", "ws"} => l = <<>> \/ w = <<>>
  /\ c = "idle" /\ n \in DOMAIN st => Final(st, n) > a \/ st[n].k = "bad"
  /\ c \in {"http", "ws"} /\ n \in DOMAIN st => Final(st, n) > a - Len(r) \/ st[n].k = "bad"

\* The piece of a frame is taken for HTTP.
Mistaken(st, c, r, w) ==
  c = "parse" /\ w # <<>> /\ \E i \in DOMAIN st : First(st, i) < r[1] /\ r[1] <= Final(st, i) /\ st[i].k \notin Http

CompleteInv ==
  /\ OrderInv /\ trouble \in BOOLEAN
  /\ trouble \/ Mistaken(stream, pc, raw, wsLeft)
     \/ (pc # "end" /\ \E n \in 1..Len(stream) + 1 : UpToItem(stream, n, spoiled, arrived, pc, raw, leftover, wsLeft, delivered, frag))

\* Whoever waits and what opened last, one item on.
LEMMA WaitingNext ==
  ASSUME NEW st, NEW n \in Nat \ {0}
  PROVE  /\ Opens(st[n]) => Waiting(st, n + 1) = {n} /\ OpenedAs(st, n + 1, st[n].k)
         /\ Continues(st[n]) => Waiting(st, n + 1) = Waiting(st, n) \cup {n}
         /\ Concludes(st[n]) => Waiting(st, n + 1) = {}
         /\ ~Opens(st[n]) /\ ~Continues(st[n]) /\ ~Concludes(st[n]) => Waiting(st, n + 1) = Waiting(st, n)
         /\ ~Opens(st[n]) => \A k : OpenedAs(st, n, k) => OpenedAs(st, n + 1, k)
  <1> DEFINE Stays(m) == ~Opens(st[m]) /\ ~Concludes(st[m])
             Piece(m) == Opens(st[m]) \/ Continues(st[m])
  <1>1. /\ n + 1 - 1 = n /\ n \in 1..n /\ n \notin 1..n - 1
        /\ \A m : m \in 1..n <=> m \in 1..n - 1 \/ m = n
        /\ \A j \in 1..n - 1 : n \in j + 1..n /\ \A m : m \in j + 1..n <=> m \in j + 1..n - 1 \/ m = n
        /\ \A m : m \notin n + 1..n
    OBVIOUS
  <1>2. \A j : j \in Waiting(st, n) <=> j \in 1..n - 1 /\ Piece(j) /\ \A m \in j + 1..n - 1 : Stays(m)
    BY DEF Waiting
  <1>3. \A j : j \in Waiting(st, n + 1) <=> j \in 1..n /\ Piece(j) /\ \A m \in j + 1..n : Stays(m)
    BY <1>1 DEF Waiting
  <1>4. Opens(st[n]) => ~Concludes(st[n])  BY DEF Opens, Concludes
  <1>5. Continues(st[n]) => ~Concludes(st[n]) /\ ~Opens(st[n])  BY DEF Opens, Concludes, Continues, Data
  <1>6. Concludes(st[n]) => ~Continues(st[n]) /\ ~Opens(st[n])  BY DEF Opens, Concludes, Continues, Data
  <1>7. n \in Waiting(st, n + 1) <=> Piece(n)  BY <1>1, <1>3
  <1>8. \A j \in 1..n - 1 : j \in Waiting(st, n + 1) <=> j \in Waiting(st, n) /\ Stays(n)
    <2> SUFFICES ASSUME NEW j \in 1..n - 1 PROVE j \in Waiting(st, n + 1) <=> j \in Waiting(st, n) /\ Stays(n)
      OBVIOUS
    <2>1. (\A m \in j + 1..n : Stays(m)) <=> (\A m \in j + 1..n - 1 : Stays(m)) /\ Stays(n)
      <3> HIDE DEF Stays
      <3> QED  BY <1>1
    <2> HIDE DEF Stays, Piece
    <2>2. QED  BY <2>1, <1>1, <1>2, <1>3
  <1>9. (\A j \in Waiting(st, n) : j \in 1..n - 1) /\ (\A j \in Waiting(st, n + 1) : j \in 1..n - 1 \/ j = n)
    BY <1>1, <1>2, <1>3
  <1>10. Opens(st[n]) => OpenedAs(st, n + 1, st[n].k)
    BY <1>1 DEF OpenedAs
  <1>11. ASSUME ~Opens(st[n]), NEW k, OpenedAs(st, n, k)  PROVE OpenedAs(st, n + 1, k)
    <2>1. CASE \E j \in 1..n - 1 : Opens(st[j]) /\ st[j].k = k /\ \A m \in j + 1..n - 1 : ~Opens(st[m])
      <3>1. PICK j \in 1..n - 1 : Opens(st[j]) /\ st[j].k = k /\ \A m \in j + 1..n - 1 : ~Opens(st[m])  BY <2>1
      <3>2. j \in 1..n /\ \A m \in j + 1..n : ~Opens(st[m])  BY <3>1, <1>1, <1>11
      <3>3. QED  BY <3>1, <3>2, <1>1 DEF OpenedAs
    <2>2. CASE k = "text" /\ \A j \in 1..n - 1 : ~Opens(st[j])
      <3>1. \A j \in 1..n : ~Opens(st[j])  BY <2>2, <1>1, <1>11
      <3>2. QED  BY <3>1, <2>2, <1>1 DEF OpenedAs
    <2>3. QED  BY <2>1, <2>2, <1>11 DEF OpenedAs
  <1>12. Opens(st[n]) => Waiting(st, n + 1) = {n}  BY <1>7, <1>8, <1>9
  <1>13. Continues(st[n]) => Waiting(st, n + 1) = Waiting(st, n) \cup {n}  BY <1>5, <1>7, <1>8, <1>9
  <1>14. Concludes(st[n]) => Waiting(st, n + 1) = {}  BY <1>6, <1>7, <1>8, <1>9
  <1>15. ~Opens(st[n]) /\ ~Continues(st[n]) /\ ~Concludes(st[n]) => Waiting(st, n + 1) = Waiting(st, n)
    BY <1>7, <1>8, <1>9
  <1>16. QED  BY <1>10, <1>11, <1>12, <1>13, <1>14, <1>15

\* The fragments F of kind k are the ones that wait when item n comes.
WaitFor(st, n, F, k) == Range(F) = Waiting(st, n) /\ OpenedAs(st, n, k)

\* The item hands nothing on and completes nothing, or is spoiled.
LEMMA DealtSame ==
  ASSUME NEW st, NEW n \in Nat \ {0}, NEW X, NEW Y, X \subseteq Y, NEW D, NEW f, NEW g, DealtWith(st, n, X, D, f),
         st[n].k # "bad", ~Completes(st, n) \/ n \in Y, WaitFor(st, n + 1, g.parts, g.k)
  PROVE  DealtWith(st, n + 1, Y, D, g)
  <1>1. n + 1 - 1 = n /\ \A m : m \in 1..n <=> m \in 1..n - 1 \/ m = n  OBVIOUS
  <1>2. \A i \in 1..n : st[i].k # "bad"  BY <1>1 DEF DealtWith
  <1>3. \A i \in 1..n : Completes(st, i) => i \in Y \/ \E d \in DOMAIN D : MessageAt(st, i, D[d])  BY <1>1 DEF DealtWith
  <1>4. \A d \in DOMAIN D : \E i \in 1..n : Completes(st, i) /\ MessageAt(st, i, D[d])  BY <1>1 DEF DealtWith
  <1>5. QED  BY <1>1, <1>2, <1>3, <1>4 DEF DealtWith, WaitFor

\* The item completes a message, and that is handed on.
LEMMA DealtMore ==
  ASSUME NEW st, NEW n \in Nat \ {0}, NEW X, NEW Y, X \subseteq Y, NEW D \in Seq([k : Kinds, parts : Seq(Nat)]),
         NEW f, NEW g, DealtWith(st, n, X, D, f), NEW k \in Kinds, NEW P \in Seq(Nat),
         st[n].k # "bad", Completes(st, n), MessageAt(st, n, [k |-> k, parts |-> P]), WaitFor(st, n + 1, g.parts, g.k)
  PROVE  DealtWith(st, n + 1, Y, With(D, k, P), g)
  <1> DEFINE x == [k |-> k, parts |-> P]
             E == Append(D, x)
             S == [k : Kinds, parts : Seq(Nat)]
  <1>1. n + 1 - 1 = n /\ \A m : m \in 1..n <=> m \in 1..n - 1 \/ m = n  OBVIOUS
  <1>2. x \in S /\ D \in Seq(S) /\ MessageAt(st, n, x)  OBVIOUS
  <1> HIDE DEF x, S
  <1>3. /\ Len(D) \in Nat /\ DOMAIN D = 1..Len(D) /\ DOMAIN E = 1..Len(D) + 1
        /\ (\A d \in DOMAIN D : E[d] = D[d]) /\ E[Len(D) + 1] = x
    BY <1>2
  <1> HIDE DEF E
  <1>4. /\ \A d \in DOMAIN E : d \in DOMAIN D \/ d = Len(D) + 1
        /\ (\A d \in DOMAIN D : d \in DOMAIN E) /\ Len(D) + 1 \in DOMAIN E
    BY <1>3
  <1>5. \A i \in 1..n : st[i].k # "bad"  BY <1>1 DEF DealtWith
  <1>6. ASSUME NEW i \in 1..n, Completes(st, i), i \notin Y  PROVE \E d \in DOMAIN E : MessageAt(st, i, E[d])
    <2>1. CASE i \in 1..n - 1
      <3>1. PICK d \in DOMAIN D : MessageAt(st, i, D[d])  BY <2>1, <1>6 DEF DealtWith
      <3>2. d \in DOMAIN E /\ E[d] = D[d]  BY <1>3, <1>4
      <3>3. QED  BY <3>1, <3>2
    <2>2. CASE i = n
      <3>1. MessageAt(st, i, E[Len(D) + 1])  BY <2>2, <1>2, <1>3
      <3>2. QED  BY <3>1, <1>4
    <2>3. QED  BY <2>1, <2>2, <1>1
  <1>7. ASSUME NEW d \in DOMAIN E  PROVE \E i \in 1..n : Completes(st, i) /\ MessageAt(st, i, E[d])
    <2>1. CASE d \in DOMAIN D
      <3>1. PICK i \in 1..n - 1 : Completes(st, i) /\ MessageAt(st, i, D[d])  BY <2>1 DEF DealtWith
      <3>2. i \in 1..n /\ E[d] = D[d]  BY <2>1, <1>1, <1>3
      <3>3. QED  BY <3>1, <3>2
    <2>2. CASE d = Len(D) + 1
      <3>1. n \in 1..n /\ MessageAt(st, n, E[d])  BY <2>2, <1>1, <1>2, <1>3
      <3>2. QED  BY <3>1
    <2>3. QED  BY <2>1, <2>2, <1>4
  <1>8. DealtWith(st, n + 1, Y, E, g)  BY <1>1, <1>5, <1>6, <1>7 DEF DealtWith, WaitFor
  <1>9. QED  BY <1>8 DEF E, x, With

\* Behind an item comes the next.
LEMMA NextItem ==
  ASSUME NEW st \in Streams, NEW n \in DOMAIN st
  PROVE  /\ n \in Nat \ {0} /\ n + 1 \in 1..Len(st) + 1 /\ NextAt(st, Final(st, n) + 1, n + 1)
         /\ n + 1 \in DOMAIN st => Final(st, n + 1) > Final(st, n)
  <1>1. /\ Len(st) \in Nat /\ DOMAIN st = 1..Len(st) /\ st \in Seq(Item)
        /\ \A i \in DOMAIN st : First(st, i) \in Nat /\ Final(st, i) \in Nat /\ First(st, i) <= Final(st, i)
        /\ \A i \in DOMAIN st : i > 1 => First(st, i) = Final(st, i - 1) + 1
    BY Layout
  <1>2. CASE n = Len(st)
    <2>1. Total(st) = Final(st, n)  BY <1>1, <1>2 DEF Total
    <2>2. QED  BY <2>1, <1>1, <1>2 DEF NextAt
  <1>3. CASE n < Len(st)
    <2>1. n + 1 \in DOMAIN st /\ n + 1 > 1 /\ n + 1 - 1 = n  BY <1>1, <1>3
    <2>2. First(st, n + 1) = Final(st, n) + 1  BY <2>1, <1>1
    <2>3. QED  BY <2>1, <2>2, <1>1, <1>3 DEF NextAt
  <1>4. QED  BY <1>1, <1>2, <1>3

\* The item that starts at the next byte.
LEMMA NextIs ==
  ASSUME NEW st \in Streams, NEW p, NEW n, NextAt(st, p, n), NEW a \in Nat, p <= a, a <= Total(st)
  PROVE  n \in DOMAIN st /\ First(st, n) = p
  <1>1. Len(st) \in Nat /\ DOMAIN st = 1..Len(st)  BY Layout
  <1>2. Total(st) \in Nat  BY Ends
  <1>3. n # Len(st) + 1  BY <1>1, <1>2 DEF NextAt
  <1>4. QED  BY <1>1, <1>3 DEF NextAt

\* What holds when nothing went wrong so far, and a loop finds an item whole:
\* all items before it were dealt with.
LEMMA DealtSoFar ==
  ASSUME CompleteInv, ~trouble, pc \in {"parse", "frame"}, WholeItem(raw)
  PROVE  /\ InFront(stream, ItemAt(raw[1]), arrived, raw, Rest(raw, stream[ItemAt(raw[1])].size))
         /\ wsLeft = <<>> /\ stream \in Streams /\ arrived \in Nat /\ arrived <= Total(stream)
         /\ DealtWith(stream, ItemAt(raw[1]), spoiled, delivered, frag)
  <1> DEFINE i == ItemAt(raw[1])
  <1>1. StreamInv  BY DEF CompleteInv, OrderInv
  <1>2. InFront(stream, i, arrived, raw, Rest(raw, stream[i].size)) /\ wsLeft = <<>>  BY <1>1, WholeInFront
  <1>3. stream \in Streams /\ arrived \in Nat /\ arrived <= Total(stream) /\ raw \in Seq(Nat) /\ raw # <<>>
    BY <1>1 DEF StreamInv, Where
  <1>4. PICK n \in 1..Len(stream) + 1 : UpToItem(stream, n, spoiled, arrived, pc, raw, leftover, wsLeft, delivered, frag)
    BY <1>2 DEF CompleteInv, Mistaken
  <1>5. NextAt(stream, raw[1], n) /\ DealtWith(stream, n, spoiled, delivered, frag)  BY <1>4 DEF UpToItem, NextByte
  <1>6. UpTo(raw, arrived)  BY <1>2 DEF InFront
  <1>7. raw[1] <= arrived  BY <1>3, <1>6, FirstByte
  <1>8. n \in DOMAIN stream /\ First(stream, n) = raw[1]  BY <1>3, <1>5, <1>7, NextIs
  <1>9. i = n  BY <1>3, <1>8, ItemAtStart
  <1>10. QED  BY <1>2, <1>3, <1>5, <1>9

\* The loop goes on behind the item, or returns with nothing left.
LEMMA GoesOn ==
  ASSUME CompleteInv, OrderInv', ~trouble, pc \in {"parse", "frame"}, WholeItem(raw),
         stream' = stream, arrived' = arrived, leftover' = <<>>, wsLeft' = <<>>, trouble' \in BOOLEAN,
         raw' = Rest(raw, stream[ItemAt(raw[1])].size), pc' = IF raw' = <<>> THEN "idle" ELSE pc,
         NEW X, spoiled' = X, NEW D, NEW f, delivered' = D, frag' = f, DealtWith(stream, ItemAt(raw[1]) + 1, X, D, f)
  PROVE  CompleteInv'
  <1> DEFINE i == ItemAt(raw[1])
             t == Rest(raw, stream[i].size)
             c == IF t = <<>> THEN "idle" ELSE pc
             p == NextByte(c, arrived, t, <<>>, <<>>)
  <1>1. InFront(stream, i, arrived, raw, t) /\ stream \in Streams /\ arrived \in Nat  BY DealtSoFar
  <1> HIDE DEF i, t
  <1>2. i \in DOMAIN stream /\ (t # <<>> => t[1] = Final(stream, i) + 1) /\ (t = <<>> => arrived = Final(stream, i))
    BY <1>1 DEF InFront
  <1>3. p = Final(stream, i) + 1  BY <1>2 DEF NextByte
  <1>4. /\ i \in Nat \ {0} /\ i + 1 \in 1..Len(stream) + 1 /\ NextAt(stream, Final(stream, i) + 1, i + 1)
        /\ i + 1 \in DOMAIN stream => Final(stream, i + 1) > Final(stream, i)
    BY <1>1, <1>2, NextItem
  <1>5. DealtWith(stream, i + 1, X, D, f)  BY DEF i
  <1>6. UpToItem(stream, i + 1, X, arrived, c, t, <<>>, <<>>, D, f)
    <2>1. NextAt(stream, p, i + 1)  BY <1>3, <1>4
    <2>2. c = "idle" => t = <<>>  OBVIOUS
    <2>3. c \notin {"http", "ws"}  OBVIOUS
    <2>4. c = "idle" /\ i + 1 \in DOMAIN stream => Final(stream, i + 1) > arrived  BY <2>2, <1>2, <1>4
    <2> HIDE DEF c
    <2>5. QED  BY <2>1, <2>3, <2>4, <1>5 DEF UpToItem
  <1>7. raw' = t /\ pc' = c  BY DEF i, t
  <1>8. pc' # "end"  BY <1>7
  <1> HIDE DEF c
  <1>9. QED  BY <1>4, <1>6, <1>7, <1>8 DEF CompleteInv

\* channelRead() returns: with bytes lost that is noted, else as above.
LEMMA ReturnsComplete ==
  ASSUME CompleteInv, OrderInv', ~trouble, pc \in {"parse", "frame"}, WholeItem(raw),
         stream' = stream, arrived' = arrived, leftover' = <<>>, wsLeft' = <<>>,
         Returns(Rest(raw, stream[ItemAt(raw[1])].size)),
         NEW X, spoiled' = X, NEW D, NEW f, delivered' = D, frag' = f, DealtWith(stream, ItemAt(raw[1]) + 1, X, D, f)
  PROVE  CompleteInv'
  <1> DEFINE t == Rest(raw, stream[ItemAt(raw[1])].size)
  <1>1. raw' = <<>> /\ trouble' = (trouble \/ t # <<>>) /\ (t = <<>> => pc' = "idle")  BY DEF Returns
  <1>2. trouble' \in BOOLEAN  BY <1>1
  <1>3. CASE t # <<>>
    <2>1. trouble'  BY <1>1, <1>3
    <2>2. QED  BY <2>1, <1>2 DEF CompleteInv
  <1>4. CASE t = <<>>
    <2>1. raw' = t /\ pc' = IF raw' = <<>> THEN "idle" ELSE pc  BY <1>1, <1>4
    <2>2. QED  BY <2>1, <1>2, GoesOn
  <1>5. QED  BY <1>3, <1>4

\* What was noted stays noted.
LEMMA TroubleStays ==
  ASSUME CompleteInv, OrderInv', [Next]_vars
  PROVE  trouble' \in BOOLEAN /\ (trouble => trouble')
  <1>1. trouble \in BOOLEAN  BY DEF CompleteInv
  <1>2. ASSUME NEW lost, Returns(lost)  PROVE trouble' \in BOOLEAN /\ (trouble => trouble')
    BY <1>2 DEF Returns
  <1>3. ASSUME NEW b \in BOOLEAN, HttpIncomplete(b)  PROVE trouble' \in BOOLEAN /\ (trouble => trouble')
    BY <1>3 DEF HttpIncomplete
  <1>4. ASSUME trouble' = trouble  PROVE trouble' \in BOOLEAN /\ (trouble => trouble')
    BY <1>1, <1>4
  <1>5. CASE HttpReject \/ WsIncomplete \/ WsRefuse \/ WsClose
    BY <1>2, <1>5 DEF HttpReject, WsIncomplete, WsRefuse, WsClose
  <1>6. CASE \E n \in 1..MaxSegment : Arrive(n)
    BY <1>4, <1>6 DEF Arrive
  <1>7. CASE \E b \in BOOLEAN : HttpEnter(b)
    BY <1>4, <1>7 DEF HttpEnter
  <1>8. CASE HttpDeliver \/ WsEnter \/ WsFragment \/ WsDeliver
    BY <1>4, <1>8 DEF HttpDeliver, HandOn, WsEnter, WsFragment, WsDeliver
  <1>9. CASE \E i \in DOMAIN stream, what \in Parts : RequestGet(i, what)
    BY <1>4, <1>9 DEF RequestGet
  <1>10. CASE UNCHANGED vars
    BY <1>4, <1>10 DEF vars
  <1>11. QED
    BY <1>3, <1>5, <1>6, <1>7, <1>8, <1>9, <1>10, Zenon DEF Next

\* A segment arrives.
LEMMA CompleteArrive ==
  ASSUME CompleteInv, OrderInv', ~trouble, NEW n \in 1..MaxSegment, Arrive(n)
  PROVE  CompleteInv'
  <1> DEFINE s == Bytes(arrived + 1, arrived + n)
             b == arrived + n
  <1>1. stream \in Streams /\ arrived \in Nat  BY DEF CompleteInv, OrderInv, StreamInv, Where
  <1>2. n \in Nat \ {0}  BY StreamsAssumption
  <1>3. s \in Seq(Nat) /\ Len(s) = n /\ s # <<>> /\ UpTo(s, b) /\ b \in Nat  BY <1>1, <1>2, SegmentUpTo
  <1>4. /\ raw' = s /\ arrived' = b /\ stream' = stream /\ frag' = frag /\ delivered' = delivered /\ spoiled' = spoiled
        /\ leftover' = leftover /\ wsLeft' = wsLeft /\ pc = "idle" /\ pc' = "http" /\ trouble' = trouble
    BY DEF Arrive
  <1>5. b - Len(s) = arrived  BY <1>1, <1>2, <1>3
  <1> HIDE DEF s, b
  <1>6. s[1] = arrived + 1
    <2>1. s[1] = b - Len(s) + 1  BY <1>3, FirstByte
    <2>2. QED  BY <2>1, <1>5
  <1>7. PICK m \in 1..Len(stream) + 1 : UpToItem(stream, m, spoiled, arrived, pc, raw, leftover, wsLeft, delivered, frag)
    BY <1>4 DEF CompleteInv, Mistaken
  <1>8. NextByte("http", b, s, leftover, wsLeft) = NextByte("idle", arrived, raw, leftover, wsLeft)
    BY <1>6 DEF NextByte
  <1>9. UpToItem(stream, m, spoiled, b, "http", s, leftover, wsLeft, delivered, frag)
    BY <1>4, <1>5, <1>7, <1>8 DEF UpToItem
  <1>10. pc' # "end" /\ trouble' \in BOOLEAN  BY <1>4 DEF CompleteInv
  <1>11. QED  BY <1>4, <1>9, <1>10 DEF CompleteInv

\* HttpServerCodec takes the segment or passes it on; it mistakes a piece of a
\* frame for HTTP when WebSocketCodec keeps the beginning.
LEMMA CompleteHttpEnter ==
  ASSUME CompleteInv, OrderInv', ~trouble, NEW any, HttpEnter(any)
  PROVE  CompleteInv'
  <1>1. /\ stream \in Streams /\ arrived \in Nat /\ arrived <= Total(stream)
        /\ raw \in Seq(Nat) /\ leftover \in Seq(Nat) /\ wsLeft \in Seq(Nat)
        /\ raw # <<>> /\ UpTo(raw, arrived) /\ Between(stream, arrived - Len(raw), leftover, wsLeft)
        /\ pc = "http"
    BY DEF CompleteInv, OrderInv, StreamInv, Where, HttpEnter
  <1>2. raw[1] = arrived - Len(raw) + 1 /\ Len(raw) >= 1 /\ Len(raw) \in Nat  BY <1>1, FirstByte
  <1>3. /\ stream' = stream /\ arrived' = arrived /\ wsLeft' = wsLeft /\ frag' = frag /\ delivered' = delivered /\ spoiled' = spoiled
        /\ trouble' = trouble /\ trouble' \in BOOLEAN
    BY DEF HttpEnter, CompleteInv
  <1>4. PICK n \in 1..Len(stream) + 1 : UpToItem(stream, n, spoiled, arrived, pc, raw, leftover, wsLeft, delivered, frag)
    BY <1>1 DEF CompleteInv, Mistaken
  <1>5. /\ NextAt(stream, NextByte("http", arrived, raw, leftover, wsLeft), n) /\ DealtWith(stream, n, spoiled, delivered, frag)
        /\ leftover = <<>> \/ wsLeft = <<>>
        /\ n \in DOMAIN stream => Final(stream, n) > arrived - Len(raw) \/ stream[n].k = "bad"
    BY <1>1, <1>4 DEF UpToItem
  <1>6. CASE pc' = "ws"
    <2>1. leftover = <<>> /\ raw' = raw /\ leftover' = leftover  BY <1>6 DEF HttpEnter
    <2>2. NextByte("ws", arrived, raw, leftover, wsLeft) = NextByte("http", arrived, raw, leftover, wsLeft)
      BY DEF NextByte
    <2>3. UpToItem(stream, n, spoiled, arrived, "ws", raw, leftover, wsLeft, delivered, frag)
      BY <2>1, <2>2, <1>5 DEF UpToItem
    <2>4. QED  BY <2>1, <2>3, <1>3, <1>6 DEF CompleteInv
  <1>7. CASE pc' = "parse" /\ leftover = <<>> /\ wsLeft # <<>>
    <2>1. raw' = raw
      <3>1. raw' = leftover \o raw  BY <1>7 DEF HttpEnter
      <3>2. QED  BY <3>1, <1>1, <1>7, ConcatEmptySeq
    <2>2. UpTo(wsLeft, arrived - Len(raw)) /\ FrameAt(stream, wsLeft[1])  BY <1>1, <1>7 DEF Between
    <2>3. NextAt(stream, wsLeft[1], n)  BY <1>5, <1>7 DEF NextByte
    <2>4. wsLeft[1] <= arrived - Len(raw) /\ arrived - Len(raw) \in Nat /\ wsLeft[1] \in Nat
      <3>1. arrived - Len(raw) \in Nat  BY <1>1, <1>2 DEF UpTo
      <3>2. QED  BY <3>1, <2>2, <1>1, <1>7, FirstByte
    <2>5. n \in DOMAIN stream /\ First(stream, n) = wsLeft[1]
      <3>1. wsLeft[1] <= arrived  BY <2>4, <1>1, <1>2
      <3>2. QED  BY <3>1, <2>3, <1>1, NextIs
    <2>6. stream[n].k \notin Http
      <3>1. PICK j \in DOMAIN stream : First(stream, j) = wsLeft[1] /\ stream[j].k \notin Http  BY <2>2 DEF FrameAt
      <3>2. ItemAt(wsLeft[1]) = j /\ ItemAt(wsLeft[1]) = n  BY <3>1, <2>5, <1>1, ItemAtStart
      <3>3. QED  BY <3>1, <3>2
    <2>7. Final(stream, n) > arrived - Len(raw) /\ Final(stream, n) \in Nat
      BY <2>5, <2>6, <1>1, <1>5, Layout DEF Http
    <2>8. First(stream, n) < raw[1] /\ raw[1] <= Final(stream, n)  BY <2>4, <2>5, <2>7, <1>1, <1>2
    <2>9. Mistaken(stream, "parse", raw, wsLeft)  BY <2>5, <2>6, <2>8, <1>7 DEF Mistaken
    <2>10. QED  BY <2>1, <2>9, <1>3, <1>7 DEF CompleteInv
  <1>8. CASE pc' = "parse" /\ wsLeft = <<>>
    <2> DEFINE t == leftover \o raw
    <2>1. raw' = t  BY <1>8 DEF HttpEnter
    <2>2. t[1] = NextByte("http", arrived, raw, leftover, wsLeft)
      <3>1. CASE leftover = <<>>
        <4>1. t = raw  BY <3>1, <1>1, ConcatEmptySeq
        <4>2. QED  BY <4>1, <3>1, <1>8 DEF NextByte
      <3>2. CASE leftover # <<>>
        <4>1. Len(leftover) \in Nat /\ Len(leftover) # 0  BY <3>2, <1>1, EmptySeq
        <4>2. \A j \in 1..Len(leftover) + Len(raw) : t[j] = IF j <= Len(leftover) THEN leftover[j] ELSE raw[j - Len(leftover)]
          BY <1>1, ConcatProperties
        <4>3. 1 \in 1..Len(leftover) + Len(raw) /\ 1 <= Len(leftover)  BY <4>1, <1>2
        <4>4. t[1] = leftover[1]  BY <4>2, <4>3
        <4>5. QED  BY <4>4, <3>2 DEF NextByte
      <3>3. QED  BY <3>1, <3>2
    <2> HIDE DEF t
    <2>3. NextByte("parse", arrived, t, leftover', wsLeft) = t[1]  BY DEF NextByte
    <2>4. UpToItem(stream, n, spoiled, arrived, "parse", t, leftover', wsLeft, delivered, frag)  BY <2>2, <2>3, <1>5 DEF UpToItem
    <2>5. QED  BY <2>1, <2>4, <1>3, <1>8 DEF CompleteInv
  <1>9. pc' = "ws" \/ pc' = "parse"  BY DEF HttpEnter
  <1>10. QED  BY <1>5, <1>6, <1>7, <1>8, <1>9

\* An item that a loop does not find whole has not arrived to its end.
LEMMA NotWhole ==
  ASSUME stream \in Streams, arrived \in Nat, raw \in Seq(Nat), raw # <<>>, UpTo(raw, arrived), ~WholeItem(raw),
         NEW n \in DOMAIN stream, First(stream, n) = raw[1]
  PROVE  Final(stream, n) > arrived
  <1>1. ~(Len(raw) >= stream[n].size)
    <2>1. SUFFICES ASSUME Len(raw) >= stream[n].size  PROVE FALSE
      OBVIOUS
    <2>2. SubSeq(raw, 1, stream[n].size) = Bytes(First(stream, n), Final(stream, n))
      BY <2>1, WholeByLength
    <2>3. Start(n) = raw[1] /\ SubSeq(raw, 1, stream[n].size) = Bytes(Start(n), End(n))
      BY <2>2, Words
    <2>4. QED  BY <2>1, <2>3, Zenon DEF WholeItem
  <1>2. raw[1] = arrived - Len(raw) + 1 /\ Len(raw) \in Nat  BY FirstByte
  <1>3. stream[n].size \in Nat /\ Final(stream, n) = First(stream, n) + stream[n].size - 1  BY Layout
  <1>4. QED  BY <1>1, <1>2, <1>3

\* ItemAt() of any position of an item.
LEMMA ItemAtInside ==
  ASSUME stream \in Streams, NEW i \in DOMAIN stream, NEW p \in Nat, First(stream, i) <= p, p <= Final(stream, i)
  PROVE  ItemAt(p) = i
  <1> DEFINE In(j) == p \in First(stream, j)..Final(stream, j)
  <1>l. /\ Len(stream) \in Nat /\ DOMAIN stream = 1..Len(stream)
        /\ \A n \in DOMAIN stream : First(stream, n) \in Nat /\ Final(stream, n) \in Nat
    BY Layout
  <1>1. In(i)  BY <1>l
  <1>2. ASSUME NEW j \in DOMAIN stream, In(j)  PROVE j = i
    <2>1. i < j => Final(stream, i) < First(stream, j)  BY InOrder
    <2>2. j < i => Final(stream, j) < First(stream, i)  BY InOrder
    <2>3. QED  BY <1>2, <2>1, <2>2, <1>l
  <1>3. ItemAt(p) = CHOOSE j \in DOMAIN stream : In(j)  BY DEF ItemAt, Start, End, First, Final
  <1> HIDE DEF In
  <1>4. QED  BY <1>1, <1>2, <1>3

\* An incomplete or malformed request is kept; a piece of a frame is noted.
LEMMA CompleteHttpIncomplete ==
  ASSUME CompleteInv, OrderInv', ~trouble, trouble' \in BOOLEAN, NEW garble \in BOOLEAN, HttpIncomplete(garble)
  PROVE  CompleteInv'
  <1>1. /\ stream \in Streams /\ arrived \in Nat /\ arrived <= Total(stream)
        /\ raw \in Seq(Nat) /\ leftover \in Seq(Nat) /\ wsLeft \in Seq(Nat) /\ pc = "parse"
        /\ raw # <<>> /\ (raw[1] = 0 \/ UpTo(raw, arrived))
        /\ leftover = <<>> \/ leftover = raw
        /\ wsLeft # <<>> => ~StartsAt(stream, raw[1])
    BY DEF CompleteInv, OrderInv, StreamInv, Where, HttpIncomplete
  <1>2. /\ stream' = stream /\ arrived' = arrived /\ wsLeft' = wsLeft /\ raw' = <<>> /\ pc' = "idle"
        /\ frag' = frag /\ delivered' = delivered /\ spoiled' = spoiled
        /\ leftover' = IF leftover # <<>> THEN leftover ELSE IF garble THEN [j \in DOMAIN raw |-> 0] ELSE raw
        /\ trouble' = (trouble \/ garble \/ raw[1] = 0 \/ stream[ItemAt(raw[1])].k \notin Http)
        /\ Parsed = "none"
    BY DEF HttpIncomplete
  <1>3. SUFFICES ASSUME ~trouble'  PROVE CompleteInv'
    BY DEF CompleteInv
  <1>4. ~garble /\ raw[1] # 0 /\ stream[ItemAt(raw[1])].k \in Http  BY <1>2, <1>3
  <1>5. leftover' = raw /\ UpTo(raw, arrived)  BY <1>1, <1>2, <1>4
  <1>6. raw[1] \in Nat \ {0} /\ raw[1] <= arrived  BY <1>1, <1>5, FirstByte
  <1>7. ~Mistaken(stream, pc, raw, wsLeft)
    <2>1. SUFFICES ASSUME NEW i \in DOMAIN stream, First(stream, i) < raw[1], raw[1] <= Final(stream, i), stream[i].k \notin Http
                   PROVE  FALSE
      BY DEF Mistaken
    <2>2. First(stream, i) \in Nat  BY <1>1, Layout
    <2>3. First(stream, i) <= raw[1]  BY <2>1, <2>2, <1>6
    <2>4. ItemAt(raw[1]) = i  BY <2>1, <2>3, <1>1, <1>6, ItemAtInside
    <2>5. QED  BY <2>1, <2>4, <1>4
  <1>8. PICK n \in 1..Len(stream) + 1 : UpToItem(stream, n, spoiled, arrived, pc, raw, leftover, wsLeft, delivered, frag)
    BY <1>7 DEF CompleteInv
  <1>9. NextAt(stream, raw[1], n) /\ DealtWith(stream, n, spoiled, delivered, frag)  BY <1>1, <1>8 DEF UpToItem, NextByte
  <1>10. n \in DOMAIN stream /\ First(stream, n) = raw[1]  BY <1>1, <1>6, <1>9, NextIs
  <1>11. wsLeft = <<>>  BY <1>1, <1>10 DEF StartsAt
  <1>12. Final(stream, n) > arrived \/ stream[n].k = "bad"
    <2>1. ItemAt(raw[1]) = n  BY <1>1, <1>10, ItemAtStart
    <2>2. CASE WholeItem(raw)
      <3>1. stream[n].k \in Http /\ "none" \notin Http  BY <2>1, <1>4 DEF Http
      <3>2. QED  BY <2>1, <2>2, <3>1, <1>2 DEF Parsed
    <2>3. CASE ~WholeItem(raw)
      BY <2>3, <1>1, <1>5, <1>10, NotWhole
    <2>4. QED  BY <2>2, <2>3
  <1>13. NextByte("idle", arrived, <<>>, raw, wsLeft) = raw[1]  BY <1>1 DEF NextByte
  <1>14. UpToItem(stream, n, spoiled, arrived, "idle", <<>>, raw, wsLeft, delivered, frag)
    BY <1>9, <1>11, <1>12, <1>13 DEF UpToItem
  <1>15. QED  BY <1>2, <1>5, <1>14 DEF CompleteInv

\* WebSocketCodec puts the segment behind what it kept.
LEMMA CompleteWsEnter ==
  ASSUME CompleteInv, OrderInv', ~trouble, WsEnter
  PROVE  CompleteInv'
  <1> DEFINE t == wsLeft \o raw
  <1>1. /\ stream \in Streams /\ arrived \in Nat
        /\ raw \in Seq(Nat) /\ wsLeft \in Seq(Nat) /\ leftover = <<>> /\ raw # <<>> /\ pc = "ws"
    BY DEF CompleteInv, OrderInv, StreamInv, Where, WsEnter
  <1>2. /\ stream' = stream /\ arrived' = arrived /\ wsLeft' = <<>> /\ leftover' = leftover /\ frag' = frag /\ delivered' = delivered /\ spoiled' = spoiled
        /\ raw' = t /\ pc' = "frame" /\ trouble' = trouble /\ trouble' \in BOOLEAN
    BY DEF WsEnter, CompleteInv
  <1>3. PICK n \in 1..Len(stream) + 1 : UpToItem(stream, n, spoiled, arrived, pc, raw, leftover, wsLeft, delivered, frag)
    BY <1>1 DEF CompleteInv, Mistaken
  <1>4. NextAt(stream, NextByte("ws", arrived, raw, <<>>, wsLeft), n) /\ DealtWith(stream, n, spoiled, delivered, frag)
    BY <1>1, <1>3 DEF UpToItem
  <1>5. t[1] = NextByte("ws", arrived, raw, <<>>, wsLeft)
    <2>1. CASE wsLeft = <<>>
      <3>1. t = raw  BY <2>1, <1>1, ConcatEmptySeq
      <3>2. QED  BY <3>1, <2>1 DEF NextByte
    <2>2. CASE wsLeft # <<>>
      <3>1. Len(wsLeft) \in Nat /\ Len(wsLeft) # 0 /\ Len(raw) \in Nat  BY <2>2, <1>1, EmptySeq
      <3>2. \A j \in 1..Len(wsLeft) + Len(raw) : t[j] = IF j <= Len(wsLeft) THEN wsLeft[j] ELSE raw[j - Len(wsLeft)]
        BY <1>1, ConcatProperties
      <3>3. 1 \in 1..Len(wsLeft) + Len(raw) /\ 1 <= Len(wsLeft)  BY <3>1
      <3>4. t[1] = wsLeft[1]  BY <3>2, <3>3
      <3>5. QED  BY <3>4, <2>2 DEF NextByte
    <2>3. QED  BY <2>1, <2>2
  <1> HIDE DEF t
  <1>6. NextByte("frame", arrived, t, <<>>, <<>>) = t[1]  BY DEF NextByte
  <1>7. UpToItem(stream, n, spoiled, arrived, "frame", t, <<>>, <<>>, delivered, frag)  BY <1>4, <1>5, <1>6 DEF UpToItem
  <1>8. QED  BY <1>1, <1>2, <1>7 DEF CompleteInv

\* A frame that is not there to its end is kept.
LEMMA CompleteWsIncomplete ==
  ASSUME CompleteInv, OrderInv', ~trouble, trouble' \in BOOLEAN, WsIncomplete
  PROVE  CompleteInv'
  <1>1. /\ stream \in Streams /\ arrived \in Nat /\ arrived <= Total(stream)
        /\ raw \in Seq(Nat) /\ raw # <<>> /\ UpTo(raw, arrived) /\ leftover = <<>> /\ pc = "frame"
    BY FrameState DEF WsIncomplete, CompleteInv, OrderInv
  <1>2. /\ stream' = stream /\ arrived' = arrived /\ leftover' = leftover /\ wsLeft' = raw
        /\ frag' = frag /\ delivered' = delivered /\ spoiled' = spoiled
        /\ raw' = <<>> /\ pc' = "idle" /\ ~WholeItem(raw)
    BY DEF WsIncomplete, Returns
  <1>3. PICK n \in 1..Len(stream) + 1 : UpToItem(stream, n, spoiled, arrived, pc, raw, leftover, wsLeft, delivered, frag)
    BY <1>1 DEF CompleteInv, Mistaken
  <1>4. NextAt(stream, raw[1], n) /\ DealtWith(stream, n, spoiled, delivered, frag)  BY <1>1, <1>3 DEF UpToItem, NextByte
  <1>5. raw[1] <= arrived  BY <1>1, FirstByte
  <1>6. n \in DOMAIN stream /\ First(stream, n) = raw[1]  BY <1>1, <1>4, <1>5, NextIs
  <1>7. Final(stream, n) > arrived  BY <1>1, <1>2, <1>6, NotWhole
  <1>8. NextByte("idle", arrived, <<>>, <<>>, raw) = raw[1]  BY <1>1 DEF NextByte
  <1>9. UpToItem(stream, n, spoiled, arrived, "idle", <<>>, <<>>, raw, delivered, frag)  BY <1>4, <1>7, <1>8 DEF UpToItem
  <1>10. QED  BY <1>1, <1>2, <1>9 DEF CompleteInv

\* A frame that is refused is noted.
LEMMA CompleteWsRefuse ==
  ASSUME CompleteInv, OrderInv', trouble' \in BOOLEAN, WsRefuse
  PROVE  CompleteInv'
  <1>1. raw # <<>>  BY FrameState DEF WsRefuse, CompleteInv, OrderInv
  <1>2. trouble'  BY <1>1 DEF WsRefuse, Returns
  <1>3. QED  BY <1>2 DEF CompleteInv

\* A request is no frame of a message in pieces.
LEMMA RequestWaits ==
  ASSUME NEW st, NEW n \in Nat \ {0}, NEW X, NEW D, NEW f, DealtWith(st, n, X, D, f),
         ~Opens(st[n]), ~Continues(st[n]), ~Concludes(st[n])
  PROVE  WaitFor(st, n + 1, f.parts, f.k)
  <1>1. Range(f.parts) = Waiting(st, n) /\ OpenedAs(st, n, f.k)  BY DEF DealtWith
  <1>2. Waiting(st, n + 1) = Waiting(st, n) /\ OpenedAs(st, n + 1, f.k)  BY <1>1, WaitingNext
  <1>3. QED  BY <1>1, <1>2 DEF WaitFor

\* What is in front when nothing went wrong so far.
LEMMA FrontItem ==
  ASSUME CompleteInv, ~trouble, pc \in {"parse", "frame"}, WholeItem(raw)
  PROVE  LET i == ItemAt(raw[1])
         IN /\ i \in DOMAIN stream /\ i \in Nat \ {0} /\ i \in Nat /\ stream[i].k \in Kinds
            /\ DealtWith(stream, i, spoiled, delivered, frag) /\ wsLeft = <<>>
            /\ delivered \in Seq([k : Kinds, parts : Seq(Nat)])
            /\ frag \in [parts : Seq(Nat), k : Kinds] /\ frag.parts \in Seq(Nat) /\ frag.k \in Kinds
            /\ Ascending(frag.parts) /\ (\A c \in Range(frag.parts) : c < i)
  <1> DEFINE i == ItemAt(raw[1])
  <1>1. DealtWith(stream, i, spoiled, delivered, frag) /\ wsLeft = <<>> /\ stream \in Streams  BY DealtSoFar
  <1>2. /\ OrderInv /\ Ordered(delivered, frag.parts) /\ frag \in [parts : Seq(Nat), k : Kinds]
    BY DEF CompleteInv, OrderInv
  <1>3. i \in DOMAIN stream /\ i \in Nat /\ stream[i].k \in Kinds /\ \A c \in Taken(delivered, frag.parts) : c < i
    BY <1>2, FrontIsNext
  <1>4. frag.parts \in Seq(Nat) /\ Ascending(frag.parts) /\ (\A c \in Range(frag.parts) : c < i)
    BY <1>2, <1>3, TakenIs DEF Ordered
  <1>5. delivered \in Seq([k : Kinds, parts : Seq(Nat)])  BY <1>2 DEF Ordered
  <1>6. i \in Nat \ {0}  BY <1>1, <1>3, NextItem
  <1>7. frag.k \in Kinds  BY <1>2
  <1>8. QED  BY <1>1, <1>2, <1>3, <1>4, <1>5, <1>6, <1>7

\* A request that is refused completes nothing or is spoiled.
LEMMA CompleteHttpReject ==
  ASSUME CompleteInv, SpoiledInv, OrderInv', ~trouble, HttpReject
  PROVE  CompleteInv'
  <1> DEFINE i == ItemAt(raw[1])
  <1>1. /\ pc \in {"parse", "frame"} /\ pc = "parse" /\ WholeItem(raw)
        /\ Parsed = stream[i].k /\ stream[i].k \in Http \ {"bad"}
    BY DEF HttpReject, Refused, Parsed
  <1>2. /\ stream' = stream /\ arrived' = arrived /\ leftover' = <<>> /\ wsLeft' = wsLeft
        /\ delivered' = delivered /\ frag' = frag
        /\ Returns(Rest(raw, stream[i].size))
    BY DEF HttpReject
  <1> DEFINE Y == spoiled'
  <1>3. i \in Nat \ {0} /\ DealtWith(stream, i, spoiled, delivered, frag) /\ wsLeft = <<>>  BY <1>1, FrontItem
  <1>4. ~Opens(stream[i]) /\ ~Continues(stream[i]) /\ ~Concludes(stream[i]) /\ stream[i].k # "bad"
    BY <1>1 DEF Opens, Continues, Concludes, Data, Http
  <1>5. WaitFor(stream, i + 1, frag.parts, frag.k)  BY <1>3, <1>4, RequestWaits
  <1>6. spoiled \subseteq Y /\ (~Completes(stream, i) \/ i \in Y)
    <2>1. spoiled \subseteq Y  BY DEF HttpReject, Spoil
    <2>2. CASE stream[i].k \in {"bighead", "bigbody"}
      <3>1. ~Completes(stream, i)  BY <2>2 DEF Completes, Http
      <3>2. QED  BY <2>1, <3>1
    <2>3. CASE stream[i].k \notin {"bighead", "bigbody"}
      <3>1. TooLarge(Append(kept, i)) /\ Spoil  BY <1>1, <2>3 DEF HttpReject, Refused
      <3>2. kept # <<>>
        <4>1. SUFFICES ASSUME kept = <<>> PROVE FALSE
          OBVIOUS
        <4>2. Append(kept, i) = <<i>>  BY <4>1
        <4>3. TooLarge(<<i>>)  BY <4>2, <3>1
        <4>4. \A n \in DOMAIN <<i>> : <<i>>[n] = i  OBVIOUS
        <4>5. QED  BY <4>3, <4>4, <2>3 DEF TooLarge
      <3>3. i \in Y  BY <3>1, <3>2 DEF Spoil
      <3>4. QED  BY <2>1, <3>3
    <2>4. QED  BY <2>2, <2>3
  <1> HIDE DEF i, Y
  <1>7. DealtWith(stream, i + 1, Y, delivered, frag)  BY <1>3, <1>4, <1>5, <1>6, DealtSame
  <1>8. QED  BY <1>1, <1>2, <1>3, <1>7, ReturnsComplete DEF i, Y

\* A request that is handed on.
LEMMA CompleteHttpDeliver ==
  ASSUME CompleteInv, SpoiledInv, OrderInv', ~trouble, HttpDeliver
  PROVE  CompleteInv'
  <1> DEFINE i == ItemAt(raw[1])
             k == stream[i].k
             D == With(delivered, k, <<i>>)
             Y == spoiled'
  <1>0. pc = "parse" /\ WholeItem(raw) /\ Parsed = k /\ Parsed \in {"request", "upgrade"}  BY DeliverFits
  <1>1. /\ pc \in {"parse", "frame"} /\ pc = "parse" /\ WholeItem(raw) /\ k \in {"request", "upgrade"}
        /\ delivered' = D
        /\ stream' = stream /\ arrived' = arrived /\ leftover' = <<>> /\ wsLeft' = wsLeft /\ frag' = frag
        /\ raw' = Rest(raw, stream[i].size) /\ pc' = IF raw' = <<>> THEN "idle" ELSE "parse"
        /\ trouble' = trouble /\ trouble' \in BOOLEAN /\ spoiled \subseteq Y
    BY <1>0 DEF HttpDeliver, HandOn, Spoil, With, CompleteInv
  <1>2. /\ i \in Nat \ {0} /\ i \in Nat /\ DealtWith(stream, i, spoiled, delivered, frag) /\ wsLeft = <<>> /\ k \in Kinds
        /\ delivered \in Seq([k : Kinds, parts : Seq(Nat)])
    BY <1>1, FrontItem
  <1>3. ~Opens(stream[i]) /\ ~Continues(stream[i]) /\ ~Concludes(stream[i]) /\ Completes(stream, i) /\ stream[i].k # "bad"
    BY <1>1 DEF Opens, Continues, Concludes, Completes, Data, Http
  <1>4. WaitFor(stream, i + 1, frag.parts, frag.k)  BY <1>2, <1>3, RequestWaits
  <1>5. MessageAt(stream, i, [k |-> k, parts |-> <<i>>])  BY <1>1 DEF MessageAt
  <1>6. <<i>> \in Seq(Nat)  BY <1>2
  <1>7. DealtWith(stream, i + 1, Y, D, frag)
    <2> HIDE DEF i, k, Y
    <2>1. stream[i].k # "bad" /\ Completes(stream, i) /\ spoiled \subseteq Y  BY <1>1, <1>3
    <2>2. QED  BY <2>1, <1>2, <1>4, <1>5, <1>6, DealtMore
  <1>8. pc' = IF raw' = <<>> THEN "idle" ELSE pc  BY <1>1
  <1> HIDE DEF D, Y
  <1>9. spoiled' = Y  BY DEF Y
  <1>10. QED  BY <1>1, <1>2, <1>7, <1>8, <1>9, GoesOn

\* The WebSocket loop goes on behind a frame.
LEMMA WsGoesOn ==
  ASSUME CompleteInv, ~trouble, pc = "frame", WholeItem(raw), WsNext
  PROVE  raw' = Rest(raw, stream[ItemAt(raw[1])].size) /\ pc' = IF raw' = <<>> THEN "idle" ELSE pc
  <1> DEFINE i == ItemAt(raw[1])
             t == Rest(raw, stream[i].size)
  <1>1. raw' = t /\ pc' = IF Len(raw) = stream[i].size THEN "idle" ELSE "frame"  BY DEF WsNext, Frame
  <1>2. InFront(stream, i, arrived, raw, t) /\ stream \in Streams  BY DealtSoFar
  <1>3. raw \in Seq(Nat)  BY DEF CompleteInv, OrderInv, StreamInv, Where
  <1> HIDE DEF i, t
  <1>4. /\ i \in DOMAIN stream /\ t \in Seq(Nat) /\ Len(t) = Len(raw) - stream[i].size
        /\ stream[i].size \in Nat /\ Len(raw) \in Nat
    BY <1>2, <1>3, Layout DEF InFront
  <1>5. Len(t) = 0 <=> t = <<>>  BY <1>4, EmptySeq
  <1>6. Len(raw) = stream[i].size <=> t = <<>>  BY <1>4, <1>5
  <1>7. QED  BY <1>1, <1>6 DEF i, t

\* A fragment joins the ones that wait, or opens a message.
LEMMA CompleteWsFragment ==
  ASSUME CompleteInv, OrderInv', ~trouble, WsFragment
  PROVE  CompleteInv'
  <1> DEFINE i == ItemAt(raw[1])
             F == frag.parts
  <1>0. StreamInv /\ OrderInv  BY DEF CompleteInv, OrderInv
  <1>1. /\ pc = "frame" /\ pc \in {"parse", "frame"} /\ WholeItem(raw) /\ stream' = stream /\ arrived' = arrived
        /\ leftover' = <<>> /\ wsLeft' = <<>> /\ Frame = stream[i]
    BY <1>0, FrameTaken
  <1>2. /\ delivered' = delivered /\ spoiled' = spoiled /\ WsNext /\ ~WsRefused /\ ~Frame.fin
        /\ frag' = IF Frame.k = "cont" THEN [frag EXCEPT !.parts = Append(@, i)] ELSE [parts |-> <<i>>, k |-> Frame.k]
        /\ trouble' = trouble /\ trouble' \in BOOLEAN
    BY DEF WsFragment, CompleteInv
  <1>3. /\ i \in DOMAIN stream /\ i \in Nat \ {0} /\ i \in Nat /\ stream[i].k \in Kinds
        /\ DealtWith(stream, i, spoiled, delivered, frag)
        /\ frag \in [parts : Seq(Nat), k : Kinds] /\ F \in Seq(Nat) /\ frag.k \in Kinds
        /\ Ascending(F) /\ (\A c \in Range(F) : c < i)
    BY <1>1, FrontItem
  <1>4. stream[i].k \notin Http  BY <1>0, <1>1, FrameIsNoHttp
  <1>5. ~Completes(stream, i) /\ stream[i].k # "bad" /\ (Opens(stream[i]) \/ Continues(stream[i]))
        /\ (stream[i].k = "cont" <=> Continues(stream[i]))
    <2>1. stream[i].k \in Data \cup {"cont"}  BY <1>1, <1>2, <1>3, <1>4 DEF WsRefused, Kinds
    <2>2. QED  BY <2>1, <1>1, <1>2, <1>4 DEF Completes, Opens, Continues, Http, Data
  <1>6. [frag EXCEPT !.parts = Append(@, i)] = [parts |-> Append(F, i), k |-> frag.k]
    <2>1. [frag EXCEPT !.parts = Append(@, i)] = [frag EXCEPT !.parts = Append(F, i)]  OBVIOUS
    <2>2. Append(F, i) \in Seq(Nat)  BY <1>3
    <2>3. QED  BY <2>1, <2>2, <1>3, OtherParts, Zenon
  <1>7. Range(F) = Waiting(stream, i) /\ OpenedAs(stream, i, frag.k)  BY <1>3 DEF DealtWith
  <1>8. Range(<<i>>) = {i} /\ Range(Append(F, i)) = Range(F) \cup {i}  BY <1>3, OneMore
  <1>9. /\ Opens(stream[i]) => Waiting(stream, i + 1) = {i} /\ OpenedAs(stream, i + 1, stream[i].k)
        /\ Continues(stream[i]) => Waiting(stream, i + 1) = Waiting(stream, i) \cup {i}
        /\ ~Opens(stream[i]) => OpenedAs(stream, i + 1, frag.k)
    BY <1>3, <1>7, WaitingNext
  <1>10. Continues(stream[i]) => ~Opens(stream[i])  BY DEF Opens, Continues, Data
  <1> HIDE DEF i, F
  <1>11. WaitFor(stream, i + 1, frag'.parts, frag'.k)
    <2>1. CASE stream[i].k = "cont"
      <3>1. frag' = [parts |-> Append(F, i), k |-> frag.k]  BY <2>1, <1>1, <1>2, <1>6
      <3>2. frag'.parts = Append(F, i) /\ frag'.k = frag.k  BY <3>1
      <3>3. QED  BY <3>2, <2>1, <1>5, <1>7, <1>8, <1>9, <1>10 DEF WaitFor
    <2>2. CASE stream[i].k # "cont"
      <3>1. frag' = [parts |-> <<i>>, k |-> stream[i].k]  BY <2>2, <1>1, <1>2
      <3>2. frag'.parts = <<i>> /\ frag'.k = stream[i].k  BY <3>1
      <3>3. QED  BY <3>2, <2>2, <1>5, <1>8, <1>9 DEF WaitFor
    <2>3. QED  BY <2>1, <2>2
  <1>12. DealtWith(stream, i + 1, spoiled, delivered, frag')  BY <1>3, <1>5, <1>11, DealtSame
  <1>13. raw' = Rest(raw, stream[i].size) /\ pc' = IF raw' = <<>> THEN "idle" ELSE pc  BY <1>1, <1>2, WsGoesOn DEF i
  <1>14. QED  BY <1>1, <1>2, <1>12, <1>13, GoesOn DEF i

\* What a frame completes: with the fragments that waited, or by itself.
LEMMA DealtMessage ==
  ASSUME CompleteInv, OrderInv', ~trouble, WsDeliver \/ WsClose
  PROVE  DealtWith(stream, ItemAt(raw[1]) + 1, spoiled, delivered', frag')
  <1> DEFINE i == ItemAt(raw[1])
             F == frag.parts
  <1>0. StreamInv /\ OrderInv  BY DEF CompleteInv, OrderInv
  <1>1. pc = "frame" /\ pc \in {"parse", "frame"} /\ WholeItem(raw) /\ stream' = stream /\ Frame = stream[i]
    BY <1>0, FrameTaken
  <1>2. Frame.fin
    BY DEF WsDeliver, WsClose, WsRefused, Control
  <1>3. /\ i \in DOMAIN stream /\ i \in Nat \ {0} /\ i \in Nat /\ stream[i].k \in Kinds
        /\ DealtWith(stream, i, spoiled, delivered, frag) /\ delivered \in Seq([k : Kinds, parts : Seq(Nat)])
        /\ frag \in [parts : Seq(Nat), k : Kinds] /\ F \in Seq(Nat) /\ frag.k \in Kinds
        /\ Ascending(F) /\ (\A c \in Range(F) : c < i)
    BY <1>1, FrontItem
  <1>4. stream[i].k \notin Http  BY <1>0, <1>1, FrameIsNoHttp
  <1>5. /\ Completes(stream, i) /\ stream[i].k # "bad" /\ ~Opens(stream[i]) /\ ~Continues(stream[i])
        /\ (stream[i].k = "cont" <=> Concludes(stream[i]))
    BY <1>1, <1>2, <1>4 DEF Completes, Opens, Continues, Concludes, Http
  <1>6. [frag EXCEPT !.parts = <<>>] = [parts |-> <<>>, k |-> frag.k]
    <2>1. <<>> \in Seq(Nat)  OBVIOUS
    <2>2. QED  BY <2>1, <1>3, OtherParts, Zenon
  <1>7. Range(F) = Waiting(stream, i) /\ OpenedAs(stream, i, frag.k)  BY <1>3 DEF DealtWith
  <1>8. /\ Append(F, i) \in Seq(Nat) /\ Range(Append(F, i)) = Range(F) \cup {i} /\ Range(<<>>) = {}
        /\ <<i>> \in Seq(Nat)
    BY <1>3, OneMore
  <1>9. /\ Concludes(stream[i]) => Waiting(stream, i + 1) = {}
        /\ OpenedAs(stream, i + 1, frag.k)
    BY <1>3, <1>5, <1>7, WaitingNext
  <1>10. CASE stream[i].k = "cont"
    <2> DEFINE P == Append(F, i)
               k == frag.k
    <2>1. delivered' = With(delivered, k, P) /\ frag' = [parts |-> <<>>, k |-> k]
      BY <1>1, <1>6, <1>10 DEF WsDeliver, WsClose, With
    <2>2. frag'.parts = <<>> /\ frag'.k = k  BY <2>1
    <2> HIDE DEF i, F
    <2>3. WaitFor(stream, i + 1, frag'.parts, frag'.k)  BY <2>2, <1>5, <1>8, <1>9, <1>10 DEF WaitFor
    <2>4. MessageAt(stream, i, [k |-> k, parts |-> P])
      BY <1>7, <1>8, <1>10 DEF MessageAt
    <2>5. P \in Seq(Nat) /\ k \in Kinds  BY <1>3, <1>8
    <2> HIDE DEF P, k
    <2>6. DealtWith(stream, i + 1, spoiled, With(delivered, k, P), frag')  BY <2>3, <2>4, <2>5, <1>3, <1>5, DealtMore
    <2>7. QED  BY <2>1, <2>6 DEF i
  <1>11. CASE stream[i].k # "cont"
    <2> DEFINE P == <<i>>
               k == stream[i].k
    <2>1. delivered' = With(delivered, k, P) /\ frag' = frag
      BY <1>1, <1>11 DEF WsDeliver, WsClose, With
    <2>2. WaitFor(stream, i + 1, frag.parts, frag.k)
      BY <1>3, <1>5, <1>11, RequestWaits
    <2>3. MessageAt(stream, i, [k |-> k, parts |-> P])  BY <1>11 DEF MessageAt
    <2>4. P \in Seq(Nat) /\ k \in Kinds  BY <1>3, <1>8
    <2> HIDE DEF i, P, k
    <2>5. DealtWith(stream, i + 1, spoiled, With(delivered, k, P), frag)  BY <2>2, <2>3, <2>4, <1>3, <1>5, DealtMore
    <2>6. QED  BY <2>1, <2>5 DEF i
  <1>12. QED  BY <1>10, <1>11

\* A message is handed on.
LEMMA CompleteWsMessage ==
  ASSUME CompleteInv, OrderInv', ~trouble, WsDeliver \/ WsClose
  PROVE  CompleteInv'
  <1> DEFINE i == ItemAt(raw[1])
  <1>1. DealtWith(stream, i + 1, spoiled, delivered', frag')  BY DealtMessage
  <1>2. OrderInv /\ spoiled' = spoiled  BY DEF CompleteInv, WsDeliver, WsClose
  <1>3. /\ pc = "frame" /\ pc \in {"parse", "frame"} /\ WholeItem(raw) /\ stream' = stream /\ arrived' = arrived
        /\ leftover' = <<>> /\ wsLeft' = <<>> /\ Frame = stream[i]
    BY <1>2, FrameTaken
  <1>4. CASE WsDeliver
    <2>1. WsNext /\ trouble' = trouble /\ trouble' \in BOOLEAN  BY <1>4 DEF WsDeliver, CompleteInv
    <2>2. raw' = Rest(raw, stream[i].size) /\ pc' = IF raw' = <<>> THEN "idle" ELSE pc  BY <2>1, <1>3, WsGoesOn
    <2>3. QED  BY <2>1, <2>2, <1>1, <1>2, <1>3, GoesOn
  <1>5. CASE WsClose
    <2>1. Returns(Rest(raw, stream[i].size))  BY <1>3, <1>5 DEF WsClose
    <2>2. QED  BY <2>1, <1>1, <1>2, <1>3, ReturnsComplete
  <1>6. QED  BY <1>4, <1>5

\* Before anything has arrived.
LEMMA CompleteInvInit == Init => CompleteInv
  <1> SUFFICES ASSUME Init PROVE CompleteInv
    OBVIOUS
  <1>1. OrderInv  BY OrderInvInit
  <1>2. /\ stream \in Streams /\ arrived = 0 /\ pc = "idle" /\ raw = <<>> /\ leftover = <<>> /\ wsLeft = <<>>
        /\ delivered = <<>> /\ frag = [parts |-> <<>>, k |-> "text"] /\ trouble = FALSE
    BY DEF Init, WsInit
  <1>3. Len(stream) \in Nat /\ DOMAIN stream = 1..Len(stream) /\ stream \in Seq(Item)  BY <1>2, Layout
  <1>4. 1 \in 1..Len(stream) + 1 /\ 1 - 1 = 0 /\ 1..0 = {}  BY <1>3
  <1>5. NextAt(stream, 1, 1)
    <2>1. CASE stream = <<>>
      <3>1. Len(stream) = 0 /\ Total(stream) = 0  BY <2>1 DEF Total
      <3>2. QED  BY <3>1, <1>4 DEF NextAt
    <2>2. CASE stream # <<>>
      <3>1. Len(stream) # 0  BY <2>2, <1>3, EmptySeq
      <3>2. 1 \in DOMAIN stream /\ 1 # Len(stream) + 1  BY <3>1, <1>3
      <3>3. stream[1].at = 1  BY <3>2, <1>2, StreamsAssumption
      <3>4. QED  BY <3>2, <3>3, <1>4 DEF NextAt, First
    <2>3. QED  BY <2>1, <2>2
  <1>6. frag.parts = <<>> /\ frag.k = "text"  BY <1>2
  <1>7. DealtWith(stream, 1, spoiled, <<>>, frag)
    <2>1. Waiting(stream, 1) = {} /\ OpenedAs(stream, 1, "text")  BY <1>4 DEF Waiting, OpenedAs
    <2>2. Range(<<>>) = {} /\ DOMAIN <<>> = {}  BY DEF Range
    <2>3. QED  BY <2>1, <2>2, <1>4, <1>6 DEF DealtWith
  <1>8. NextByte("idle", 0, <<>>, <<>>, <<>>) = 1  BY DEF NextByte
  <1>9. 1 \in DOMAIN stream => Final(stream, 1) > 0
    <2> SUFFICES ASSUME 1 \in DOMAIN stream PROVE Final(stream, 1) > 0
      OBVIOUS
    <2>1. First(stream, 1) \in Nat \ {0} /\ Final(stream, 1) \in Nat /\ First(stream, 1) <= Final(stream, 1)  BY <1>2, Layout
    <2>2. QED  BY <2>1
  <1>10. UpToItem(stream, 1, spoiled, 0, "idle", <<>>, <<>>, <<>>, <<>>, frag)
    BY <1>5, <1>7, <1>8, <1>9 DEF UpToItem
  <1>11. QED  BY <1>1, <1>2, <1>4, <1>10 DEF CompleteInv

\* Every step deals with what it should.
LEMMA CompleteInvStep == CompleteInv /\ SpoiledInv /\ [Next]_vars => CompleteInv'
  <1> SUFFICES ASSUME CompleteInv, SpoiledInv, [Next]_vars PROVE CompleteInv'
    OBVIOUS
  <1>1. OrderInv'  BY OrderInvStep DEF CompleteInv
  <1>2. trouble' \in BOOLEAN /\ (trouble => trouble')  BY <1>1, TroubleStays
  <1>3. CASE trouble
    BY <1>1, <1>2, <1>3 DEF CompleteInv
  <1>4. CASE ~trouble
    <2>1. ASSUME UNCHANGED <<stream, arrived, pc, raw, leftover, wsLeft, frag, delivered, spoiled>>
          PROVE  CompleteInv'
      BY <2>1, <1>1, <1>2, <1>4 DEF CompleteInv
    <2>2. ASSUME NEW i \in DOMAIN stream, NEW what \in Parts, RequestGet(i, what)  PROVE CompleteInv'
      BY <2>1, <2>2 DEF RequestGet
    <2>3. CASE UNCHANGED vars
      BY <2>1, <2>3 DEF vars
    <2>4. QED
      BY <1>1, <1>2, <1>4, <2>2, <2>3, CompleteArrive, CompleteHttpEnter, CompleteHttpIncomplete, CompleteHttpReject,
         CompleteHttpDeliver, CompleteWsEnter, CompleteWsIncomplete, CompleteWsRefuse, CompleteWsFragment, CompleteWsMessage,
         Zenon DEF Next
  <1>5. QED  BY <1>3, <1>4

\* Whatever cuts TCP makes, when HttpServerCodec and WebSocketCodec are done
\* with a segment the handlers have every request and message that has arrived
\* to its end, and no other, with all fragments of a message and none of
\* another's; but for the bytes a refusal took with it, for pieces of frames
\* that were taken for HTTP, and for requests behind one whose body was too
\* large, up to the first that is handed on: its Content-Length may still be
\* in front of theirs, and then they are refused, too.
THEOREM AllHandedOn == Spec => []DeliveredIsComplete
  <1>1. ASSUME CompleteInv, SpoiledInv, pc = "idle", ~trouble
        PROVE  /\ \A i \in DOMAIN stream : Due(i) => Tainted(i) \/ \E d \in DOMAIN delivered : MessageAt(stream, i, delivered[d])
               /\ \A d \in DOMAIN delivered : \E i \in DOMAIN stream : Due(i) /\ MessageAt(stream, i, delivered[d])
    <2>1. PICK n \in 1..Len(stream) + 1 : UpToItem(stream, n, spoiled, arrived, pc, raw, leftover, wsLeft, delivered, frag)
      BY <1>1 DEF CompleteInv, Mistaken
    <2>2. /\ stream \in Streams /\ arrived \in Nat /\ arrived <= Total(stream)
          /\ leftover \in Seq(Nat) /\ wsLeft \in Seq(Nat) /\ Between(stream, arrived, leftover, wsLeft)
      BY <1>1 DEF CompleteInv, OrderInv, StreamInv, Where
    <2>3. DealtWith(stream, n, spoiled, delivered, frag) /\ (n \in DOMAIN stream => Final(stream, n) > arrived \/ stream[n].k = "bad")
      BY <2>1, <1>1 DEF UpToItem
    <2>4. /\ Len(stream) \in Nat /\ DOMAIN stream = 1..Len(stream)
          /\ \A i \in DOMAIN stream : First(stream, i) \in Nat /\ Final(stream, i) \in Nat /\ First(stream, i) <= Final(stream, i)
      BY <2>2, Layout
    <2>5. \A i : Due(i) <=> /\ Final(stream, i) <= arrived /\ Completes(stream, i)
                            /\ \A j \in 1..i : stream[j].k # "bad"
      BY DEF Due, End, Start, Final
    <2>6. ASSUME NEW i \in DOMAIN stream, Due(i)  PROVE i \in 1..n - 1
      <3>1. SUFFICES ASSUME n <= i  PROVE FALSE
        BY <2>4
      <3>2. n \in DOMAIN stream /\ n \in 1..i  BY <3>1, <2>4
      <3>3. Final(stream, n) > arrived  BY <3>2, <2>3, <2>5, <2>6
      <3>4. n < i => Final(stream, n) < First(stream, i)  BY <3>2, <2>2, InOrder
      <3>5. QED  BY <3>1, <3>2, <3>3, <3>4, <2>2, <2>4, <2>5, <2>6
    <2>7. ASSUME NEW i \in 1..n - 1, Completes(stream, i)  PROVE i \in DOMAIN stream /\ Due(i)
      <3>1. i \in DOMAIN stream /\ i < n /\ \A j \in 1..i : j \in 1..n - 1  BY <2>4
      <3>2. \A j \in 1..i : stream[j].k # "bad"  BY <3>1, <2>3 DEF DealtWith
      <3>3. Final(stream, i) <= arrived
        <4>1. NextAt(stream, NextByte("idle", arrived, raw, leftover, wsLeft), n)  BY <2>1, <1>1 DEF UpToItem
        <4>2. NextByte("idle", arrived, raw, leftover, wsLeft) <= arrived + 1
          <5>1. CASE leftover # <<>>
            <6>1. leftover[1] = 0 \/ UpTo(leftover, arrived)  BY <5>1, <2>2 DEF Between
            <6>2. leftover[1] <= arrived  BY <6>1, <5>1, <2>2, FirstByte
            <6>3. leftover[1] \in Nat
              <7>1. Len(leftover) \in Nat /\ Len(leftover) # 0  BY <5>1, <2>2, EmptySeq
              <7>2. 1 \in 1..Len(leftover)  BY <7>1
              <7>3. QED  BY <7>2, <2>2
            <6>4. QED  BY <6>2, <6>3, <5>1, <2>2 DEF NextByte
          <5>2. CASE leftover = <<>> /\ wsLeft # <<>>
            <6>1. UpTo(wsLeft, arrived)  BY <5>2, <2>2 DEF Between
            <6>2. wsLeft[1] <= arrived /\ wsLeft[1] \in Nat  BY <6>1, <5>2, <2>2, FirstByte
            <6>3. QED  BY <6>2, <5>2, <2>2 DEF NextByte
          <5>3. CASE leftover = <<>> /\ wsLeft = <<>>
            BY <5>3, <2>2 DEF NextByte
          <5>4. QED  BY <5>1, <5>2, <5>3
        <4>3. CASE n = Len(stream) + 1
          <5>1. Total(stream) + 1 <= arrived + 1  BY <4>1, <4>2, <4>3 DEF NextAt
          <5>2. Final(stream, i) <= Total(stream) /\ Total(stream) \in Nat  BY <3>1, <2>2, Ends
          <5>3. QED  BY <3>1, <5>1, <5>2, <2>2, <2>4
        <4>4. CASE n # Len(stream) + 1
          <5>1. n \in DOMAIN stream  BY <4>4, <2>4
          <5>2. First(stream, n) <= arrived + 1  BY <4>1, <4>2, <4>4 DEF NextAt
          <5>3. Final(stream, i) < First(stream, n)  BY <3>1, <5>1, <2>2, InOrder
          <5>4. QED  BY <3>1, <5>1, <5>2, <5>3, <2>2, <2>4
        <4>5. QED  BY <4>3, <4>4
      <3>4. QED  BY <3>1, <3>2, <3>3, <2>5, <2>7
    <2>8. ASSUME NEW i \in DOMAIN stream, Due(i)
          PROVE  Tainted(i) \/ \E d \in DOMAIN delivered : MessageAt(stream, i, delivered[d])
      <3>1. i \in spoiled \/ \E d \in DOMAIN delivered : MessageAt(stream, i, delivered[d])
        BY <2>3, <2>5, <2>6, <2>8 DEF DealtWith
      <3>2. i \in spoiled => Tainted(i)  BY <1>1 DEF SpoiledInv, TaintedIn, Tainted, HandedIn, HandedOn
      <3>3. QED  BY <3>1, <3>2
    <2>9. ASSUME NEW d \in DOMAIN delivered  PROVE \E i \in DOMAIN stream : Due(i) /\ MessageAt(stream, i, delivered[d])
      <3>1. PICK i \in 1..n - 1 : Completes(stream, i) /\ MessageAt(stream, i, delivered[d])  BY <2>3 DEF DealtWith
      <3>2. QED  BY <3>1, <2>7
    <2>10. QED  BY <2>8, <2>9
  <1>2. CompleteInv /\ SpoiledInv => DeliveredIsComplete
    BY <1>1 DEF DeliveredIsComplete
  <1>3. QED  BY <1>2, CompleteInvInit, CompleteInvStep, SpoiledInvInit, SpoiledInvStep, PTL DEF Spec

---------------------------------------------------------------------------
(* The header of a frame *)

\* Splitting a number into its low byte and the rest loses nothing.
LEMMA LowHigh ==
  ASSUME NEW n \in Nat
  PROVE  /\ High(n) \in Nat /\ Low(n) \in 0..255
         /\ Join(High(n), Low(n)) = n
BY DEF High, Low, Join

\* The eight bytes of any length are bytes, and joined from the highest on they
\* are that length.
LEMMA EightBytesJoin ==
  ASSUME NEW n \in Lengths
  PROVE  LET e == EightBytes(n)
         IN /\ \A i \in 1..8 : e[i] \in 0..255
            /\ Join(Join(Join(Join(Join(Join(Join(e[1], e[2]), e[3]), e[4]), e[5]), e[6]), e[7]), e[8]) = n
<1> DEFINE n1 == High(n)  n2 == High(n1)  n3 == High(n2)  n4 == High(n3)
           n5 == High(n4)  n6 == High(n5)  n7 == High(n6)
<1>1. n \in Nat
  BY DEF Lengths
<1>2. n1 \in Nat /\ n2 \in Nat /\ n3 \in Nat /\ n4 \in Nat /\ n5 \in Nat /\ n6 \in Nat /\ n7 \in Nat
  BY <1>1, LowHigh
<1>3. n7 < 256
  <2>1. n1 < 16777216 * 4294967296
    BY <1>1 DEF Lengths, High
  <2>2. n2 < 65536 * 4294967296
    BY <1>2, <2>1 DEF High
  <2>3. n3 < 256 * 4294967296
    BY <1>2, <2>2 DEF High
  <2>4. n4 < 4294967296
    BY <1>2, <2>3 DEF High
  <2>5. n5 < 16777216
    BY <1>2, <2>4 DEF High
  <2>6. n6 < 65536
    BY <1>2, <2>5 DEF High
  <2>7. QED
    BY <1>2, <2>6 DEF High
<1>4. Low(n7) = n7
  BY <1>2, <1>3 DEF Low
<1>5. /\ Join(n7, Low(n6)) = n6 /\ Join(n6, Low(n5)) = n5 /\ Join(n5, Low(n4)) = n4
      /\ Join(n4, Low(n3)) = n3 /\ Join(n3, Low(n2)) = n2 /\ Join(n2, Low(n1)) = n1 /\ Join(n1, Low(n)) = n
  BY <1>1, <1>2, LowHigh
<1>6. \A m \in Nat : Low(m) \in 0..255
  BY LowHigh
<1> HIDE DEF n1, n2, n3, n4, n5, n6, n7
<1>7. EightBytes(n) = <<Low(n7), Low(n6), Low(n5), Low(n4), Low(n3), Low(n2), Low(n1), Low(n)>>
  BY DEF EightBytes, n1, n2, n3, n4, n5, n6, n7
<1>8. QED
  BY <1>1, <1>2, <1>4, <1>5, <1>6, <1>7

\* A flag and seven bits are read back as they were written.
LEMMA FlaggedParts ==
  ASSUME NEW flag \in BOOLEAN, NEW bits \in 0..127
  PROVE  /\ Flagged(flag, bits) \in 0..255
         /\ Flagged(flag, bits) % 128 = bits
         /\ Flagged(flag, bits) >= 128 <=> flag
<1>1. CASE flag
  BY <1>1 DEF Flagged
<1>2. CASE ~flag
  BY <1>2 DEF Flagged
<1>3. QED
  BY <1>1, <1>2

\* The two marks of a longer length are read back, with the flag beside them.
LEMMA LengthMarks ==
  \A flag \in BOOLEAN :
    /\ Flagged(flag, 126) % 128 = 126 /\ (Flagged(flag, 126) >= 128 <=> flag)
    /\ Flagged(flag, 127) % 128 = 127 /\ (Flagged(flag, 127) >= 128 <=> flag)
BY SMTT(40) DEF Flagged

\* A frame header of any kind, with a payload of any size up to 2^64 - 1, is
\* read by channelRead() as encodeFrame() wrote it, and the payload (behind
\* the masking key, if there is one) is looked for where it was put.
THEOREM HeaderRoundTrip ==
  ASSUME NEW fin \in BOOLEAN, NEW opcode \in Opcodes, NEW mask \in BOOLEAN, NEW n \in Lengths
  PROVE  LET bytes == EncodeHeader(fin, opcode, mask, n)
             got == DecodeHeader(bytes)
         IN /\ got.fin <=> fin
            /\ got.opcode = opcode
            /\ got.mask <=> mask
            /\ got.length = n
            /\ got.headerLen = Len(bytes) + (IF mask THEN 4 ELSE 0)
<1> DEFINE bytes == EncodeHeader(fin, opcode, mask, n)
           e == EightBytes(n)
<1>1. opcode \in 0..127 /\ opcode \in 0..15 /\ n \in Nat
  BY DEF Opcodes, Lengths
<1>2. /\ Flagged(fin, opcode) \in 0..255 /\ (Flagged(fin, opcode) >= 128 <=> fin)
      /\ Flagged(fin, opcode) % 16 = opcode
  <2>1. CASE fin
    BY <1>1, <2>1 DEF Flagged
  <2>2. CASE ~fin
    BY <1>1, <2>2 DEF Flagged
  <2>3. QED
    BY <2>1, <2>2
<1>3. CASE n < 126
  <2>1. bytes = <<Flagged(fin, opcode), Flagged(mask, n)>>
    BY <1>3 DEF EncodeHeader
  <2>2. n \in 0..127
    BY <1>1, <1>3
  <2>3. Len(bytes) = 2 /\ bytes[1] = Flagged(fin, opcode) /\ bytes[2] % 128 = n /\ (bytes[2] >= 128 <=> mask)
    <3>1. Flagged(mask, n) % 128 = n /\ (Flagged(mask, n) >= 128 <=> mask)
      <4>1. n \in 0..127  BY <2>2
      <4>2. QED  BY <4>1, FlaggedParts, ZenonT(60)
    <3>2. QED  BY <2>1, <3>1
  <2>4. PayloadLen(bytes) = n /\ LengthKnownAt(bytes) = 2
    BY <1>1, <1>3, <2>3 DEF PayloadLen, LengthKnownAt
  <2>5. QED
    BY <1>2, <2>3, <2>4 DEF DecodeHeader
<1>4. CASE n >= 126 /\ n <= 65535
  <2>1. bytes = <<Flagged(fin, opcode), Flagged(mask, 126), Low(High(n)), Low(n)>>
    BY <1>1, <1>4 DEF EncodeHeader
  <2>2. Len(bytes) = 4 /\ bytes[1] = Flagged(fin, opcode) /\ bytes[2] % 128 = 126 /\ (bytes[2] >= 128 <=> mask)
        /\ bytes[3] = Low(High(n)) /\ bytes[4] = Low(n)
    <3>1. Flagged(mask, 126) % 128 = 126 /\ (Flagged(mask, 126) >= 128 <=> mask)
      BY LengthMarks, SMTT(40)
    <3>2. QED  BY <2>1, <3>1
  <2>3. Low(High(n)) = High(n)
    BY <1>1, <1>4 DEF Low, High
  <2>4. PayloadLen(bytes) = n /\ LengthKnownAt(bytes) = 4
    BY <1>1, <2>2, <2>3, LowHigh DEF PayloadLen, LengthKnownAt
  <2>5. QED
    BY <1>2, <2>2, <2>4 DEF DecodeHeader
<1>5. CASE n > 65535
  <2>1. bytes = <<Flagged(fin, opcode), Flagged(mask, 127), e[1], e[2], e[3], e[4], e[5], e[6], e[7], e[8]>>
    BY <1>1, <1>5 DEF EncodeHeader
  <2>2. Len(bytes) = 10 /\ bytes[1] = Flagged(fin, opcode) /\ bytes[2] % 128 = 127 /\ (bytes[2] >= 128 <=> mask)
    <3>1. Flagged(mask, 127) % 128 = 127 /\ (Flagged(mask, 127) >= 128 <=> mask)
      BY LengthMarks, SMTT(40)
    <3>2. QED  BY <2>1, <3>1
  <2>3. bytes[3] = e[1] /\ bytes[4] = e[2] /\ bytes[5] = e[3] /\ bytes[6] = e[4] /\ bytes[7] = e[5] /\ bytes[8] = e[6]
        /\ bytes[9] = e[7] /\ bytes[10] = e[8]
    BY <2>1
  <2>4. PayloadLen(bytes) = n
    BY <2>2, <2>3, EightBytesJoin DEF PayloadLen
  <2>5. LengthKnownAt(bytes) = 10
    BY <2>2 DEF LengthKnownAt
  <2>6. QED
    BY <1>2, <2>2, <2>4, <2>5 DEF DecodeHeader
<1>6. QED
  BY <1>1, <1>3, <1>4, <1>5

\* Wherever TCP cuts a header, what has arrived of it is never taken for a
\* whole one: channelRead() keeps it and waits.
THEOREM CutHeaderWaits ==
  ASSUME NEW fin \in BOOLEAN, NEW opcode \in Opcodes, NEW mask \in BOOLEAN, NEW n \in Lengths,
         NEW k \in 1..Len(EncodeHeader(fin, opcode, mask, n)) - 1
  PROVE  LET part == SubSeq(EncodeHeader(fin, opcode, mask, n), 1, k)
         IN Len(part) < LengthKnownAt(part)
<1> DEFINE bytes == EncodeHeader(fin, opcode, mask, n)
           e == EightBytes(n)
           part == SubSeq(bytes, 1, k)
<1>1. n \in Nat
  BY DEF Lengths
<1>2. CASE n < 126
  <2>1. bytes = <<Flagged(fin, opcode), Flagged(mask, n)>>
    BY <1>2 DEF EncodeHeader
  <2>2. k = 1 /\ Len(part) = 1
    BY <2>1
  <2>3. QED
    BY <2>2 DEF LengthKnownAt
<1>3. CASE n >= 126 /\ n <= 65535
  <2>1. bytes = <<Flagged(fin, opcode), Flagged(mask, 126), Low(High(n)), Low(n)>>
    BY <1>1, <1>3 DEF EncodeHeader
  <2>2. k \in 1..3 /\ Len(part) = k /\ (k >= 2 => part[2] = Flagged(mask, 126))
    BY <2>1
  <2> HIDE DEF part, bytes
  <2>3. Flagged(mask, 126) % 128 = 126
    BY LengthMarks, SMTT(40)
  <2>4. Len(part) < LengthKnownAt(part)
    BY <2>2, <2>3 DEF LengthKnownAt
  <2>5. QED
    BY <2>4 DEF part, bytes
<1>4. CASE n > 65535
  <2>1. bytes = <<Flagged(fin, opcode), Flagged(mask, 127), e[1], e[2], e[3], e[4], e[5], e[6], e[7], e[8]>>
    BY <1>1, <1>4 DEF EncodeHeader
  <2>2. k \in 1..9 /\ Len(part) = k /\ (k >= 2 => part[2] = Flagged(mask, 127))
    BY <2>1
  <2> HIDE DEF part, bytes
  <2>3. Flagged(mask, 127) % 128 = 127
    BY LengthMarks, SMTT(40)
  <2>4. Len(part) < LengthKnownAt(part)
    BY <2>2, <2>3 DEF LengthKnownAt
  <2>5. QED
    BY <2>4 DEF part, bytes
<1>5. QED
  BY <1>1, <1>2, <1>3, <1>4

---------------------------------------------------------------------------
(* SslHandler *)

\* Min() of a set of numbers is its least element.
LEMMA MinOf ==
  ASSUME NEW T \in SUBSET Nat, T # {}
  PROVE  Min(T) \in T /\ \A y \in T : Min(T) <= y
  <1>1. PICK x \in T : \A y \in T : x <= y  BY LeastOf
  <1>2. QED  BY <1>1 DEF Min

\* The records that have to do with the handshake: the client sends data only
\* after its "finished".
DataLate == \A i \in DOMAIN sent : sent[i] = "data" => \E j \in 1..i - 1 : sent[j] = "finished"

\* Where the handshake stands when the first n records were taken: it is
\* under way, or record h ended it and what came since was handed on.
UnderWay(n) == plain = <<>> /\ \A i \in 1..n : sent[i] \notin {"finished", "bad"}
EndedBy(h, n) ==
  /\ sent[h] = "finished" /\ \A i \in 1..h - 1 : sent[i] # "finished"
  /\ \A i \in h + 1..n : sent[i] = "data"
  /\ plain = Whole(h, n)

TlsInv ==
  /\ TlsTypeOK /\ Len(sent) <= MaxRecords /\ DataLate
  /\ ~closed => /\ used = received \div 2
                /\ ~handshakeDone => UnderWay(used)
                /\ handshakeDone => \E h \in 1..used : EndedBy(h, used)

LEMMA TlsInvInit == TlsInit => TlsInv
  <1> SUFFICES ASSUME TlsInit PROVE TlsInv  OBVIOUS
  <1>1. TlsTypeOK
    <2>1. <<>> \in Seq(ClientRecords) /\ <<>> \in Seq(ServerRecords) /\ <<>> \in Seq(1..MaxRecords) /\ Len(<<>>) = 0
      OBVIOUS
    <2>2. MaxRecords \in Nat /\ MaxWrites \in Nat  BY TlsBoundsAssumption
    <2>3. 0 \in 0..2 * Len(sent) /\ 0 \in 0..Len(sent) /\ 0 \in 0..MaxWrites
      BY <2>1, <2>2 DEF TlsInit
    <2>4. QED  BY <2>1, <2>3 DEF TlsInit, TlsTypeOK
  <1>2. 0 \div 2 = 0  OBVIOUS
  <1>3. Len(sent) <= MaxRecords /\ DataLate
    BY TlsBoundsAssumption DEF TlsInit, DataLate
  <1>4. QED  BY <1>1, <1>2, <1>3 DEF TlsInit, TlsInv, UnderWay

\* Another record at the end changes nothing before it.
LEMMA ClientSendKeeps ==
  ASSUME TlsInv, NEW r \in ClientRecords, ClientSend(r)
  PROVE  TlsInv'
  <1>1. /\ sent \in Seq(ClientRecords) /\ Len(sent) \in Nat /\ Len(sent) < MaxRecords /\ MaxRecords \in Nat
        /\ sent' = Append(sent, r) /\ ClientSays(r)
        /\ UNCHANGED <<context, version, received, used, ssl, handshakeDone, outBio, wire, plain, writes, closed>>
    BY TlsBoundsAssumption DEF TlsInv, TlsTypeOK, ClientSend
  <1>2. /\ sent' \in Seq(ClientRecords) /\ Len(sent') = Len(sent) + 1
        /\ \A i \in 1..Len(sent) : sent'[i] = sent[i]
        /\ sent'[Len(sent) + 1] = r
    BY <1>1
  <1>3. TlsTypeOK'
    BY <1>1, <1>2 DEF TlsInv, TlsTypeOK
  <1>4. DataLate'
    <2> SUFFICES ASSUME NEW i \in DOMAIN sent', sent'[i] = "data"
                 PROVE  \E j \in 1..i - 1 : sent'[j] = "finished"
      BY DEF DataLate
    <2>1. i \in 1..Len(sent) + 1  BY <1>2
    <2>2. CASE i <= Len(sent)
      <3>1. i \in 1..Len(sent) /\ sent[i] = "data"  BY <2>1, <2>2, <1>1, <1>2
      <3>2. PICK j \in 1..i - 1 : sent[j] = "finished"  BY <3>1, <1>1 DEF TlsInv, DataLate
      <3>3. j \in 1..Len(sent)  BY <3>1, <3>2, <1>1
      <3>4. QED  BY <3>2, <3>3, <1>2
    <2>3. CASE i = Len(sent) + 1
      <3>1. r = "data"  BY <2>3, <1>2
      <3>2. "finished" \in Range(sent)  BY <3>1, <1>1 DEF ClientSays, ClientReady
      <3>3. PICK j \in 1..Len(sent) : sent[j] = "finished"  BY <3>2, <1>1 DEF Range
      <3>4. QED  BY <2>3, <3>3, <1>1, <1>2
    <2>4. QED  BY <2>1, <2>2, <2>3, <1>1
  <1>5. used \in 0..Len(sent) /\ \A i \in 1..used : sent'[i] = sent[i]
    BY <1>1, <1>2 DEF TlsInv, TlsTypeOK
  <1>6. UnderWay(used) => UnderWay(used)'
    BY <1>1, <1>5 DEF UnderWay
  <1>7. ASSUME NEW h \in 1..used, EndedBy(h, used) PROVE EndedBy(h, used)'
    <2>1. (1..h - 1) \subseteq 1..used /\ (h + 1..used) \subseteq 1..used /\ h \in 1..used
      BY <1>5
    <2>2. QED  BY <1>1, <1>5, <1>7, <2>1 DEF EndedBy, Whole
  <1>8. Len(sent') <= MaxRecords  BY <1>1, <1>2
  <1>9. QED  BY <1>1, <1>3, <1>4, <1>6, <1>7, <1>8 DEF TlsInv

\* f is what the equations f[0] = base and f[i] = step[i][f[i - 1]] define.
Solves(f, n, base, step) == f[0] = base /\ \A i \in 1..n : f[i] = step[i][f[i - 1]]

\* A recursive definition over 0..n whose steps stay in T has a solution.
LEMMA RecExists ==
  ASSUME NEW T, NEW base \in T, NEW n \in Nat, NEW step \in [1..n -> [T -> T]]
  PROVE  \E f \in [0..n -> T] : Solves(f, n, base, step)
  <1> USE DEF Solves
  <1> DEFINE Bad == {k \in 0..n : ~ \E f \in [0..k -> T] : Solves(f, k, base, step)}
  <1>1. SUFFICES Bad = {}
    <2>1. n \in 0..n  OBVIOUS
    <2>2. QED  BY <1>1, <2>1
  <1>2. SUFFICES ASSUME Bad # {} PROVE FALSE  OBVIOUS
  <1>7. Bad \in SUBSET Nat  OBVIOUS
  <1>3. PICK k \in Bad : \A y \in Bad : k <= y  BY <1>2, <1>7, LeastOf
  <1>4. CASE k = 0
    <2> DEFINE f == [i \in 0..0 |-> base]
    <2>1. f \in [0..0 -> T] /\ Solves(f, 0, base, step)  OBVIOUS
    <2>2. QED  BY <2>1, <1>3, <1>4
  <1>5. CASE k # 0
    <2>1. k \in 1..n /\ k - 1 \in 0..n /\ ~(k <= k - 1)  BY <1>3, <1>5
    <2>2. k - 1 \notin Bad  BY <2>1, <1>3
    <2>3. PICK f \in [0..k - 1 -> T] : Solves(f, k - 1, base, step)  BY <2>1, <2>2
    <2> DEFINE g == [i \in 0..k |-> IF i = k THEN step[k][f[k - 1]] ELSE f[i]]
    <2>4. f[k - 1] \in T  BY <2>1, <2>3
    <2>5. step[k][f[k - 1]] \in T  BY <2>1, <2>4
    <2>6. \A i \in 0..k : i # k => i \in 0..k - 1  BY <2>1
    <2>7. g \in [0..k -> T]  BY <2>3, <2>5, <2>6
    <2>8. \A i \in 0..k - 1 : g[i] = f[i]  BY <2>1
    <2>9. g[k] = step[k][f[k - 1]]  BY <2>1
    <2> HIDE DEF g
    <2>10. g[0] = base  BY <2>1, <2>3, <2>8
    <2>11. ASSUME NEW i \in 1..k PROVE g[i] = step[i][g[i - 1]]
      <3>1. g[i - 1] = f[i - 1]  BY <2>1, <2>8
      <3>2. CASE i = k  BY <3>1, <3>2, <2>9
      <3>3. CASE i # k
        <4>1. i \in 1..k - 1  BY <3>3, <2>1
        <4>2. QED  BY <4>1, <3>1, <2>1, <2>3, <2>8
      <3>4. QED  BY <3>2, <3>3
    <2>12. Solves(g, k, base, step)  BY <2>10, <2>11
    <2>13. QED  BY <2>7, <2>12, <1>3
  <1>6. QED  BY <1>4, <1>5

\* FlattenSeq() of sequences over A is one.
LEMMA FlattenType ==
  ASSUME NEW A, NEW s \in Seq(Seq(A))
  PROVE  FlattenSeq(s) \in Seq(A)
  <1>1. CASE Len(s) = 0
    <2>1. s = <<>>  BY <1>1
    <2>2. QED  BY <1>1, <2>1 DEF FlattenSeq
  <1>2. CASE Len(s) # 0
    <2> DEFINE n == Len(s)
               Is(f) == f = [i \in 1..n |-> IF i = 1 THEN s[i] ELSE f[i - 1] \o s[i]]
               step == [i \in 1..n |-> [x \in Seq(A) |-> x \o s[i]]]
    <2>1. n \in Nat \ {0} /\ \A i \in 1..n : s[i] \in Seq(A)  BY <1>2
    <2>2. step \in [1..n -> [Seq(A) -> Seq(A)]]  BY <2>1
    <2>3. \A x \in Seq(A), i \in 1..n : step[i][x] = x \o s[i]  OBVIOUS
    <2> HIDE DEF n, step
    <2>4. <<>> \in Seq(A)  OBVIOUS
    <2>5. PICK f \in [0..n -> Seq(A)] : Solves(f, n, <<>>, step)
      <3>1. n \in Nat  BY <2>1
      <3>2. QED  BY <3>1, <2>2, <2>4, RecExists, Zenon
    <2>6. ASSUME NEW i \in 1..n PROVE f[i - 1] \in Seq(A) /\ f[i] = f[i - 1] \o s[i]
      <3>1. i - 1 \in 0..n  BY <2>1
      <3>2. f[i - 1] \in Seq(A)  BY <3>1, <2>5
      <3>3. QED  BY <3>2, <2>3, <2>5 DEF Solves
    <2>7. f[1] = s[1]
      <3>1. 1 \in 1..n /\ 1 - 1 = 0  BY <2>1
      <3>2. f[1] = <<>> \o s[1] /\ s[1] \in Seq(A)  BY <3>1, <2>1, <2>5, <2>6 DEF Solves
      <3>3. QED  BY <3>2
    <2> DEFINE g == [i \in 1..n |-> f[i]]
    <2>8. Is(g)
      <3>1. ASSUME NEW i \in 1..n PROVE g[i] = IF i = 1 THEN s[i] ELSE g[i - 1] \o s[i]
        <4>1. i # 1 => i - 1 \in 1..n  BY <2>1
        <4>2. QED  BY <4>1, <2>6, <2>7
      <3>2. QED  BY <3>1
    <2> DEFINE c == CHOOSE x : Is(x)
    <2>9. Is(c)  BY <2>8
    <2> HIDE DEF c, g
    <2>10. \A i \in 1..n : c[i] = IF i = 1 THEN s[i] ELSE c[i - 1] \o s[i]  BY <2>9
    <2> HIDE DEF Is
    <2> DEFINE Bad == {i \in 1..n : c[i] \notin Seq(A)}
    <2>11. Bad = {}
      <3>1. SUFFICES ASSUME Bad # {} PROVE FALSE  OBVIOUS
      <3>2. Bad \in SUBSET Nat  OBVIOUS
      <3>3. PICK k \in Bad : \A y \in Bad : k <= y  BY <3>1, <3>2, LeastOf
      <3>4. k # 1  BY <3>3, <2>10, <2>1
      <3>5. k - 1 \in 1..n /\ ~(k <= k - 1)  BY <3>3, <3>4, <2>1
      <3>6. c[k - 1] \in Seq(A)  BY <3>3, <3>5
      <3>7. c[k] = c[k - 1] \o s[k] /\ s[k] \in Seq(A)  BY <3>3, <3>4, <2>10, <2>1
      <3>8. c[k] \in Seq(A)  BY <3>6, <3>7
      <3>9. QED  BY <3>3, <3>8
    <2>12. c[n] \in Seq(A)
      <3>1. n \in 1..n  BY <2>1
      <3>2. QED  BY <3>1, <2>11
    <2>13. FlattenSeq(s) = c[n]  BY <1>2, Zenon DEF FlattenSeq, c, Is, n
    <2>14. QED  BY <2>12, <2>13
  <1>3. QED  BY <1>1, <1>2

\* What the library makes of handshake records are records of the server.
LEMMA FlightsType ==
  ASSUME NEW a \in Nat, NEW b \in Nat, TlsTypeOK
  PROVE  FlattenSeq([i \in 1..b - a |-> IF sent[a + i] = "bad" THEN <<>> ELSE Flight(sent[a + i])]) \in Seq(ServerRecords)
  <1> DEFINE s == [i \in 1..b - a |-> IF sent[a + i] = "bad" THEN <<>> ELSE Flight(sent[a + i])]
  <1>1. <<>> \in Seq(ServerRecords) /\ <<"flight">> \in Seq(ServerRecords)
        /\ <<"ticket">> \in Seq(ServerRecords) /\ <<"finished">> \in Seq(ServerRecords)
    BY DEF ServerRecords
  <1>2. \A r : Flight(r) \in Seq(ServerRecords)
    BY <1>1, Zenon DEF Flight
  <1>3. \A i \in 1..b - a : s[i] \in Seq(ServerRecords)  BY <1>1, <1>2
  <1>4. s \in Seq(Seq(ServerRecords))
    <2>1. CASE a <= b
      <3>1. b - a \in Nat  BY <2>1
      <3>2. QED  BY <3>1, <1>3
    <2>2. CASE b < a
      <3>1. 1..b - a = 1..0  BY <2>2
      <3>2. s = [i \in 1..0 |-> <<>>]  BY <3>1
      <3>3. QED  BY <3>2
    <2>3. QED  BY <2>1, <2>2
  <1> HIDE DEF s
  <1>5. FlattenSeq(s) \in Seq(ServerRecords)  BY <1>4, FlattenType
  <1>6. QED  BY <1>5 DEF s

\* DataBefore() stops at the first record that is no data.
LEMMA DataBeforeStops ==
  ASSUME NEW last \in Nat, NEW from \in 0..last
  PROVE  /\ DataBefore(last, from) \in from..last
         /\ \A i \in from + 1..DataBefore(last, from) : sent[i] = "data"
         /\ DataBefore(last, from) < last => sent[DataBefore(last, from) + 1] # "data"
  <1> DEFINE stops == {i \in from + 1..last : sent[i] # "data"}
  <1>1. CASE stops = {}
    <2>1. DataBefore(last, from) = last  BY <1>1 DEF DataBefore
    <2>2. QED  BY <1>1, <2>1
  <1>2. CASE stops # {}
    <2>1. stops \in SUBSET Nat  OBVIOUS
    <2>2. Min(stops) \in stops /\ \A y \in stops : Min(stops) <= y  BY <1>2, <2>1, MinOf
    <2>3. DataBefore(last, from) = Min(stops) - 1  BY <1>2 DEF DataBefore
    <2> DEFINE d == DataBefore(last, from)
    <2>4. d + 1 \in from + 1..last /\ sent[d + 1] # "data" /\ d \in Int
      BY <2>2, <2>3
    <2>5. ASSUME NEW i \in from + 1..d PROVE sent[i] = "data"
      <3>1. i \in from + 1..last /\ ~(Min(stops) <= i)  BY <2>2, <2>3
      <3>2. QED  BY <3>1, <2>2
    <2> HIDE DEF d
    <2>6. d \in from..last  BY <2>4
    <2>7. QED  BY <2>4, <2>5, <2>6 DEF d
  <1>3. QED  BY <1>1, <1>2

\* The records behind n, and those behind m, are those behind n.
LEMMA WholeConcat ==
  ASSUME NEW n \in Nat, NEW m \in Nat, NEW last \in Nat, n <= m, m <= last
  PROVE  Whole(n, m) \o Whole(m, last) = Whole(n, last)
  <1>1. /\ Whole(n, m) \in Seq(Nat) /\ Len(Whole(n, m)) = m - n
        /\ Whole(m, last) \in Seq(Nat) /\ Len(Whole(m, last)) = last - m
        /\ Whole(n, last) \in Seq(Nat) /\ Len(Whole(n, last)) = last - n
    <2>1. m - n \in Nat /\ last - m \in Nat /\ last - n \in Nat  OBVIOUS
    <2>2. QED  BY <2>1 DEF Whole
  <1>2. /\ \A i \in 1..m - n : Whole(n, m)[i] = n + i
        /\ \A i \in 1..last - m : Whole(m, last)[i] = m + i
        /\ \A i \in 1..last - n : Whole(n, last)[i] = n + i
    BY DEF Whole
  <1> DEFINE a == Whole(n, m)
             b == Whole(m, last)
             c == Whole(n, last)
             u == a \o b
  <1> HIDE DEF a, b, c
  <1>7. a \in Seq(Nat) /\ b \in Seq(Nat) /\ Len(a) = m - n /\ Len(b) = last - m  BY <1>1 DEF a, b
  <1>3. /\ u \in Seq(Nat) /\ Len(u) = Len(a) + Len(b)
        /\ \A i \in 1..Len(a) + Len(b) : u[i] = IF i <= Len(a) THEN a[i] ELSE b[i - Len(a)]
    BY <1>7, ConcatProperties, Zenon
  <1>4. ASSUME NEW i \in 1..Len(u) PROVE u[i] = c[i]
    <2>1. i \in 1..last - n /\ i \in 1..Len(a) + Len(b)  BY <1>7, <1>3
    <2>2. CASE i <= m - n
      <3>1. u[i] = a[i]  BY <2>1, <2>2, <1>7, <1>3
      <3>2. i \in 1..m - n  BY <2>1, <2>2
      <3>3. a[i] = n + i /\ c[i] = n + i  BY <3>2, <2>1, <1>2 DEF a, c
      <3>4. QED  BY <3>1, <3>3
    <2>3. CASE i > m - n
      <3>1. u[i] = b[i - (m - n)]  BY <2>1, <2>3, <1>7, <1>3, SMTT(60)
      <3>2. i - (m - n) \in 1..last - m  BY <2>1, <2>3
      <3>3. b[i - (m - n)] = m + (i - (m - n))  BY <3>2, <1>2 DEF b
      <3>4. m + (i - (m - n)) = n + i  BY <2>1
      <3>5. c[i] = n + i  BY <2>1, <1>2 DEF c
      <3>6. QED  BY <3>1, <3>3, <3>4, <3>5
    <2>4. QED  BY <2>1, <2>2, <2>3
  <1> HIDE DEF u
  <1>5. Len(u) = Len(c) /\ c \in Seq(Nat)  BY <1>1, <1>7, <1>3 DEF c
  <1>6. u = c  BY <1>3, <1>4, <1>5, SeqEqual
  <1>8. QED  BY <1>6 DEF a, b, c, u

\* Whole() lists records of the client.
LEMMA WholeType ==
  ASSUME NEW n \in Nat, NEW last \in Nat, n <= last, last <= MaxRecords
  PROVE  Whole(n, last) \in Seq(1..MaxRecords)
  <1>1. last - n \in Nat /\ MaxRecords \in Nat  BY TlsBoundsAssumption
  <1>2. \A i \in 1..last - n : n + i \in 1..MaxRecords  BY <1>1
  <1>3. QED  BY <1>1, <1>2 DEF Whole

\* One segment: what it carries of the handshake is taken to its end, and the
\* data behind it to the last whole record.
LEMMA ChannelReadKeeps ==
  ASSUME TlsInv, NEW n \in 1..MaxPieces, ChannelRead(n)
  PROVE  TlsInv'
  <1> DEFINE last == (received + n) \div 2
             stop == {i \in used + 1..last : sent[i] \in {"finished", "bad"}}
             hs == IF handshakeDone \/ stop = {} THEN last ELSE Min(stop)
             done == handshakeDone \/ (stop # {} /\ sent[hs] = "finished")
             failed == ~handshakeDone /\ stop # {} /\ sent[hs] = "bad"
             flights == IF handshakeDone THEN <<>>
                        ELSE FlattenSeq([i \in 1..hs - used |-> IF sent[used + i] = "bad" THEN <<>> ELSE Flight(sent[used + i])])
             from == IF handshakeDone THEN used ELSE hs
             upto == DataBefore(last, from)
             ended == done /\ upto < last /\ sent[upto + 1] # "data"
             out == outBio \o flights
  <1>1. /\ ~closed /\ n > 0 /\ received + n <= 2 * Len(sent)
        /\ received' = received + n /\ ssl' = TRUE
        /\ handshakeDone' = done
        /\ UNCHANGED <<context, version, sent, writes>>
    BY Zenon DEF ChannelRead
  <1>2. /\ ~done => /\ used' = hs /\ wire' = wire \o out /\ outBio' = <<>> /\ plain' = plain
                    /\ closed' = IF failed THEN TRUE ELSE closed
        /\ done /\ ended => /\ used' = upto + 1 /\ closed' = TRUE /\ plain' = plain
                            /\ \/ wire' = wire \o Append(out, "notify") /\ outBio' = <<>>
                               \/ outBio' = out /\ wire' = wire
        /\ done /\ ~ended => /\ used' = upto /\ closed' = FALSE
                             /\ outBio' = out /\ wire' = wire
                             /\ plain' = plain \o Whole(from, upto)
    BY Zenon DEF ChannelRead, FlushEncrypted, HandleError
  <1>3. /\ sent \in Seq(ClientRecords) /\ Len(sent) \in Nat /\ Len(sent) <= MaxRecords /\ MaxRecords \in Nat
        /\ DOMAIN sent = 1..Len(sent)
        /\ received \in Nat /\ used \in Nat /\ n \in Nat /\ used = received \div 2
        /\ handshakeDone \in BOOLEAN /\ closed \in BOOLEAN
        /\ outBio \in Seq(ServerRecords) /\ wire \in Seq(ServerRecords) /\ plain \in Seq(1..MaxRecords)
    BY <1>1, TlsBoundsAssumption DEF TlsInv, TlsTypeOK
  <1>4. last \in Nat /\ used <= last /\ last <= Len(sent)
    BY <1>1, <1>3
  <1>5. stop # {} => Min(stop) \in stop /\ \A y \in stop : Min(stop) <= y
    <2>1. stop \in SUBSET Nat  BY <1>3, <1>4
    <2>2. QED  BY <2>1, MinOf
  <1>6. flights \in Seq(ServerRecords)
    <2>1. hs \in Nat  BY <1>3, <1>4, <1>5
    <2>2. <<>> \in Seq(ServerRecords) /\ TlsTypeOK  BY DEF TlsInv
    <2> HIDE DEF hs
    <2>3. QED  BY <2>1, <2>2, <1>3, FlightsType
  <1> HIDE DEF last, flights
  <1>7. hs \in used..last /\ from \in 0..last /\ from \in used..last
    BY <1>3, <1>4, <1>5
  <1> HIDE DEF from
  <1>8. /\ upto \in from..last /\ (\A i \in from + 1..upto : sent[i] = "data")
        /\ (upto < last => sent[upto + 1] # "data")
    BY <1>4, <1>7, DataBeforeStops
  <1> HIDE DEF upto
  <1>9. done /\ ~ended => upto = last  BY <1>4, <1>7, <1>8
  <1>10. received' \div 2 = last  BY <1>1 DEF last
  <1>11. out \in Seq(ServerRecords) /\ Append(out, "notify") \in Seq(ServerRecords)
    <2>1. "notify" \in ServerRecords  BY DEF ServerRecords
    <2> HIDE DEF out
    <2>2. out \in Seq(ServerRecords)  BY <1>3, <1>6 DEF out
    <2>3. QED  BY <2>1, <2>2
  <1> HIDE DEF out
  <1>12. done \in BOOLEAN /\ ended \in BOOLEAN  BY <1>3
  <1>17. ASSUME used' \in 0..Len(sent), closed' \in BOOLEAN, outBio' \in Seq(ServerRecords),
                wire' \in Seq(ServerRecords), plain' \in Seq(1..MaxRecords)
         PROVE  TlsTypeOK'
    <2>1. received' \in 0..2 * Len(sent)  BY <1>1, <1>3
    <2>2. handshakeDone' \in BOOLEAN /\ ssl' \in BOOLEAN  BY <1>1, <1>12
    <2>3. QED  BY <2>1, <2>2, <1>1, <1>17 DEF TlsInv, TlsTypeOK
  <1>18. Len(sent') <= MaxRecords /\ DataLate'  BY <1>1, <1>3 DEF TlsInv, DataLate
  <1>13. CASE ~done
    <2>1. /\ used' = hs /\ wire' = wire \o out /\ outBio' = <<>> /\ plain' = plain
          /\ closed' \in BOOLEAN
      BY <1>2, <1>3, <1>13
    <2>2. wire' \in Seq(ServerRecords) /\ outBio' \in Seq(ServerRecords)  BY <2>1, <1>3, <1>11
    <2>3. used' \in 0..Len(sent)  BY <2>1, <1>3, <1>4, <1>7
    <2>4. TlsTypeOK'
      <3>1. plain' \in Seq(1..MaxRecords) /\ closed' \in BOOLEAN  BY <2>1, <1>3, Zenon
      <3>2. QED  BY <3>1, <2>2, <2>3, <1>17, Zenon
    <2>5. ~closed' => stop = {} /\ ~handshakeDone /\ hs = last
      <3>1. CASE stop # {}
        <4>1. hs \in stop /\ ~handshakeDone  BY <3>1, <1>5, <1>13
        <4>2. failed  BY <3>1, <4>1, <1>13
        <4>3. QED  BY <4>2, <1>2, <1>13
      <3>2. QED  BY <3>1, <1>13
    <2>6. ~closed' => used' = last /\ UnderWay(used)'
      <3>1. SUFFICES ASSUME ~closed' PROVE used' = last /\ UnderWay(used)'  OBVIOUS
      <3>2. UnderWay(used)  BY <3>1, <2>5, <1>1 DEF TlsInv
      <3>3. \A i \in 1..last : sent[i] \notin {"finished", "bad"}
        <4>1. \A i \in 1..last : i \in 1..used \/ i \in used + 1..last  BY <1>3, <1>4
        <4>2. QED  BY <4>1, <3>1, <2>5, <3>2 DEF UnderWay
      <3>4. QED  BY <3>1, <3>2, <3>3, <2>1, <2>5, <1>1 DEF UnderWay
    <2>7. ~handshakeDone'  BY <1>1, <1>13
    <2>8. QED  BY <2>4, <2>6, <2>7, <1>10, <1>18 DEF TlsInv
  <1>14. CASE done /\ ended
    <2>1. /\ used' = upto + 1 /\ closed' = TRUE /\ plain' = plain
          /\ \/ wire' = wire \o Append(out, "notify") /\ outBio' = <<>>
             \/ outBio' = out /\ wire' = wire
      BY <1>2, <1>14
    <2>2. wire' \in Seq(ServerRecords) /\ outBio' \in Seq(ServerRecords)
      <3>1. wire \o Append(out, "notify") \in Seq(ServerRecords)  BY <1>3, <1>11, ConcatProperties
      <3>2. <<>> \in Seq(ServerRecords)  OBVIOUS
      <3>3. QED  BY <3>1, <3>2, <2>1, <1>3, <1>11, Zenon
    <2>3. used' \in 0..Len(sent)  BY <2>1, <1>3, <1>4, <1>7, <1>8, <1>14
    <2>4. TlsTypeOK'  BY <2>1, <2>2, <2>3, <1>3, <1>17
    <2>5. QED  BY <2>1, <2>4, <1>18 DEF TlsInv
  <1>15. CASE done /\ ~ended
    <2>1. /\ used' = upto /\ closed' = FALSE /\ outBio' = out /\ wire' = wire
          /\ plain' = plain \o Whole(from, upto) /\ upto = last
      BY <1>2, <1>9, <1>15
    <2>2. used' \in 0..Len(sent)  BY <2>1, <1>4
    <2>3. \E h \in 1..last : /\ sent[h] = "finished" /\ (\A i \in 1..h - 1 : sent[i] # "finished")
                             /\ (\A i \in h + 1..last : sent[i] = "data")
                             /\ plain' = Whole(h, last)
      <3>1. CASE handshakeDone
        <4>1. PICK h \in 1..used : EndedBy(h, used)  BY <3>1, <1>1 DEF TlsInv
        <4>2. from = used /\ h \in Nat /\ h \in 1..last /\ h <= used  BY <3>1, <4>1, <1>3, <1>4 DEF from
        <4>3. plain' = Whole(h, last)
          <5>1. plain' = Whole(h, used) \o Whole(used, last)  BY <2>1, <4>1, <4>2 DEF EndedBy
          <5>2. QED  BY <5>1, <4>2, <1>3, <1>4, WholeConcat
        <4>4. \A i \in h + 1..last : sent[i] = "data"
          <5>1. \A i \in h + 1..last : i \in h + 1..used \/ i \in used + 1..last  BY <4>2, <1>3, <1>4
          <5>2. QED  BY <5>1, <4>1, <4>2, <2>1, <1>8 DEF EndedBy
        <4>5. QED  BY <4>1, <4>2, <4>3, <4>4 DEF EndedBy
      <3>2. CASE ~handshakeDone
        <4>1. stop # {} /\ sent[hs] = "finished" /\ hs = Min(stop) /\ from = hs  BY <3>2, <1>15 DEF from
        <4>2. hs \in stop /\ \A y \in stop : hs <= y  BY <4>1, <1>5
        <4>3. UnderWay(used)  BY <3>2, <1>1 DEF TlsInv
        <4>4. hs \in 1..last  BY <4>2, <1>3, <1>4
        <4>5. ASSUME NEW i \in 1..hs - 1 PROVE sent[i] # "finished"
          <5>1. i \in 1..used \/ (i \in used + 1..last /\ ~(hs <= i))  BY <4>4, <1>3, <1>4
          <5>2. QED  BY <5>1, <4>2, <4>3 DEF UnderWay
        <4>6. \A i \in hs + 1..last : sent[i] = "data"  BY <4>1, <2>1, <1>8
        <4>7. plain' = Whole(hs, last)
          <5>1. plain' = <<>> \o Whole(hs, last)  BY <4>1, <4>3, <2>1 DEF UnderWay
          <5>2. Whole(hs, last) \in Seq(1..MaxRecords)  
            <6>1. hs \in Nat /\ hs <= last /\ last <= MaxRecords  BY <4>4, <1>3, <1>4
            <6> HIDE DEF hs
            <6>2. QED  BY <6>1, <1>4, WholeType
          <5> HIDE DEF hs
          <5>3. QED  BY <5>1, <5>2, ConcatEmptySeq
        <4> HIDE DEF hs
        <4>8. QED  BY <4>1, <4>4, <4>5, <4>6, <4>7
      <3>3. QED  BY <3>1, <3>2, <1>3
    <2>4. plain' \in Seq(1..MaxRecords)
      <3>1. PICK h \in 1..last : plain' = Whole(h, last)  BY <2>3
      <3>2. h \in Nat /\ h <= last /\ last <= MaxRecords  BY <1>3, <1>4
      <3>3. QED  BY <3>1, <3>2, <1>4, WholeType
    <2>5. TlsTypeOK'  BY <2>1, <2>2, <2>4, <1>3, <1>11, <1>17
    <2>6. \E h \in 1..used' : EndedBy(h, used)'  BY <2>1, <2>3, <1>1 DEF EndedBy
    <2>7. handshakeDone'  BY <1>1, <1>15
    <2>8. used' = received' \div 2  BY <2>1, <1>10
    <2>9. QED  BY <2>5, <2>6, <2>7, <2>8, <1>18 DEF TlsInv
  <1>16. QED  BY <1>12, <1>13, <1>14, <1>15

\* Neither does any other step disturb it.
LEMMA TlsInvNext == TlsInv /\ [TlsNext]_tlsVars => TlsInv'
  <1> SUFFICES ASSUME TlsInv, [TlsNext]_tlsVars PROVE TlsInv'  OBVIOUS
  <1>1. ASSUME NEW cert \in BOOLEAN, NEW key \in BOOLEAN, NEW fit \in BOOLEAN, ForServer(cert, key, fit) PROVE TlsInv'
    <2>1. context' \in {"none", "ready", "failed"}  BY <1>1 DEF ForServer, InitCtx
    <2>2. UNCHANGED <<version, sent, received, used, ssl, handshakeDone, outBio, wire, plain, writes, closed>>
      BY <1>1 DEF ForServer
    <2>3. TlsTypeOK'  BY <2>1, <2>2 DEF TlsInv, TlsTypeOK
    <2>4. QED  BY <2>2, <2>3 DEF TlsInv, DataLate, UnderWay, EndedBy, Whole
  <1>2. ASSUME NEW r \in ClientRecords, ClientSend(r) PROVE TlsInv'  BY <1>2, ClientSendKeeps
  <1>3. CASE SetupFails
    <2>1. /\ closed' = TRUE
          /\ UNCHANGED <<context, version, sent, received, used, ssl, handshakeDone, outBio, wire, plain, writes>>
      BY <1>3 DEF SetupFails
    <2>2. TlsTypeOK'  BY <2>1 DEF TlsInv, TlsTypeOK
    <2>3. QED  BY <2>1, <2>2 DEF TlsInv, DataLate
  <1>4. ASSUME NEW n \in 1..MaxPieces, ChannelRead(n) PROVE TlsInv'  BY <1>4, ChannelReadKeeps
  <1>5. ASSUME NEW isByteBuf \in BOOLEAN, NEW ok \in BOOLEAN, Write(isByteBuf, ok) PROVE TlsInv'
    <2>1. /\ UNCHANGED <<context, version, sent, received, used, ssl, handshakeDone, plain>>
          /\ closed' \in BOOLEAN /\ ~closed /\ writes < MaxWrites
          /\ \/ wire' = wire /\ outBio' = outBio /\ writes' = writes
             \/ wire' = wire \o Append(outBio, "data") /\ outBio' = <<>> /\ writes' = writes + 1
      BY <1>5 DEF Write, FlushEncrypted, HandleError, TlsInv, TlsTypeOK
    <2>2. wire' \in Seq(ServerRecords) /\ outBio' \in Seq(ServerRecords) /\ writes' \in 0..MaxWrites
      <3>1. "data" \in ServerRecords  BY DEF ServerRecords
      <3>2. wire \in Seq(ServerRecords) /\ outBio \in Seq(ServerRecords) /\ writes \in 0..MaxWrites /\ MaxWrites \in Nat
        BY TlsBoundsAssumption DEF TlsInv, TlsTypeOK
      <3>3. Append(outBio, "data") \in Seq(ServerRecords)  BY <3>1, <3>2
      <3>4. wire \o Append(outBio, "data") \in Seq(ServerRecords)  BY <3>2, <3>3, ConcatProperties
      <3>5. <<>> \in Seq(ServerRecords) /\ (writes < MaxWrites => writes + 1 \in 0..MaxWrites)  BY <3>2
      <3>6. QED  BY <2>1, <3>2, <3>4, <3>5, Zenon
    <2>3. TlsTypeOK'  BY <2>1, <2>2 DEF TlsInv, TlsTypeOK
    <2>4. QED  BY <2>1, <2>3 DEF TlsInv, DataLate, UnderWay, EndedBy, Whole
  <1>6. CASE UNCHANGED tlsVars
    BY <1>6 DEF tlsVars, TlsInv, TlsTypeOK, DataLate, UnderWay, EndedBy, Whole
  <1>7. QED  BY <1>1, <1>2, <1>3, <1>4, <1>5, <1>6, Zenon DEF TlsNext

\* From the invariant: what was handed on is exactly the data that is whole.
LEMMA TlsInvComplete == TlsInv => PlaintextComplete
  <1> SUFFICES ASSUME TlsInv, ~closed
               PROVE  /\ Range(plain) = {i \in 1..received \div 2 : sent[i] = "data"}
                      /\ \A i, j \in DOMAIN plain : i < j => plain[i] < plain[j]
    BY DEF PlaintextComplete
  <1>1. /\ used = received \div 2 /\ used \in Nat /\ used \in 0..Len(sent) /\ DOMAIN sent = 1..Len(sent)
        /\ Len(sent) \in Nat /\ handshakeDone \in BOOLEAN
    BY DEF TlsInv, TlsTypeOK
  <1>2. ASSUME NEW i \in 1..used, sent[i] = "data"
        PROVE  \E j \in 1..i - 1 : sent[j] = "finished"
    <2>1. i \in DOMAIN sent  BY <1>1
    <2>2. QED  BY <1>2, <2>1 DEF TlsInv, DataLate
  <1>3. CASE ~handshakeDone
    <2>1. UnderWay(used)  BY <1>3 DEF TlsInv
    <2>2. plain = <<>> /\ DOMAIN plain = {} /\ Range(plain) = {}  BY <2>1 DEF UnderWay, Range
    <2>3. ASSUME NEW i \in 1..used, sent[i] = "data" PROVE FALSE
      <3>1. PICK j \in 1..i - 1 : sent[j] = "finished"  BY <2>3, <1>2
      <3>2. j \in 1..used  BY <1>1
      <3>3. QED  BY <3>1, <3>2, <2>1 DEF UnderWay
    <2>4. QED  BY <2>2, <2>3, <1>1
  <1>4. CASE handshakeDone
    <2>1. PICK h \in 1..used : EndedBy(h, used)  BY <1>4 DEF TlsInv
    <2>2. plain = [i \in 1..used - h |-> h + i]  BY <2>1 DEF EndedBy, Whole
    <2>3. DOMAIN plain = 1..used - h /\ \A i \in 1..used - h : plain[i] = h + i  BY <2>2
    <2>4. h \in Nat /\ used \in Nat  BY <1>1
    <2>5. \A i, j \in DOMAIN plain : i < j => plain[i] < plain[j]  BY <2>3, <2>4
    <2>6. ASSUME NEW x \in Range(plain) PROVE x \in 1..used /\ sent[x] = "data"
      <3>1. PICK i \in 1..used - h : x = h + i  BY <2>3 DEF Range
      <3>2. x \in h + 1..used /\ x \in 1..used  BY <3>1, <2>4
      <3>3. QED  BY <3>2, <2>1 DEF EndedBy
    <2>7. ASSUME NEW x \in 1..used, sent[x] = "data" PROVE x \in Range(plain)
      <3>1. PICK j \in 1..x - 1 : sent[j] = "finished"  BY <2>7, <1>2
      <3>2. ~(j \in 1..h - 1) /\ sent[h] # "data"  BY <3>1, <2>1 DEF EndedBy
      <3>3. x - h \in 1..used - h /\ h + (x - h) = x  BY <3>1, <3>2, <2>4
      <3>4. QED  BY <3>3, <2>3 DEF Range
    <2>8. QED  BY <2>5, <2>6, <2>7, <1>1
  <1>5. QED  BY <1>1, <1>3, <1>4

\* SslHandler keeps its state within its types.
THEOREM TlsTypeCorrect == TlsSpec => []TlsTypeOK
  <1>1. TlsInv => TlsTypeOK  BY DEF TlsInv
  <1>2. QED  BY <1>1, TlsInvInit, TlsInvNext, PTL DEF TlsSpec

\* channelRead() hands on every whole data record, once and in order, however
\* TCP cuts the stream and whichever kind of handshake came before.
THEOREM TlsPlaintextComplete == TlsSpec => []PlaintextComplete
  <1>1. QED  BY TlsInvInit, TlsInvNext, TlsInvComplete, PTL DEF TlsSpec
============================================================================
