--------------------------- MODULE ByteBuf_proofs ---------------------------
(***************************************************************************)
(* Proofs about ByteBuf: whatever the sizes, the byte values and the       *)
(* number of buffers, what a buffer has to read is what a queue would hold.*)
(*                                                                         *)
(* ReadableIsQueue looks at the cells between the two indices.  It is not  *)
(* inductive: setReaderIndex() goes back over cells that were read, slice()*)
(* and the copies take them along, and a cut buffer goes on living.  The   *)
(* invariant Holds therefore speaks of every cell below writerIndex_, and  *)
(* of the number of bytes also in a buffer that trim() has cut.            *)
(*                                                                         *)
(* The last section is about TokenBucket: what tryConsume() promises holds *)
(* when only one thread calls it, whatever the rate and the size.          *)
(***************************************************************************)
EXTENDS ByteBuf, TokenBucket, SequenceTheorems, TLAPS

Cells == Bytes \cup {Junk}
Buffer == [mem : Seq(Cells), r : Nat, w : Nat]

\* The indices are in order and within the storage, every cell below
\* writerIndex_ was written, and q has as many bytes as are readable: the
\* readable ones, unless trim() took others.
Holds(x, q, c) ==
  /\ x.r <= x.w /\ x.w <= Len(x.mem)
  /\ \A j \in 1..x.w : x.mem[j] \in Bytes
  /\ Len(q) = x.w - x.r
  /\ ~c => \A j \in 1..Len(q) : q[j] = x.mem[x.r + j]

Good(x, q, c) ==
  /\ x \in Buffer /\ q \in Seq(Bytes) /\ c \in BOOLEAN
  /\ Holds(x, q, c)

BufInv ==
  /\ TypeOK
  /\ \A b \in Bufs : Holds(buf[b], queue[b], cut[b])

---------------------------------------------------------------------------
(* Sequences of cells *)

\* Position j behind the first l = w - r of l + n places, counted from w
\* instead of r.
LEMMA Shifted ==
  \A r, w, l, n \in Nat : \A j \in 1..l + n :
    l = w - r /\ j > l => j - l \in 1..n /\ w + (j - l) = r + j
  OBVIOUS

\* A function on 1..n with values in S is a sequence of length n.
LEMMA SeqOf ==
  ASSUME NEW S, NEW n \in Nat, NEW f \in [1..n -> S]
  PROVE  f \in Seq(S) /\ Len(f) = n
  OBVIOUS

\* SubSeq() within a sequence: its length and its elements.
LEMMA SubSeqOf ==
  ASSUME NEW S, NEW s \in Seq(S), NEW a \in Nat, NEW z \in Nat, z <= Len(s)
  PROVE  /\ SubSeq(s, a + 1, z) \in Seq(S)
         /\ Len(SubSeq(s, a + 1, z)) = IF a < z THEN z - a ELSE 0
         /\ \A j \in 1..Len(SubSeq(s, a + 1, z)) : SubSeq(s, a + 1, z)[j] = s[a + j]
  <1> DEFINE t == SubSeq(s, a + 1, z)
  <1>1. \A i \in a + 1..z : s[i] \in S
    OBVIOUS
  <1>2. a + 1 \in Int /\ z \in Int
    OBVIOUS
  <1>3. /\ t \in Seq(S)
        /\ Len(t) = IF a + 1 <= z THEN z - (a + 1) + 1 ELSE 0
        /\ \A i \in 1..z - (a + 1) + 1 : t[i] = s[a + 1 + i - 1]
    BY <1>1, <1>2, SubSeqProperties
  <1> HIDE DEF t
  <1>4. Len(t) = IF a < z THEN z - a ELSE 0
    BY <1>3
  <1>5. \A j \in 1..Len(t) : j \in 1..z - (a + 1) + 1 /\ a + 1 + j - 1 = a + j
    BY <1>4
  <1>6. QED  BY <1>3, <1>4, <1>5 DEF t

\* m is mem with s behind position p: the cells of s changed, and no other.
IsPut(m, mem, p, s) ==
  /\ m \in Seq(Cells) /\ Len(m) = Len(mem)
  /\ \A j \in 1..Len(mem) : (j <= p \/ j > p + Len(s)) => m[j] = mem[j]
  /\ \A j \in 1..Len(s) : p + j <= Len(mem) => m[p + j] = s[j]

\* Put() does that.
LEMMA PutCells ==
  ASSUME NEW mem \in Seq(Cells), NEW i \in Nat, NEW p \in Nat, i = p + 1, NEW s \in Seq(Cells)
  PROVE  IsPut(Put(mem, i, s), mem, p, s)
  <1> DEFINE f == [j \in 1..Len(mem) |-> IF j \in i..i + Len(s) - 1 THEN s[j - i + 1] ELSE mem[j]]
  <1>1. Put(mem, i, s) = f  BY DEF Put
  <1>2. f \in [1..Len(mem) -> Cells]  OBVIOUS
  <1>3. Len(mem) \in Nat  OBVIOUS
  <1>4. f \in Seq(Cells) /\ Len(f) = Len(mem)  BY <1>2, <1>3, SeqOf
  <1>5. \A j \in 1..Len(mem) : (j <= p \/ j > p + Len(s)) => f[j] = mem[j]
    OBVIOUS
  <1>6. ASSUME NEW j \in 1..Len(s), p + j <= Len(mem)
        PROVE  f[p + j] = s[j]
    <2>1. p + j \in 1..Len(mem) /\ p + j \in i..i + Len(s) - 1 /\ p + j - i + 1 = j
      BY <1>6
    <2>2. QED  BY <2>1
  <1> HIDE DEF f
  <1>7. QED  BY <1>1, <1>4, <1>5, <1>6 DEF IsPut

\* realloc() to n cells keeps what fits, and the rest is Junk.
LEMMA ReallocCells ==
  ASSUME NEW mem \in Seq(Cells), NEW n \in Nat
  PROVE  /\ Realloc(mem, n) \in Seq(Cells)
         /\ Len(Realloc(mem, n)) = n
         /\ \A j \in 1..n : j <= Len(mem) => Realloc(mem, n)[j] = mem[j]
  <1>1. Realloc(mem, n) \in [1..n -> Cells]  BY DEF Realloc, Cells
  <1>2. Realloc(mem, n) \in Seq(Cells) /\ Len(Realloc(mem, n)) = n  BY <1>1, SeqOf
  <1>3. QED  BY <1>2 DEF Realloc

\* Fresh storage.
LEMMA StorageCells ==
  ASSUME NEW n \in Nat
  PROVE  Storage(n) \in Seq(Cells) /\ Len(Storage(n)) = n
  <1>1. Storage(n) \in [1..n -> Cells]  BY DEF Storage, Cells
  <1>2. QED  BY <1>1, SeqOf

\* The data a call hands over.
LEMMA DataBytes == \A s \in Data : s \in Seq(Bytes) /\ s \in Seq(Cells) /\ Len(s) \in Nat
  BY SizesAssumption DEF Data, Cells

\* A piece of what was written is made of bytes.
LEMMA WrittenBytes ==
  ASSUME NEW mem \in Seq(Cells), NEW w \in Nat, w <= Len(mem),
         \A j \in 1..w : mem[j] \in Bytes,
         NEW a \in Nat, NEW z \in Nat, z <= w
  PROVE  /\ SubSeq(mem, a + 1, z) \in Seq(Bytes)
         /\ SubSeq(mem, a + 1, z) \in Seq(Cells)
         /\ Len(SubSeq(mem, a + 1, z)) = IF a < z THEN z - a ELSE 0
         /\ \A j \in 1..Len(SubSeq(mem, a + 1, z)) : SubSeq(mem, a + 1, z)[j] = mem[a + j]
  <1> DEFINE t == SubSeq(mem, a + 1, z)
  <1>1. /\ t \in Seq(Cells)
        /\ Len(t) = IF a < z THEN z - a ELSE 0
        /\ \A j \in 1..Len(t) : t[j] = mem[a + j]
    BY SubSeqOf
  <1>2. \A j \in 1..Len(t) : t[j] \in Bytes
    BY <1>1
  <1> HIDE DEF t
  <1>3. t \in Seq(Bytes)
    <2>1. t \in [1..Len(t) -> Bytes] /\ Len(t) \in Nat  BY <1>1, <1>2
    <2>2. QED  BY <2>1, SeqOf
  <1>4. QED  BY <1>1, <1>3 DEF t

---------------------------------------------------------------------------
(* One buffer through one operation *)

\* The buffer with storage m and the indices i and k.
IsBuffer(y, m, i, k) == y \in Buffer /\ y.mem = m /\ y.r = i /\ y.w = k

\* A buffer with other storage.
LEMMA NewStorage ==
  ASSUME NEW x \in Buffer, NEW m \in Seq(Cells)
  PROVE  IsBuffer([x EXCEPT !.mem = m], m, x.r, x.w)
  BY DEF Buffer, IsBuffer

\* A buffer with another reader index.
LEMMA NewReader ==
  ASSUME NEW x \in Buffer, NEW i \in Nat
  PROVE  IsBuffer([x EXCEPT !.r = i], x.mem, i, x.w)
  BY DEF Buffer, IsBuffer

\* A buffer with other indices.
LEMMA NewIndices ==
  ASSUME NEW x \in Buffer, NEW i \in Nat, NEW k \in Nat
  PROVE  IsBuffer([x EXCEPT !.r = i, !.w = k], x.mem, i, k)
  BY DEF Buffer, IsBuffer

\* A buffer with other storage and another writer index.
LEMMA NewWriter ==
  ASSUME NEW x \in Buffer, NEW m \in Seq(Cells), NEW k \in Nat
  PROVE  IsBuffer([x EXCEPT !.mem = m, !.w = k], m, x.r, k)
  BY DEF Buffer, IsBuffer

\* A buffer with everything replaced.
LEMMA NewAll ==
  ASSUME NEW x \in Buffer, NEW m \in Seq(Cells), NEW i \in Nat, NEW k \in Nat
  PROVE  IsBuffer([x EXCEPT !.mem = m, !.r = i, !.w = k], m, i, k)
  BY DEF Buffer, IsBuffer

\* A new buffer of n cells.
LEMMA GoodAllocate ==
  ASSUME NEW n \in Nat
  PROVE  Good([mem |-> Storage(n), r |-> 0, w |-> 0], <<>>, FALSE)
  BY StorageCells DEF Good, Holds, Buffer

\* A moved-from buffer.
LEMMA GoodEmpty == Good([mem |-> <<>>, r |-> 0, w |-> 0], <<>>, FALSE)
  BY DEF Good, Holds, Buffer

\* A buffer made of bytes.
LEMMA GoodWrap ==
  ASSUME NEW s \in Seq(Bytes)
  PROVE  Good([mem |-> s, r |-> 0, w |-> Len(s)], s, FALSE)
  <1>1. s \in Seq(Cells)  BY DEF Cells
  <1>2. QED  BY <1>1 DEF Good, Holds, Buffer

\* reserve() and expand() to no fewer cells than were written.
LEMMA GoodExpand ==
  ASSUME NEW x, NEW q, NEW c, Good(x, q, c), NEW n \in Nat, n >= x.w
  PROVE  Good(Expand(x, n), q, c) /\ Expand(x, n).w = x.w /\ Len(Expand(x, n).mem) = n
  <1> DEFINE y == Expand(x, n)
  <1>1. x \in Buffer /\ x.mem \in Seq(Cells) /\ x.r \in Nat /\ x.w \in Nat
    BY DEF Good, Buffer
  <1>m. /\ Realloc(x.mem, n) \in Seq(Cells)
        /\ Len(Realloc(x.mem, n)) = n
        /\ \A j \in 1..n : j <= Len(x.mem) => Realloc(x.mem, n)[j] = x.mem[j]
    BY <1>1, ReallocCells
  <1>y. IsBuffer(y, Realloc(x.mem, n), x.r, x.w)
    BY <1>1, <1>m, NewStorage, Zenon DEF Expand
  <1> HIDE DEF y
  <1>2. y \in Buffer /\ y.mem = Realloc(x.mem, n) /\ y.r = x.r /\ y.w = x.w
    BY <1>y DEF IsBuffer
  <1>3. /\ Len(y.mem) = n
        /\ \A j \in 1..n : j <= Len(x.mem) => y.mem[j] = x.mem[j]
    BY <1>m, <1>2
  <1>h. /\ x.r <= x.w /\ x.w <= Len(x.mem)
        /\ \A j \in 1..x.w : x.mem[j] \in Bytes
        /\ Len(q) = x.w - x.r
        /\ ~c => \A j \in 1..Len(q) : q[j] = x.mem[x.r + j]
    BY DEF Good, Holds
  <1>k. \A j \in 1..x.w : y.mem[j] = x.mem[j]
    BY <1>1, <1>3, <1>h
  <1>q. ASSUME ~c, NEW j \in 1..Len(q)
        PROVE  q[j] = y.mem[y.r + j]
    <2>1. x.r + j \in 1..x.w  BY <1>1, <1>h
    <2>2. QED  BY <2>1, <1>q, <1>h, <1>k, <1>2
  <1>4. Holds(y, q, c)
    <2>1. \A j \in 1..y.w : y.mem[j] \in Bytes  BY <1>h, <1>k, <1>2
    <2>2. y.r <= y.w /\ y.w <= Len(y.mem) /\ Len(q) = y.w - y.r  BY <1>h, <1>2, <1>3
    <2>3. QED  BY <2>1, <2>2, <1>q DEF Holds
  <1>5. Good(y, q, c)  BY <1>2, <1>4 DEF Good
  <1>6. QED  BY <1>5, <1>2, <1>3 DEF y

\* Bytes appended behind writerIndex_ where there is room for them.
LEMMA GoodAppend ==
  ASSUME NEW x, NEW q, NEW c, Good(x, q, c), NEW s \in Seq(Bytes), x.w + Len(s) <= Len(x.mem)
  PROVE  Good([x EXCEPT !.mem = Put(x.mem, x.w + 1, s), !.w = @ + Len(s)], q \o s, c)
  <1> DEFINE y == [x EXCEPT !.mem = Put(x.mem, x.w + 1, s), !.w = @ + Len(s)]
  <1> DEFINE m == Put(x.mem, x.w + 1, s)
  <1>1. x \in Buffer /\ x.mem \in Seq(Cells) /\ x.r \in Nat /\ x.w \in Nat /\ q \in Seq(Bytes)
    BY DEF Good, Buffer
  <1>2. s \in Seq(Cells) /\ Len(s) \in Nat  BY DEF Cells
  <1>3. IsPut(m, x.mem, x.w, s)
    <2>1. x.w + 1 \in Nat  BY <1>1
    <2>2. QED  BY <2>1, <1>1, <1>2, PutCells, Zenon
  <1>y. IsBuffer(y, m, x.r, x.w + Len(s))
    <2>1. x.w + Len(s) \in Nat  BY <1>1, <1>2
    <2>2. m \in Seq(Cells)  BY <1>3, Zenon DEF IsPut
    <2>3. QED  BY <2>1, <2>2, <1>1, NewWriter, Zenon
  <1> HIDE DEF y, m
  <1>4. y \in Buffer /\ y.mem = m /\ y.r = x.r /\ y.w = x.w + Len(s)
    BY <1>y DEF IsBuffer
  <1>5. /\ Len(y.mem) = Len(x.mem)
        /\ \A j \in 1..x.w : y.mem[j] = x.mem[j]
        /\ \A j \in 1..Len(s) : y.mem[x.w + j] = s[j]
    <2>1. x.w <= Len(x.mem) /\ Len(x.mem) \in Nat  BY <1>1 DEF Good, Holds
    <2>2. \A j \in 1..x.w : j \in 1..Len(x.mem) /\ j <= x.w
      BY <1>1, <2>1
    <2>3. \A j \in 1..Len(s) : x.w + j <= Len(x.mem)
      BY <1>1, <1>2, <2>1
    <2>4. /\ Len(m) = Len(x.mem)
          /\ \A j \in 1..Len(x.mem) : (j <= x.w \/ j > x.w + Len(s)) => m[j] = x.mem[j]
          /\ \A j \in 1..Len(s) : x.w + j <= Len(x.mem) => m[x.w + j] = s[j]
      BY <1>3 DEF IsPut
    <2>5. \A j \in 1..x.w : m[j] = x.mem[j]
      BY <2>2, <2>4, Zenon
    <2>6. \A j \in 1..Len(s) : m[x.w + j] = s[j]
      BY <2>3, <2>4, Zenon
    <2>7. QED  BY <1>4, <2>4, <2>5, <2>6
  <1> DEFINE u == q \o s
  <1>6. /\ u \in Seq(Bytes) /\ Len(u) = Len(q) + Len(s)
        /\ \A j \in 1..Len(q) + Len(s) : u[j] = IF j <= Len(q) THEN q[j] ELSE s[j - Len(q)]
    BY <1>1
  <1> HIDE DEF u
  <1>7. x.r <= x.w /\ x.w <= Len(x.mem) /\ Len(q) = x.w - x.r
    BY DEF Good, Holds
  <1>8. \A j \in 1..y.w : y.mem[j] \in Bytes
    <2> TAKE j \in 1..y.w
    <2>1. CASE j <= x.w
      BY <2>1, <1>1, <1>5 DEF Good, Holds
    <2>2. CASE j > x.w
      <3>1. j - x.w \in 1..Len(s) /\ x.w + (j - x.w) = j  BY <2>2, <1>1, <1>2, <1>4
      <3>2. y.mem[j] = s[j - x.w]  BY <3>1, <1>5
      <3>3. QED  BY <3>1, <3>2
    <2>3. QED  BY <2>1, <2>2, <1>1, <1>4, <1>2
  <1>9. ASSUME ~c, NEW j \in 1..Len(u)
        PROVE  u[j] = y.mem[y.r + j]
    <2>1. CASE j <= Len(q)
      <3>1. q[j] = x.mem[x.r + j]  BY <1>9, <2>1, <1>1, <1>6 DEF Good, Holds
      <3>2. x.r + j \in 1..x.w  BY <2>1, <1>1, <1>7, <1>6
      <3>3. QED  BY <3>1, <3>2, <2>1, <1>4, <1>5, <1>6
    <2>2. CASE j > Len(q)
      <3>1. j - Len(q) \in 1..Len(s) /\ x.w + (j - Len(q)) = x.r + j
        <4>1. Len(q) \in Nat /\ j \in 1..Len(q) + Len(s)  BY <1>1, <1>6
        <4>2. x.r \in Nat /\ x.w \in Nat /\ Len(s) \in Nat /\ Len(q) = x.w - x.r  BY <1>1, <1>2, <1>7
        <4>3. QED  BY <4>1, <4>2, <2>2, Shifted, SMTT(40)
      <3>2. y.mem[x.r + j] = s[j - Len(q)]  BY <3>1, <1>5
      <3>3. QED  BY <3>2, <2>2, <1>4, <1>6
    <2>3. QED  BY <2>1, <2>2, <1>1, <1>6
  <1>10. y.r <= y.w /\ y.w <= Len(y.mem) /\ Len(u) = y.w - y.r
    BY <1>1, <1>2, <1>4, <1>5, <1>6, <1>7
  <1>11. Holds(y, u, c)  BY <1>8, <1>9, <1>10 DEF Holds
  <1>12. Good(y, u, c)  BY <1>4, <1>6, <1>11 DEF Good
  <1>13. QED  BY <1>12 DEF y, u

\* The reader index moves on over n readable bytes, which leave the queue.
LEMMA GoodRead ==
  ASSUME NEW x, NEW q, NEW c, Good(x, q, c), NEW n \in Nat, n <= x.w - x.r,
         NEW k \in Nat, k = n \/ (k >= n /\ n = x.w - x.r)
  PROVE  Good([x EXCEPT !.r = @ + n], SubSeq(q, k + 1, Len(q)), c)
  <1> DEFINE y == [x EXCEPT !.r = @ + n]
             t == SubSeq(q, k + 1, Len(q))
  <1>1. /\ x \in Buffer /\ x.mem \in Seq(Cells) /\ x.r \in Nat /\ x.w \in Nat
        /\ q \in Seq(Bytes) /\ Len(q) \in Nat /\ c \in BOOLEAN
    BY DEF Good, Buffer
  <1>2. IsBuffer(y, x.mem, x.r + n, x.w)
    <2>1. x.r + n \in Nat  BY <1>1
    <2>2. QED  BY <2>1, <1>1, NewReader, Zenon
  <1>3. /\ t \in Seq(Bytes)
        /\ Len(t) = IF k < Len(q) THEN Len(q) - k ELSE 0
        /\ \A j \in 1..Len(t) : t[j] = q[k + j]
    <2>1. Len(q) <= Len(q)  BY <1>1
    <2>2. QED  BY <2>1, <1>1, SubSeqOf
  <1> HIDE DEF y, t
  <1>4. y \in Buffer /\ y.mem = x.mem /\ y.r = x.r + n /\ y.w = x.w
    BY <1>2 DEF IsBuffer
  <1>5. /\ x.r <= x.w /\ x.w <= Len(x.mem) /\ Len(q) = x.w - x.r
        /\ \A j \in 1..x.w : x.mem[j] \in Bytes
        /\ ~c => \A j \in 1..Len(q) : q[j] = x.mem[x.r + j]
    BY DEF Good, Holds
  <1>6. Len(t) = y.w - y.r
    BY <1>1, <1>3, <1>4, <1>5
  <1>7. ASSUME ~c, NEW j \in 1..Len(t)
        PROVE  t[j] = y.mem[y.r + j]
    <2>1. k + j \in 1..Len(q) /\ k = n  BY <1>1, <1>3, <1>5
    <2>2. q[k + j] = x.mem[x.r + (k + j)]  BY <2>1, <1>7, <1>5
    <2>3. x.r + (k + j) = y.r + j  BY <2>1, <1>1, <1>4
    <2>4. QED  BY <2>2, <2>3, <1>3, <1>4
  <1>8. y.r <= y.w /\ y.w <= Len(y.mem) /\ \A j \in 1..y.w : y.mem[j] \in Bytes
    BY <1>1, <1>4, <1>5
  <1>9. Good(y, t, c)  BY <1>1, <1>3, <1>4, <1>6, <1>7, <1>8 DEF Good, Holds
  <1>10. QED  BY <1>9 DEF y, t

\* The reader index goes back to i, and the bytes above i join the queue.
LEMMA GoodRewind ==
  ASSUME NEW x, NEW q, NEW c, Good(x, q, c), NEW i \in Nat, i <= x.r
  PROVE  Good([x EXCEPT !.r = i], SubSeq(x.mem, i + 1, x.r) \o q, c)
  <1> DEFINE y == [x EXCEPT !.r = i]
             t == SubSeq(x.mem, i + 1, x.r)
  <1>1. /\ x \in Buffer /\ x.mem \in Seq(Cells) /\ x.r \in Nat /\ x.w \in Nat
        /\ q \in Seq(Bytes) /\ Len(q) \in Nat /\ c \in BOOLEAN
    BY DEF Good, Buffer
  <1>2. IsBuffer(y, x.mem, i, x.w)
    BY <1>1, NewReader, Zenon
  <1>5. /\ x.r <= x.w /\ x.w <= Len(x.mem) /\ Len(q) = x.w - x.r
        /\ \A j \in 1..x.w : x.mem[j] \in Bytes
        /\ ~c => \A j \in 1..Len(q) : q[j] = x.mem[x.r + j]
    BY DEF Good, Holds
  <1>3. /\ t \in Seq(Bytes)
        /\ Len(t) = IF i < x.r THEN x.r - i ELSE 0
        /\ \A j \in 1..Len(t) : t[j] = x.mem[i + j]
    BY <1>1, <1>5, WrittenBytes
  <1> HIDE DEF y, t
  <1>4. y \in Buffer /\ y.mem = x.mem /\ y.r = i /\ y.w = x.w
    BY <1>2 DEF IsBuffer
  <1> DEFINE u == t \o q
  <1>6. /\ u \in Seq(Bytes) /\ Len(u) = Len(t) + Len(q) /\ Len(t) = x.r - i
        /\ \A j \in 1..Len(t) + Len(q) : u[j] = IF j <= Len(t) THEN t[j] ELSE q[j - Len(t)]
    <2>1. Len(t) = x.r - i  BY <1>1, <1>3
    <2>2. QED  BY <2>1, <1>1, <1>3, ConcatProperties
  <1> HIDE DEF u
  <1>7. ASSUME ~c, NEW j \in 1..Len(u)
        PROVE  u[j] = y.mem[y.r + j]
    <2>1. CASE j <= Len(t)
      <3>1. j \in 1..Len(t)  BY <2>1, <1>1, <1>6
      <3>2. QED  BY <3>1, <2>1, <1>3, <1>4, <1>6
    <2>2. CASE j > Len(t)
      <3>1. j - Len(t) \in 1..Len(q) /\ x.r + (j - Len(t)) = i + j
        <4>1. Len(t) \in Nat /\ j \in 1..Len(t) + Len(q)  BY <1>3, <1>6
        <4>2. x.r \in Nat /\ Len(q) \in Nat /\ Len(t) = x.r - i  BY <1>1, <1>6
        <4>3. QED  BY <4>1, <4>2, <2>2, Shifted, SMTT(40)
      <3>2. q[j - Len(t)] = x.mem[i + j]  BY <3>1, <1>7, <1>5
      <3>3. QED  BY <3>2, <2>2, <1>4, <1>6
    <2>3. QED  BY <2>1, <2>2, <1>1, <1>6, SMTT(40)
  <1>8. /\ y.r <= y.w /\ y.w <= Len(y.mem) /\ Len(u) = y.w - y.r
        /\ \A j \in 1..y.w : y.mem[j] \in Bytes
    BY <1>1, <1>4, <1>5, <1>6, SMTT(40)
  <1>9. Good(y, u, c)  BY <1>1, <1>4, <1>6, <1>7, <1>8 DEF Good, Holds
  <1>10. QED  BY <1>9 DEF y, t, u

\* clear().
LEMMA GoodClear ==
  ASSUME NEW x \in Buffer
  PROVE  Good([x EXCEPT !.r = 0, !.w = 0], <<>>, FALSE)
  <1> DEFINE y == [x EXCEPT !.r = 0, !.w = 0]
  <1>1. 0 \in Nat  OBVIOUS
  <1>2. IsBuffer(y, x.mem, 0, 0)  BY <1>1, NewIndices, Zenon
  <1> HIDE DEF y
  <1>3. y \in Buffer /\ y.mem = x.mem /\ y.r = 0 /\ y.w = 0  BY <1>2 DEF IsBuffer
  <1>4. x.mem \in Seq(Cells)  BY DEF Buffer
  <1>5. Good(y, <<>>, FALSE)  BY <1>3, <1>4 DEF Good, Holds
  <1>6. QED  BY <1>5 DEF y

\* What a copy has: new storage with the written cells in front.
LEMMA GoodCopy ==
  ASSUME NEW x, NEW q, NEW c, Good(x, q, c)
  PROVE  Good([x EXCEPT !.mem = Put(Storage(Capacity(x)), 1, SubSeq(x.mem, 1, x.w))], q, c)
  <1> DEFINE t == SubSeq(x.mem, 1, x.w)
             m == Put(Storage(Len(x.mem)), 1, t)
             y == [x EXCEPT !.mem = m]
  <1>1. /\ x \in Buffer /\ x.mem \in Seq(Cells) /\ x.r \in Nat /\ x.w \in Nat
        /\ q \in Seq(Bytes) /\ Len(q) \in Nat /\ c \in BOOLEAN /\ Len(x.mem) \in Nat
    BY DEF Good, Buffer
  <1>2. /\ x.r <= x.w /\ x.w <= Len(x.mem) /\ Len(q) = x.w - x.r
        /\ \A j \in 1..x.w : x.mem[j] \in Bytes
        /\ ~c => \A j \in 1..Len(q) : q[j] = x.mem[x.r + j]
    BY DEF Good, Holds
  <1>3. /\ t \in Seq(Cells) /\ Len(t) = x.w
        /\ \A j \in 1..x.w : t[j] = x.mem[j]
    <2>0. x.mem \in Seq(Cells) /\ 0 \in Nat /\ x.w \in Nat /\ x.w <= Len(x.mem)  BY <1>1, <1>2
    <2>1. 0 \in Nat /\ 0 + 1 = 1  OBVIOUS
    <2>2. /\ SubSeq(x.mem, 0 + 1, x.w) \in Seq(Cells)
          /\ Len(SubSeq(x.mem, 0 + 1, x.w)) = IF 0 < x.w THEN x.w - 0 ELSE 0
          /\ \A j \in 1..Len(SubSeq(x.mem, 0 + 1, x.w)) : SubSeq(x.mem, 0 + 1, x.w)[j] = x.mem[0 + j]
      BY <2>0, SubSeqOf, Zenon
    <2>3. /\ t \in Seq(Cells)
          /\ Len(t) = IF 0 < x.w THEN x.w - 0 ELSE 0
          /\ \A j \in 1..Len(t) : t[j] = x.mem[0 + j]
      BY <2>1, <2>2, Zenon
    <2> HIDE DEF t
    <2>4. Len(t) = x.w  BY <2>3, <1>1
    <2>5. QED  BY <2>3, <2>4
  <1>4. Storage(Len(x.mem)) \in Seq(Cells) /\ Len(Storage(Len(x.mem))) = Len(x.mem)
    BY <1>1, StorageCells, Zenon
  <1>5. IsPut(m, Storage(Len(x.mem)), 0, t)
    <2>1. 1 \in Nat /\ 0 \in Nat /\ 1 = 0 + 1  OBVIOUS
    <2>2. QED  BY <2>1, <1>3, <1>4, PutCells, Zenon
  <1>6. m \in Seq(Cells)  BY <1>5, Zenon DEF IsPut
  <1>7. IsBuffer(y, m, x.r, x.w)  BY <1>1, <1>6, NewStorage, Zenon
  <1>z. y = [x EXCEPT !.mem = Put(Storage(Capacity(x)), 1, SubSeq(x.mem, 1, x.w))]
    BY Zenon DEF Capacity
  <1> HIDE DEF y, m, t
  <1>8. y \in Buffer /\ y.mem = m /\ y.r = x.r /\ y.w = x.w  BY <1>7 DEF IsBuffer
  <1>9. /\ Len(m) = Len(x.mem)
        /\ \A j \in 1..x.w : m[j] = x.mem[j]
    <2>1. \A j \in 1..x.w : j \in 1..Len(t) /\ 0 + j <= Len(x.mem) /\ 0 + j = j
      BY <1>1, <1>2, <1>3
    <2>2. /\ Len(m) = Len(x.mem)
          /\ \A j \in 1..Len(t) : 0 + j <= Len(x.mem) => m[0 + j] = t[j]
      BY <1>4, <1>5 DEF IsPut
    <2>3. QED  BY <2>1, <2>2, <1>3
  <1>10. ASSUME ~c, NEW j \in 1..Len(q)
         PROVE  q[j] = y.mem[y.r + j]
    <2>1. x.r + j \in 1..x.w  BY <1>1, <1>2
    <2>2. q[j] = x.mem[x.r + j]  BY <1>10, <1>2
    <2>3. QED  BY <2>1, <2>2, <1>8, <1>9
  <1>11. \A j \in 1..y.w : y.mem[j] \in Bytes  BY <1>2, <1>8, <1>9
  <1>12. y.r <= y.w /\ y.w <= Len(y.mem) /\ Len(q) = y.w - y.r  BY <1>2, <1>8, <1>9
  <1>13. Good(y, q, c)  BY <1>1, <1>8, <1>10, <1>11, <1>12 DEF Good, Holds
  <1>14. QED  BY <1>13, <1>z, Zenon

\* slice(): n written bytes from position i, in a buffer of their own.
LEMMA GoodSlice ==
  ASSUME NEW x, NEW q, NEW c, Good(x, q, c), NEW i \in Nat, NEW n \in Nat, i + n <= x.w
  PROVE  LET s == SubSeq(x.mem, i + 1, i + n) IN Good([mem |-> s, r |-> 0, w |-> n], s, FALSE)
  <1> DEFINE s == SubSeq(x.mem, i + 1, i + n)
  <1>1. x.mem \in Seq(Cells) /\ x.w \in Nat /\ x.w <= Len(x.mem) /\ \A j \in 1..x.w : x.mem[j] \in Bytes
    BY DEF Good, Holds, Buffer
  <1>2. i + n \in Nat  OBVIOUS
  <1>3. s \in Seq(Bytes) /\ Len(s) = IF i < i + n THEN i + n - i ELSE 0
    <2>1. i + n <= x.w  OBVIOUS
    <2>2. x.mem \in Seq(Cells) /\ x.w \in Nat /\ x.w <= Len(x.mem) /\ i \in Nat  BY <1>1
    <2>3. \A j \in 1..x.w : x.mem[j] \in Bytes  BY <1>1
    <2> DEFINE mem == x.mem
               w == x.w
               z == i + n
    <2>4. mem \in Seq(Cells) /\ w \in Nat /\ w <= Len(mem) /\ z \in Nat /\ z <= w  BY <1>2, <2>1, <2>2
    <2>5. \A j \in 1..w : mem[j] \in Bytes  BY <2>3
    <2> HIDE DEF mem, w, z, s
    <2>6. SubSeq(mem, i + 1, z) \in Seq(Bytes) /\ Len(SubSeq(mem, i + 1, z)) = IF i < z THEN z - i ELSE 0
      BY <2>4, <2>5, WrittenBytes, Zenon
    <2>7. QED  BY <2>6 DEF s, mem, z
  <1> HIDE DEF s
  <1>4. Len(s) = n  BY <1>3
  <1>5. Good([mem |-> s, r |-> 0, w |-> Len(s)], s, FALSE)  BY <1>3, GoodWrap
  <1>6. Good([mem |-> s, r |-> 0, w |-> n], s, FALSE)  BY <1>4, <1>5
  <1>7. QED  BY <1>6 DEF s

\* shrink() moves the readable bytes to the front of the storage.
LEMMA GoodCompact ==
  ASSUME NEW x, NEW q, NEW c, Good(x, q, c)
  PROVE  LET y == [x EXCEPT !.mem = Put(@, 1, ReadableData(x)), !.r = 0, !.w = ReadableBytes(x)]
         IN Good(y, q, c) /\ y.w = ReadableBytes(x)
  <1> DEFINE t == SubSeq(x.mem, x.r + 1, x.w)
             m == Put(x.mem, 1, t)
             n == x.w - x.r
             y == [x EXCEPT !.mem = m, !.r = 0, !.w = n]
  <1>1. /\ x \in Buffer /\ x.mem \in Seq(Cells) /\ x.r \in Nat /\ x.w \in Nat
        /\ q \in Seq(Bytes) /\ Len(q) \in Nat /\ c \in BOOLEAN /\ Len(x.mem) \in Nat
    BY DEF Good, Buffer
  <1>2. /\ x.r <= x.w /\ x.w <= Len(x.mem) /\ Len(q) = x.w - x.r
        /\ \A j \in 1..x.w : x.mem[j] \in Bytes
        /\ ~c => \A j \in 1..Len(q) : q[j] = x.mem[x.r + j]
    BY DEF Good, Holds
  <1>n. n \in Nat /\ n <= Len(x.mem) /\ x.r + n = x.w  BY <1>1, <1>2
  <1>3. /\ t \in Seq(Bytes) /\ t \in Seq(Cells)
        /\ Len(t) = IF x.r < x.w THEN x.w - x.r ELSE 0
        /\ \A j \in 1..Len(t) : t[j] = x.mem[x.r + j]
    <2>1. x.w <= x.w  BY <1>1
    <2>2. QED  BY <2>1, <1>1, <1>2, WrittenBytes, ZenonT(60)
  <1>5. IsPut(m, x.mem, 0, t)
    <2>1. 1 \in Nat /\ 0 \in Nat /\ 1 = 0 + 1  OBVIOUS
    <2>2. QED  BY <2>1, <1>1, <1>3, PutCells, Zenon
  <1>6. m \in Seq(Cells)  BY <1>5, Zenon DEF IsPut
  <1>7. IsBuffer(y, m, 0, n)
    <2>1. 0 \in Nat  OBVIOUS
    <2>2. QED  BY <2>1, <1>1, <1>n, <1>6, NewAll, Zenon
  <1>z. y = [x EXCEPT !.mem = Put(@, 1, ReadableData(x)), !.r = 0, !.w = ReadableBytes(x)]
    BY Zenon DEF ReadableData, ReadableBytes
  <1> HIDE DEF y, m, t, n
  <1>8. y \in Buffer /\ y.mem = m /\ y.r = 0 /\ y.w = n  BY <1>7 DEF IsBuffer
  <1>4. Len(t) = n /\ Len(q) = n  BY <1>1, <1>2, <1>3 DEF n
  <1>9. /\ Len(m) = Len(x.mem)
        /\ \A j \in 1..n : m[j] = t[j]
    <2>1. \A j \in 1..n : 0 + j <= Len(x.mem) /\ 0 + j = j
      BY <1>1, <1>n
    <2>2. /\ Len(m) = Len(x.mem)
          /\ \A j \in 1..Len(t) : 0 + j <= Len(x.mem) => m[0 + j] = t[j]
      BY <1>5 DEF IsPut
    <2>3. QED  BY <2>1, <2>2, <1>4
  <1>10. ASSUME ~c, NEW j \in 1..Len(q)
         PROVE  q[j] = y.mem[y.r + j]
    <2>1. j \in 1..n /\ y.r + j = j  BY <1>4, <1>8
    <2>2. q[j] = x.mem[x.r + j]  BY <1>10, <1>2
    <2>3. QED  BY <2>1, <2>2, <1>3, <1>4, <1>8, <1>9
  <1>11. \A j \in 1..y.w : y.mem[j] \in Bytes  BY <1>3, <1>4, <1>8, <1>9
  <1>12. y.r <= y.w /\ y.w <= Len(y.mem) /\ Len(q) = y.w - y.r  BY <1>n, <1>4, <1>8, <1>9
  <1>13. Good(y, q, c)  BY <1>1, <1>8, <1>10, <1>11, <1>12 DEF Good, Holds
  <1>14. y.w = ReadableBytes(x)  BY <1>8 DEF n, ReadableBytes
  <1>15. QED  BY <1>13, <1>14, <1>z, Zenon

\* trim() to n cells: as many bytes as were readable and fit, from the front
\* of the storage.
LEMMA GoodTrim ==
  ASSUME NEW x, NEW q, NEW c, Good(x, q, c), NEW n \in Nat, NEW k \in Nat,
         k <= n, k <= x.w - x.r
  PROVE  Good([mem |-> Realloc(x.mem, n), r |-> 0, w |-> k], SubSeq(q, 1, k), c \/ (x.r > 0 /\ k > 0))
  <1> DEFINE t == SubSeq(q, 1, k)
             m == Realloc(x.mem, n)
             y == [mem |-> m, r |-> 0, w |-> k]
             d == c \/ (x.r > 0 /\ k > 0)
  <1>1. /\ x.mem \in Seq(Cells) /\ x.r \in Nat /\ x.w \in Nat
        /\ q \in Seq(Bytes) /\ Len(q) \in Nat /\ c \in BOOLEAN /\ Len(x.mem) \in Nat
    BY DEF Good, Buffer
  <1>2. /\ x.r <= x.w /\ x.w <= Len(x.mem) /\ Len(q) = x.w - x.r
        /\ \A j \in 1..x.w : x.mem[j] \in Bytes
        /\ ~c => \A j \in 1..Len(q) : q[j] = x.mem[x.r + j]
    BY DEF Good, Holds
  <1>3. /\ t \in Seq(Bytes) /\ Len(t) = k
        /\ \A j \in 1..k : t[j] = q[j]
    <2>1. 0 \in Nat /\ 0 + 1 = 1 /\ k <= Len(q)  BY <1>1, <1>2
    <2>2. /\ SubSeq(q, 0 + 1, k) \in Seq(Bytes)
          /\ Len(SubSeq(q, 0 + 1, k)) = IF 0 < k THEN k - 0 ELSE 0
          /\ \A j \in 1..Len(SubSeq(q, 0 + 1, k)) : SubSeq(q, 0 + 1, k)[j] = q[0 + j]
      BY <2>1, <1>1, SubSeqOf
    <2>3. /\ t \in Seq(Bytes)
          /\ Len(t) = IF 0 < k THEN k - 0 ELSE 0
          /\ \A j \in 1..Len(t) : t[j] = q[0 + j]
      BY <2>1, <2>2, Zenon
    <2> HIDE DEF t
    <2>4. Len(t) = k  BY <2>3
    <2>5. QED  BY <2>3, <2>4
  <1>4. /\ m \in Seq(Cells) /\ Len(m) = n
        /\ \A j \in 1..n : j <= Len(x.mem) => m[j] = x.mem[j]
    BY <1>1, ReallocCells, Zenon
  <1>5. y \in Buffer /\ y.mem = m /\ y.r = 0 /\ y.w = k
    <2> HIDE DEF m
    <2> QED  BY <1>4 DEF Buffer
  <1>6. d \in BOOLEAN /\ (~d => ~c /\ (x.r = 0 \/ k = 0))
    BY <1>1
  <1> HIDE DEF y, m, t, d
  <1>7. \A j \in 1..k : m[j] = x.mem[j] /\ m[j] \in Bytes
    <2>1. \A j \in 1..k : j \in 1..n /\ j <= Len(x.mem) /\ j \in 1..x.w  BY <1>1, <1>2
    <2>2. QED  BY <2>1, <1>2, <1>4
  <1>8. ASSUME ~d, NEW j \in 1..Len(t)
        PROVE  t[j] = y.mem[y.r + j]
    <2>1. j \in 1..k /\ x.r = 0 /\ ~c /\ j \in 1..Len(q)  BY <1>1, <1>2, <1>3, <1>6, <1>8
    <2>2. q[j] = x.mem[x.r + j] /\ x.r + j = j /\ y.r + j = j  BY <2>1, <1>2, <1>5
    <2>3. QED  BY <2>1, <2>2, <1>3, <1>5, <1>7
  <1>9. y.r <= y.w /\ y.w <= Len(y.mem) /\ Len(t) = y.w - y.r  BY <1>3, <1>4, <1>5
  <1>10. \A j \in 1..y.w : y.mem[j] \in Bytes  BY <1>5, <1>7
  <1>11. Good(y, t, d)  BY <1>3, <1>5, <1>6, <1>8, <1>9, <1>10 DEF Good, Holds
  <1>12. QED  BY <1>11 DEF y, m, t, d

\* ensureWritable() keeps the bytes and makes room for len more.
LEMMA GoodEnsure ==
  ASSUME NEW x, NEW q, NEW c, Good(x, q, c), NEW len \in Nat, NEW y \in EnsureWritable(x, len)
  PROVE  Good(y, q, c) /\ y.w = x.w /\ x.w + len <= Len(y.mem)
  <1>1. x.mem \in Seq(Cells) /\ x.w \in Nat /\ Len(x.mem) \in Nat /\ x.w <= Len(x.mem)
    BY DEF Good, Holds, Buffer
  <1>2. CASE x.w + len > Capacity(x)
    <2>1. PICK n \in NewCaps(x, len) : y = Expand(x, n)
      BY <1>2, Zenon DEF EnsureWritable
    <2>2. n \in 0..MaxCap /\ n >= x.w + len  BY <2>1, Zenon DEF NewCaps
    <2>3. n \in Nat /\ n >= x.w  BY <2>2, <1>1, SizesAssumption
    <2>4. Good(y, q, c) /\ y.w = x.w /\ Len(y.mem) = n
      BY <2>1, <2>3, GoodExpand, Zenon
    <2>5. QED  BY <2>2, <2>4
  <1>3. CASE ~(x.w + len > Capacity(x))
    <2>1. y = x  BY <1>3, Zenon DEF EnsureWritable
    <2>2. x.w + len <= Len(x.mem)  BY <1>1, <1>3 DEF Capacity
    <2>3. QED  BY <2>1, <2>2
  <1>4. QED  BY <1>2, <1>3, Zenon

---------------------------------------------------------------------------
(* Every step keeps the invariant *)

\* The invariant says that every buffer is good.
LEMMA InvIsGood == BufInv => \A b \in Bufs : Good(buf[b], queue[b], cut[b])
  <1> SUFFICES ASSUME BufInv, NEW b \in Bufs
               PROVE  Good(buf[b], queue[b], cut[b])
    OBVIOUS
  <1>1. buf[b] \in Buffer /\ queue[b] \in Seq(Bytes) /\ cut[b] \in BOOLEAN
    BY Zenon DEF BufInv, TypeOK, Buffer, Cells
  <1>2. Holds(buf[b], queue[b], cut[b])  BY Zenon DEF BufInv
  <1>3. QED  BY <1>1, <1>2 DEF Good

\* One buffer is replaced by a good one.
LEMMA BecomesGood ==
  ASSUME BufInv, NEW b \in Bufs, NEW x, NEW q, NEW c, Good(x, q, c), Becomes(b, x, q, c)
  PROVE  BufInv'
  <1>1. x \in Buffer /\ q \in Seq(Bytes) /\ c \in BOOLEAN /\ Holds(x, q, c)
    BY DEF Good
  <1>2. buf \in [Bufs -> Buffer] /\ queue \in [Bufs -> Seq(Bytes)] /\ cut \in [Bufs -> BOOLEAN]
    BY Zenon DEF BufInv, TypeOK, Buffer, Cells
  <1>3. /\ buf' = [buf EXCEPT ![b] = x]
        /\ queue' = [queue EXCEPT ![b] = q]
        /\ cut' = [cut EXCEPT ![b] = c]
    BY DEF Becomes
  <1>4. buf' \in [Bufs -> Buffer] /\ queue' \in [Bufs -> Seq(Bytes)] /\ cut' \in [Bufs -> BOOLEAN]
    BY <1>1, <1>2, <1>3, Zenon
  <1>5. TypeOK'  BY <1>4, Zenon DEF TypeOK, Buffer, Cells
  <1>6. ASSUME NEW d \in Bufs  PROVE Holds(buf[d], queue[d], cut[d])'
    <2>1. CASE d = b
      <3>1. buf'[d] = x /\ queue'[d] = q /\ cut'[d] = c  BY <2>1, <1>2, <1>3, Zenon
      <3>2. QED  BY <3>1, <1>1 DEF Holds
    <2>2. CASE d # b
      <3>1. buf'[d] = buf[d] /\ queue'[d] = queue[d] /\ cut'[d] = cut[d]  BY <2>2, <1>2, <1>3, Zenon
      <3>2. Holds(buf[d], queue[d], cut[d])  BY DEF BufInv
      <3>3. QED  BY <3>1, <3>2 DEF Holds
    <2>3. QED  BY <2>1, <2>2
  <1>7. QED  BY <1>5, <1>6 DEF BufInv

\* Two buffers are replaced by good ones, as move and swap() do.
LEMMA BothGood ==
  ASSUME BufInv, NEW a \in Bufs, NEW b \in Bufs, a # b,
         NEW x, NEW q, NEW c, Good(x, q, c), NEW y, NEW t, NEW d, Good(y, t, d),
         buf' = [buf EXCEPT ![a] = x, ![b] = y],
         queue' = [queue EXCEPT ![a] = q, ![b] = t],
         cut' = [cut EXCEPT ![a] = c, ![b] = d]
  PROVE  BufInv'
  <1>1. /\ x \in Buffer /\ q \in Seq(Bytes) /\ c \in BOOLEAN /\ Holds(x, q, c)
        /\ y \in Buffer /\ t \in Seq(Bytes) /\ d \in BOOLEAN /\ Holds(y, t, d)
    BY DEF Good
  <1>2. buf \in [Bufs -> Buffer] /\ queue \in [Bufs -> Seq(Bytes)] /\ cut \in [Bufs -> BOOLEAN]
    BY Zenon DEF BufInv, TypeOK, Buffer, Cells
  <1>4. buf' \in [Bufs -> Buffer] /\ queue' \in [Bufs -> Seq(Bytes)] /\ cut' \in [Bufs -> BOOLEAN]
    BY <1>1, <1>2, Zenon
  <1>5. TypeOK'  BY <1>4, Zenon DEF TypeOK, Buffer, Cells
  <1>6. ASSUME NEW e \in Bufs  PROVE Holds(buf[e], queue[e], cut[e])'
    <2>1. CASE e = a
      <3>1. buf'[e] = x /\ queue'[e] = q /\ cut'[e] = c  BY <2>1, <1>2
      <3>2. QED  BY <3>1, <1>1 DEF Holds
    <2>2. CASE e = b
      <3>1. buf'[e] = y /\ queue'[e] = t /\ cut'[e] = d  BY <2>2, <1>2
      <3>2. QED  BY <3>1, <1>1 DEF Holds
    <2>3. CASE e # a /\ e # b
      <3>1. buf'[e] = buf[e] /\ queue'[e] = queue[e] /\ cut'[e] = cut[e]  BY <2>3, <1>2
      <3>2. Holds(buf[e], queue[e], cut[e])  BY DEF BufInv
      <3>3. QED  BY <3>1, <3>2 DEF Holds
    <2>4. QED  BY <2>1, <2>2, <2>3
  <1>7. QED  BY <1>5, <1>6 DEF BufInv

\* Initially every buffer is empty.
LEMMA InitInv == Init => BufInv
  <1> SUFFICES ASSUME Init PROVE BufInv
    OBVIOUS
  <1>1. TypeOK  BY DEF Init, TypeOK
  <1>2. ASSUME NEW b \in Bufs  PROVE Holds(buf[b], queue[b], cut[b])
    <2>1. buf[b] = [mem |-> <<>>, r |-> 0, w |-> 0] /\ queue[b] = <<>> /\ cut[b] = FALSE
      BY DEF Init
    <2>2. QED  BY <2>1, GoodEmpty DEF Good
  <1>3. QED  BY <1>1, <1>2 DEF BufInv

\* Every operation keeps the invariant.
LEMMA StepInv == BufInv /\ [Next]_vars => BufInv'
  <1> SUFFICES ASSUME BufInv, [Next]_vars PROVE BufInv'
    OBVIOUS
  <1>g. \A d \in Bufs : /\ Good(buf[d], queue[d], cut[d])
                        /\ buf[d] \in Buffer /\ buf[d].r \in Nat /\ buf[d].w \in Nat
                        /\ buf[d].r <= buf[d].w /\ Len(queue[d]) = buf[d].w - buf[d].r
                        /\ buf[d].w <= Len(buf[d].mem) /\ Len(buf[d].mem) \in Nat
    BY InvIsGood DEF Good, Holds, Buffer
  <1>c. \A n \in 0..MaxCap : n \in Nat  BY SizesAssumption
  <1>1. ASSUME NEW b \in Bufs, NEW n \in 0..MaxCap, Allocate(b, n)
        PROVE  BufInv'
    BY <1>1, <1>c, GoodAllocate, BecomesGood DEF Allocate
  <1>2. ASSUME NEW b \in Bufs, NEW n \in 0..MaxCap, Reserve(b, n)
        PROVE  BufInv'
    <2>1. CASE n > Capacity(buf[b])
      <3>1. n \in Nat /\ n >= buf[b].w  BY <2>1, <1>c, <1>g DEF Capacity
      <3>2. Good(Expand(buf[b], n), queue[b], cut[b])  BY <3>1, <1>g, GoodExpand, Zenon
      <3>3. Becomes(b, Expand(buf[b], n), queue[b], cut[b])  BY <1>2, <2>1, Zenon DEF Reserve
      <3>4. QED  BY <3>2, <3>3, BecomesGood, Zenon
    <2>2. CASE ~(n > Capacity(buf[b]))
      <3>1. Becomes(b, buf[b], queue[b], cut[b])  BY <1>2, <2>2, Zenon DEF Reserve
      <3>2. QED  BY <3>1, <1>g, BecomesGood, Zenon
    <2>3. QED  BY <2>1, <2>2, Zenon
  <1>3. ASSUME NEW b \in Bufs, NEW s \in Data, Wrap(b, s)
        PROVE  BufInv'
    BY <1>3, DataBytes, GoodWrap, BecomesGood, Zenon DEF Wrap
  <1>4. ASSUME NEW b \in Bufs, NEW s \in Data, Write(b, s)
        PROVE  BufInv'
    <2>1. PICK x \in EnsureWritable(buf[b], Len(s)) :
            Becomes(b, [x EXCEPT !.mem = Put(x.mem, x.w + 1, s), !.w = @ + Len(s)], queue[b] \o s, cut[b])
      BY <1>4, Zenon DEF Write
    <2>2. s \in Seq(Bytes) /\ Len(s) \in Nat  BY DataBytes
    <2>3. Good(x, queue[b], cut[b]) /\ x.w = buf[b].w /\ buf[b].w + Len(s) <= Len(x.mem)
      BY <2>1, <2>2, <1>g, GoodEnsure, Zenon
    <2>4. x.w + Len(s) <= Len(x.mem)  BY <2>3
    <2>5. Good([x EXCEPT !.mem = Put(x.mem, x.w + 1, s), !.w = @ + Len(s)], queue[b] \o s, cut[b])
      BY <2>2, <2>3, <2>4, GoodAppend, Zenon
    <2>6. QED  BY <2>1, <2>5, BecomesGood, Zenon
  <1>5. ASSUME NEW b \in Bufs, NEW s \in Data, NEW len \in 0..MaxLen, Fill(b, len, s)
        PROVE  BufInv'
    <2>1. PICK x \in EnsureWritable(buf[b], len) :
            /\ Len(s) <= WritableBytes(x)
            /\ Becomes(b, [x EXCEPT !.mem = Put(x.mem, x.w + 1, s), !.w = @ + Len(s)], queue[b] \o s, cut[b])
      BY <1>5, Zenon DEF Fill
    <2>2. s \in Seq(Bytes) /\ Len(s) \in Nat  BY DataBytes
    <2>3. len \in Nat  BY SizesAssumption
    <2>4. Good(x, queue[b], cut[b])  BY <2>1, <2>3, <1>g, GoodEnsure, Zenon
    <2>5. x.w \in Nat /\ Len(x.mem) \in Nat  BY <2>4 DEF Good, Buffer
    <2>6. x.w + Len(s) <= Len(x.mem)  BY <2>1, <2>2, <2>5 DEF WritableBytes, Capacity
    <2>7. Good([x EXCEPT !.mem = Put(x.mem, x.w + 1, s), !.w = @ + Len(s)], queue[b] \o s, cut[b])
      BY <2>2, <2>4, <2>6, GoodAppend, Zenon
    <2>8. QED  BY <2>1, <2>7, BecomesGood, Zenon
  <1>6. ASSUME NEW b \in Bufs, NEW n \in 0..MaxCap, Read(b, n)
        PROVE  BufInv'
    <2>1. n \in Nat /\ n <= buf[b].w - buf[b].r  BY <1>6, <1>c DEF Read, ReadableBytes
    <2>2. Good([buf[b] EXCEPT !.r = @ + n], SubSeq(queue[b], n + 1, Len(queue[b])), cut[b])
      BY <2>1, <1>g, GoodRead, Zenon
    <2>3. QED  BY <2>2, <1>6, BecomesGood, Zenon DEF Read
  <1>7. ASSUME NEW b \in Bufs, NEW n \in 0..MaxCap, Discard(b, n)
        PROVE  BufInv'
    <2> DEFINE k == IF n >= ReadableBytes(buf[b]) THEN ReadableBytes(buf[b]) ELSE n
    <2>1. /\ n \in Nat /\ k \in Nat /\ k <= buf[b].w - buf[b].r
          /\ n = k \/ (n >= k /\ k = buf[b].w - buf[b].r)
      BY <1>c, <1>g DEF ReadableBytes
    <2>2. Becomes(b, [buf[b] EXCEPT !.r = @ + k], SubSeq(queue[b], n + 1, Len(queue[b])), cut[b])
      BY <1>7, Zenon DEF Discard
    <2> HIDE DEF k
    <2>3. Good([buf[b] EXCEPT !.r = @ + k], SubSeq(queue[b], n + 1, Len(queue[b])), cut[b])
      BY <2>1, <1>g, GoodRead, Zenon
    <2>4. QED  BY <2>2, <2>3, BecomesGood, Zenon
  <1>8. ASSUME NEW b \in Bufs, NEW i \in 0..MaxCap, SetReaderIndex(b, i)
        PROVE  BufInv'
    <2>1. i \in Nat /\ i <= buf[b].r  BY <1>8, <1>c DEF SetReaderIndex
    <2>2. Good([buf[b] EXCEPT !.r = i], SubSeq(buf[b].mem, i + 1, buf[b].r) \o queue[b], cut[b])
      BY <2>1, <1>g, GoodRewind, Zenon
    <2>3. QED  BY <2>2, <1>8, BecomesGood, Zenon DEF SetReaderIndex
  <1>9. ASSUME NEW a \in Bufs, NEW b \in Bufs, Copy(a, b)
        PROVE  BufInv'
    BY <1>9, <1>g, GoodCopy, BecomesGood, ZenonT(40) DEF Copy
  <1>10. ASSUME NEW a \in Bufs, NEW b \in Bufs, Move(a, b)
         PROVE  BufInv'
    BY <1>10, <1>g, GoodEmpty, BothGood, Zenon DEF Move
  <1>11. ASSUME NEW a \in Bufs, NEW b \in Bufs, Swap(a, b)
         PROVE  BufInv'
    BY <1>11, <1>g, BothGood, Zenon DEF Swap
  <1>12. ASSUME NEW a \in Bufs, NEW b \in Bufs, NEW i \in 0..MaxCap, NEW n \in 0..MaxCap, Slice(a, b, i, n)
         PROVE  BufInv'
    BY <1>12, <1>c, <1>g, GoodSlice, BecomesGood, Zenon DEF Slice
  <1>13. ASSUME NEW b \in Bufs, Clear(b)
         PROVE  BufInv'
    BY <1>13, <1>g, GoodClear, BecomesGood, Zenon DEF Clear
  <1>14. ASSUME NEW b \in Bufs, NEW ok \in BOOLEAN, Shrink(b, ok)
         PROVE  BufInv'
    <2> DEFINE readable == ReadableBytes(buf[b])
               x == [buf[b] EXCEPT !.mem = Put(@, 1, ReadableData(buf[b])), !.r = 0, !.w = readable]
    <2>1. Good(x, queue[b], cut[b]) /\ x.w = readable  BY <1>g, GoodCompact, Zenon
    <2>2. \/ Becomes(b, Expand(x, readable + Slack), queue[b], cut[b])
          \/ Becomes(b, x, queue[b], cut[b])
      BY <1>14, Zenon DEF Shrink
    <2>3. readable + Slack \in Nat /\ readable + Slack >= readable
      BY <1>g, SizesAssumption DEF ReadableBytes
    <2> HIDE DEF x, readable
    <2>4. readable + Slack >= x.w  BY <2>1, <2>3
    <2>5. Good(Expand(x, readable + Slack), queue[b], cut[b])
      BY <2>1, <2>3, <2>4, GoodExpand, Zenon
    <2>6. QED  BY <2>1, <2>2, <2>5, BecomesGood, Zenon
  <1>15. ASSUME NEW b \in Bufs, NEW ok \in BOOLEAN, NEW n \in 0..MaxCap, Trim(b, n, ok)
         PROVE  BufInv'
    <2> DEFINE keep == IF ReadableBytes(buf[b]) <= n THEN ReadableBytes(buf[b]) ELSE n
    <2>1. n \in Nat /\ keep \in Nat /\ keep <= n /\ keep <= buf[b].w - buf[b].r
      BY <1>c, <1>g DEF ReadableBytes
    <2>2. CASE ok /\ Capacity(buf[b]) > n
      <3>1. Becomes(b, [mem |-> Realloc(buf[b].mem, n), r |-> 0, w |-> keep],
                    SubSeq(queue[b], 1, keep), cut[b] \/ (buf[b].r > 0 /\ keep > 0))
        BY <1>15, <2>2, Zenon DEF Trim
      <3> HIDE DEF keep
      <3>2. Good([mem |-> Realloc(buf[b].mem, n), r |-> 0, w |-> keep],
                 SubSeq(queue[b], 1, keep), cut[b] \/ (buf[b].r > 0 /\ keep > 0))
        <4>1. Good(buf[b], queue[b], cut[b])  BY <1>g
        <4>2. QED  BY <2>1, <4>1, GoodTrim
      <3>3. QED  BY <3>1, <3>2, BecomesGood, Zenon
    <2>3. CASE ~(ok /\ Capacity(buf[b]) > n)
      <3>1. UNCHANGED vars  BY <1>15, <2>3, Zenon DEF Trim
      <3>2. QED  BY <3>1 DEF vars, BufInv, TypeOK, Holds
    <2>4. QED  BY <2>2, <2>3, Zenon
  <1>16. CASE UNCHANGED vars
    BY <1>16 DEF vars, BufInv, TypeOK, Holds
  <1>17. QED
    BY <1>1, <1>2, <1>3, <1>4, <1>5, <1>6, <1>7, <1>8, <1>9, <1>10, <1>11, <1>12, <1>13, <1>14,
       <1>15, <1>16, Zenon DEF Next

\* The invariant gives the property: the readable cells are the queue, as
\* sequences.
LEMMA InvGives == BufInv => ReadableIsQueue
  <1> SUFFICES ASSUME BufInv, NEW b \in Bufs
               PROVE  /\ buf[b].r <= buf[b].w /\ buf[b].w <= Capacity(buf[b])
                      /\ ~cut[b] => ReadableData(buf[b]) = queue[b]
    BY DEF ReadableIsQueue
  <1> DEFINE x == buf[b]
             q == queue[b]
             t == SubSeq(x.mem, x.r + 1, x.w)
  <1>1. /\ x.mem \in Seq(Cells) /\ x.r \in Nat /\ x.w \in Nat /\ q \in Seq(Bytes)
        /\ x.r <= x.w /\ x.w <= Len(x.mem) /\ Len(q) = x.w - x.r
        /\ \A j \in 1..x.w : x.mem[j] \in Bytes
        /\ ~cut[b] => \A j \in 1..Len(q) : q[j] = x.mem[x.r + j]
    BY InvIsGood DEF Good, Holds, Buffer
  <1>2. /\ t \in Seq(Bytes) /\ Len(t) = IF x.r < x.w THEN x.w - x.r ELSE 0
        /\ \A j \in 1..Len(t) : t[j] = x.mem[x.r + j]
    <2>1. x.w <= x.w  BY <1>1
    <2>2. QED  BY <2>1, <1>1, WrittenBytes, ZenonT(60)
  <1>3. t = ReadableData(buf[b])  BY DEF ReadableData
  <1> HIDE DEF t, x, q
  <1>4. ASSUME ~cut[b]  PROVE t = q
    <2>1. Len(t) = Len(q)  BY <1>1, <1>2
    <2>2. \A j \in 1..Len(t) : t[j] = q[j]  BY <1>1, <1>2, <1>4, <2>1
    <2>3. QED  BY <2>1, <2>2, <1>1, <1>2, SeqEqual
  <1>5. QED  BY <1>1, <1>3, <1>4 DEF x, q, Capacity

\* What can be read was written by someone, also in a buffer that trim() cut.
OnlyWritten == \A b \in Bufs : ReadableData(buf[b]) \in Seq(Bytes)

\* The type invariant, for every number of buffers, set of bytes and sizes.
\* It includes that a byte of the queue, and so a readable byte of a buffer
\* that trim() has not cut, is one that was written.
THEOREM TypeCorrect == Spec => []TypeOK
  <1>1. BufInv => TypeOK  BY DEF BufInv
  <1>2. QED  BY InitInv, StepInv, <1>1, PTL DEF Spec

\* Whatever operations are called on however many buffers, in whatever order
\* and with whatever sizes, the indices of ByteBuf stay in order and within
\* the storage, and what there is to read is what a queue of bytes would hold.
THEOREM ReadableAlwaysQueue == Spec => []ReadableIsQueue
  <1>1. QED  BY InitInv, StepInv, InvGives, PTL DEF Spec

\* No operation ever lets a reader see storage that realloc() returned and
\* nobody wrote; not even trim() of a partly read buffer, which loses unread
\* bytes and shows read ones again.
THEOREM NeverReadsJunk == Spec => []OnlyWritten
  <1>1. BufInv => OnlyWritten
    <2> SUFFICES ASSUME BufInv, NEW b \in Bufs
                 PROVE  ReadableData(buf[b]) \in Seq(Bytes)
      BY DEF OnlyWritten
    <2>1. /\ buf[b].mem \in Seq(Cells) /\ buf[b].r \in Nat /\ buf[b].w \in Nat
          /\ buf[b].w <= Len(buf[b].mem) /\ \A j \in 1..buf[b].w : buf[b].mem[j] \in Bytes
      BY InvIsGood DEF Good, Holds, Buffer
    <2>2. buf[b].w <= buf[b].w  BY <2>1
    <2>3. QED  BY <2>1, <2>2, WrittenBytes DEF ReadableData
  <1>2. QED  BY <1>1, InitInv, StepInv, PTL DEF Spec

---------------------------------------------------------------------------
(* TokenBucket with a single caller *)

Steps == {"idle", "load", "store", "stamp", "consume", "take", "clock", "set"}

BucketTypes ==
  /\ tokens \in Nat /\ lastRefill \in Nat /\ now \in Nat /\ spent \in Nat /\ granted \in Nat
  /\ pc \in [Threads -> Steps] /\ at \in [Threads -> Nat] /\ elapsed \in [Threads -> Nat] /\ current \in [Threads -> Nat]

\* What is in the bucket, was spent, and will be refilled for the time since
\* s, was granted.
Accounted(n, s) == n + spent + Rate * (now - s) <= granted

\* Where the only caller u is, and what it knows there.
CallerInv(u) ==
  /\ lastRefill <= now
  /\ pc[u] \in {"idle", "load", "consume", "take"} => Accounted(tokens, lastRefill)
  /\ pc[u] \in {"load", "store", "stamp"} => lastRefill <= at[u] /\ at[u] <= now /\ elapsed[u] = at[u] - lastRefill
  /\ pc[u] = "store" => Accounted(current[u], at[u])
  /\ pc[u] = "stamp" => Accounted(tokens, at[u])
  /\ pc[u] = "take" => current[u] = tokens /\ tokens >= 1
  /\ pc[u] = "clock" => tokens + spent <= granted
  /\ pc[u] = "set" => at[u] <= now /\ Accounted(tokens, at[u])

\* Refills add up.
LEMMA RefillsAdd ==
  ASSUME Rate \in Nat, NEW a \in Nat, NEW b \in Nat, NEW c \in Nat
  PROVE  /\ Rate * (a - b) + Rate * (b - c) = Rate * (a - c)
         /\ Rate * ((a + 1) - b) = Rate * (a - b) + Rate
         /\ Rate * (a - a) = 0
         /\ b <= a => Rate * (a - b) \in Nat
         /\ Rate * (a - b) \in Int
  <1>1. a - a = 0  OBVIOUS
  <1>2. b <= a => a - b \in Nat  OBVIOUS
  <1>3. ASSUME NEW n \in Nat  PROVE Rate * n \in Nat  OBVIOUS
  <1>4. QED  BY <1>1, <1>2, <1>3

\* The only caller's step, or the clock's.
LEMMA CallerStep ==
  ASSUME Rate \in Nat, Burst \in Nat, NEW u, Threads = {u}, BucketTypes, CallerInv(u), BucketNext
  PROVE  BucketTypes' /\ CallerInv(u)'
  <1>1. /\ tokens \in Nat /\ lastRefill \in Nat /\ now \in Nat /\ spent \in Nat /\ granted \in Nat
        /\ at[u] \in Nat /\ elapsed[u] \in Nat /\ current[u] \in Nat /\ u \in Threads
        /\ lastRefill <= now
    BY DEF BucketTypes, CallerInv
  <1>2. CASE Tick
    <2>1. /\ now' = now + 1 /\ granted' = granted + Rate
          /\ UNCHANGED <<tokens, lastRefill, pc, at, elapsed, current, spent>>
      BY <1>2 DEF Tick
    <2>2. BucketTypes'  BY <2>1 DEF BucketTypes
    <2>3. ASSUME NEW n \in Nat, NEW s \in Nat, Accounted(n, s)
          PROVE  n + spent' + Rate * (now' - s) <= granted'
      <3>1. Rate * ((now + 1) - s) = Rate * (now - s) + Rate /\ Rate * (now - s) \in Int  BY <1>1, RefillsAdd
      <3> DEFINE x == Rate * (now - s)
      <3>2. x \in Int /\ n + spent + x <= granted /\ Rate * (now' - s) = x + Rate  BY <3>1, <2>1, <2>3 DEF Accounted
      <3> HIDE DEF x
      <3>3. QED  BY <3>2, <2>1, <1>1
    <2>4. now <= now'  BY <2>1, <1>1
    <2>5. lastRefill <= now' /\ (at[u] <= now => at[u] <= now')  BY <2>1, <2>4, <1>1
    <2>7. tokens + spent <= granted => (tokens + spent <= granted)'  BY <2>1, <1>1
    <2>6. QED  BY <2>1, <2>2, <2>3, <2>5, <2>7, <1>1 DEF CallerInv, Accounted
  <1>3. CASE RefillClock(u)
    <2>1. /\ pc[u] = "idle" /\ pc' = [pc EXCEPT ![u] = IF now - lastRefill <= 0 THEN "consume" ELSE "load"]
          /\ at' = [at EXCEPT ![u] = now] /\ elapsed' = [elapsed EXCEPT ![u] = now - lastRefill]
          /\ UNCHANGED <<tokens, lastRefill, now, current, spent, granted>>
      BY <1>3 DEF RefillClock, Goes
    <2>2. now - lastRefill \in Nat  BY <1>1
    <2>3. BucketTypes'  BY <2>1, <2>2 DEF BucketTypes, Steps
    <2>4. pc'[u] \in {"consume", "load"} /\ at'[u] = now /\ elapsed'[u] = now - lastRefill
      BY <2>1, <1>1 DEF BucketTypes
    <2>5. Accounted(tokens, lastRefill)'  BY <2>1 DEF CallerInv, Accounted
    <2>6. QED  BY <2>1, <2>3, <2>4, <2>5, <1>1 DEF CallerInv
  <1>4. CASE RefillLoad(u)
    <2>1. /\ pc[u] = "load" /\ pc' = [pc EXCEPT ![u] = "store"]
          /\ current' = [current EXCEPT ![u] = Lesser(tokens + Rate * elapsed[u], Burst)]
          /\ UNCHANGED <<tokens, lastRefill, now, at, elapsed, spent, granted>>
      BY <1>4 DEF RefillLoad, Goes
    <2> DEFINE x == Rate * elapsed[u]
               c == Lesser(tokens + x, Burst)
    <2>2. x \in Nat  BY <1>1
    <2>3. c \in Nat /\ c <= tokens + x
      <3> HIDE DEF x
      <3>1. QED  BY <2>2, <1>1 DEF Lesser
    <2>4. pc'[u] = "store" /\ current'[u] = c  BY <2>1, <1>1 DEF BucketTypes
    <2>5. /\ Accounted(tokens, lastRefill) /\ lastRefill <= at[u] /\ at[u] <= now /\ elapsed[u] = at[u] - lastRefill
      BY <2>1 DEF CallerInv
    <2>6. c + spent + Rate * (now - at[u]) <= granted
      <3>1. Rate * (now - at[u]) + Rate * (at[u] - lastRefill) = Rate * (now - lastRefill)
            /\ Rate * (now - at[u]) \in Int
        <4>1. at[u] \in Nat /\ now \in Nat /\ lastRefill \in Nat  BY <1>1
        <4>2. QED  BY <4>1, RefillsAdd, Zenon
      <3> DEFINE y == Rate * (now - at[u])
                 z == Rate * (now - lastRefill)
      <3>2. y \in Int /\ y + x = z /\ tokens + spent + z <= granted  BY <3>1, <2>5 DEF Accounted
      <3> HIDE DEF x, y, z, c
      <3>3. c + spent + y <= granted  BY <3>2, <2>2, <2>3, <1>1
      <3>4. QED  BY <3>3 DEF y
    <2> HIDE DEF x, c
    <2>7. BucketTypes'
      <3>1. current' = [current EXCEPT ![u] = c]  BY <2>1 DEF c, x
      <3>2. QED  BY <3>1, <2>1, <2>3 DEF BucketTypes, Steps
    <2>8. Accounted(current[u], at[u])'  BY <2>1, <2>4, <2>6 DEF Accounted
    <2>9. QED  BY <2>1, <2>4, <2>5, <2>7, <2>8, <1>1 DEF CallerInv
  <1>5. CASE RefillStore(u)
    <2>1. /\ pc[u] = "store" /\ pc' = [pc EXCEPT ![u] = "stamp"] /\ tokens' = current[u]
          /\ UNCHANGED <<lastRefill, now, at, elapsed, current, spent, granted>>
      BY <1>5 DEF RefillStore, Goes
    <2>2. BucketTypes' /\ pc'[u] = "stamp"  BY <2>1, <1>1 DEF BucketTypes, Steps
    <2>3. Accounted(tokens, at[u])'  BY <2>1 DEF CallerInv, Accounted
    <2>4. QED  BY <2>1, <2>2, <2>3 DEF CallerInv
  <1>6. CASE RefillStamp(u)
    <2>1. /\ pc[u] = "stamp" /\ pc' = [pc EXCEPT ![u] = "consume"] /\ lastRefill' = at[u]
          /\ UNCHANGED <<tokens, now, at, elapsed, current, spent, granted>>
      BY <1>6 DEF RefillStamp, Goes
    <2>2. BucketTypes' /\ pc'[u] = "consume"  BY <2>1, <1>1 DEF BucketTypes, Steps
    <2>3. Accounted(tokens, lastRefill)' /\ lastRefill' <= now'  BY <2>1 DEF CallerInv, Accounted
    <2>4. QED  BY <2>1, <2>2, <2>3 DEF CallerInv
  <1>7. CASE ConsumeLoad(u)
    <2>1. /\ pc[u] = "consume" /\ pc' = [pc EXCEPT ![u] = IF tokens >= 1 THEN "take" ELSE "idle"]
          /\ current' = [current EXCEPT ![u] = tokens]
          /\ UNCHANGED <<tokens, lastRefill, now, at, elapsed, spent, granted>>
      BY <1>7 DEF ConsumeLoad, Goes
    <2>2. BucketTypes'  BY <2>1, <1>1 DEF BucketTypes, Steps
    <2>3. /\ pc'[u] \in {"take", "idle"} /\ (pc'[u] = "take" => tokens >= 1) /\ current'[u] = tokens
      BY <2>1, <1>1 DEF BucketTypes
    <2>4. Accounted(tokens, lastRefill)'  BY <2>1 DEF CallerInv, Accounted
    <2>5. QED  BY <2>1, <2>2, <2>3, <2>4, <1>1 DEF CallerInv
  <1>8. CASE ConsumeStore(u)
    <2>1. /\ pc[u] = "take" /\ pc' = [pc EXCEPT ![u] = "idle"] /\ tokens' = current[u] - 1 /\ spent' = spent + 1
          /\ UNCHANGED <<lastRefill, now, at, elapsed, current, granted>>
      BY <1>8 DEF ConsumeStore, Goes
    <2>2. current[u] = tokens /\ tokens >= 1 /\ Accounted(tokens, lastRefill)  BY <2>1 DEF CallerInv
    <2>3. tokens' \in Nat /\ spent' \in Nat /\ tokens' + spent' = tokens + spent  BY <2>1, <2>2, <1>1
    <2>4. BucketTypes' /\ pc'[u] = "idle"  BY <2>1, <2>3, <1>1 DEF BucketTypes, Steps
    <2>5. Accounted(tokens, lastRefill)'  BY <2>1, <2>2, <2>3 DEF Accounted
    <2>6. QED  BY <2>1, <2>4, <2>5, <1>1 DEF CallerInv
  <1>9. CASE SetRateStore(u)
    <2>1. /\ pc[u] = "idle" /\ pc' = [pc EXCEPT ![u] = "clock"] /\ tokens' = Burst /\ granted' = granted + Burst
          /\ UNCHANGED <<lastRefill, now, at, elapsed, current, spent>>
      BY <1>9 DEF SetRateStore, Goes
    <2>2. BucketTypes' /\ pc'[u] = "clock"  BY <2>1, <1>1 DEF BucketTypes, Steps
    <2>3. spent <= granted
      <3>1. Rate * (now - lastRefill) \in Nat /\ Accounted(tokens, lastRefill)
        BY <2>1, <1>1, RefillsAdd DEF CallerInv
      <3> DEFINE x == Rate * (now - lastRefill)
      <3>2. x \in Nat /\ tokens + spent + x <= granted  BY <3>1 DEF Accounted
      <3> HIDE DEF x
      <3>3. QED  BY <3>2, <1>1
    <2>4. (tokens + spent <= granted)'  BY <2>1, <2>3, <1>1
    <2>5. QED  BY <2>1, <2>2, <2>4, <1>1 DEF CallerInv
  <1>11. CASE SetRateClock(u)
    <2>1. /\ pc[u] = "clock" /\ pc' = [pc EXCEPT ![u] = "set"] /\ at' = [at EXCEPT ![u] = now]
          /\ UNCHANGED <<tokens, lastRefill, now, elapsed, current, spent, granted>>
      BY <1>11 DEF SetRateClock, Goes
    <2>2. BucketTypes' /\ pc'[u] = "set" /\ at'[u] = now  BY <2>1, <1>1 DEF BucketTypes, Steps
    <2>3. Accounted(tokens, at[u])'
      <3>1. Rate * (now - now) = 0  BY <1>1, RefillsAdd
      <3>2. tokens + spent + 0 <= granted  BY <2>1, <1>1 DEF CallerInv
      <3>3. QED  BY <3>1, <3>2, <2>1, <2>2 DEF Accounted
    <2>4. QED  BY <2>1, <2>2, <2>3, <1>1 DEF CallerInv
  <1>12. CASE SetRateStamp(u)
    <2>1. /\ pc[u] = "set" /\ pc' = [pc EXCEPT ![u] = "idle"] /\ lastRefill' = at[u]
          /\ UNCHANGED <<tokens, now, at, elapsed, current, spent, granted>>
      BY <1>12 DEF SetRateStamp, Goes
    <2>2. BucketTypes' /\ pc'[u] = "idle"  BY <2>1, <1>1 DEF BucketTypes, Steps
    <2>3. Accounted(tokens, lastRefill)' /\ lastRefill' <= now'  BY <2>1 DEF CallerInv, Accounted
    <2>4. QED  BY <2>1, <2>2, <2>3 DEF CallerInv
  <1>10. QED
    BY <1>2, <1>3, <1>4, <1>5, <1>6, <1>7, <1>8, <1>9, <1>11, <1>12 DEF BucketNext

\* With only one caller, tryConsume() spends no token that was not there to
\* give: neither the refill, which is computed from the time before the bucket
\* is looked at, nor setRate(), nor the cap at burst_ counts any time twice.
\* What the run token_bucket shows therefore comes from the threads alone.
THEOREM OneCallerSpendsOnce ==
  ASSUME Rate \in Nat, Burst \in Nat, NEW u, Threads = {u}
  PROVE  BucketSpec => []NoTokenSpentTwice
  <1>1. BucketInit => BucketTypes /\ CallerInv(u)
    <2> SUFFICES ASSUME BucketInit PROVE BucketTypes /\ CallerInv(u)
      OBVIOUS
    <2>1. BucketTypes  BY DEF BucketInit, BucketTypes, Steps
    <2>2. pc[u] = "idle" /\ tokens = Burst /\ spent = 0 /\ granted = Burst /\ now = 0 /\ lastRefill = 0
      BY DEF BucketInit
    <2>3. Accounted(tokens, lastRefill)
      <3>1. Rate * (0 - 0) = 0  BY RefillsAdd
      <3>2. QED  BY <3>1, <2>2 DEF Accounted
    <2>4. QED  BY <2>1, <2>2, <2>3 DEF CallerInv
  <1>2. BucketTypes /\ CallerInv(u) /\ [BucketNext]_bucketVars => BucketTypes' /\ CallerInv(u)'
    <2>1. CASE BucketNext  BY <2>1, CallerStep
    <2>2. CASE UNCHANGED bucketVars
      BY <2>2 DEF bucketVars, BucketTypes, CallerInv, Accounted
    <2>3. QED  BY <2>1, <2>2
  <1>3. BucketTypes /\ CallerInv(u) => NoTokenSpentTwice
    <2> SUFFICES ASSUME BucketTypes, CallerInv(u) PROVE NoTokenSpentTwice
      OBVIOUS
    <2>1. PICK n \in Nat, s \in Nat : s <= now /\ Accounted(n, s)
      <3>1. pc[u] \in Steps /\ at[u] \in Nat /\ current[u] \in Nat /\ tokens \in Nat /\ lastRefill \in Nat
        BY DEF BucketTypes
      <3>2. CASE pc[u] = "clock"
        <4>1. Rate * (now - now) = 0 /\ now \in Nat /\ spent \in Nat /\ granted \in Nat  BY RefillsAdd DEF BucketTypes
        <4>2. tokens + spent + 0 <= granted  BY <3>1, <3>2, <4>1 DEF CallerInv
        <4>3. Accounted(tokens, now)  BY <4>1, <4>2 DEF Accounted
        <4>4. QED  BY <3>1, <4>1, <4>3
      <3>3. CASE pc[u] # "clock"  BY <3>1, <3>3 DEF CallerInv, Steps
      <3>4. QED  BY <3>2, <3>3
    <2>2. Rate * (now - s) \in Nat  BY <2>1, RefillsAdd DEF BucketTypes
    <2> DEFINE x == Rate * (now - s)
    <2>3. x \in Nat /\ n + spent + x <= granted  BY <2>1, <2>2 DEF Accounted
    <2> HIDE DEF x
    <2>4. QED  BY <2>3 DEF BucketTypes, NoTokenSpentTwice
  <1>4. QED  BY <1>1, <1>2, <1>3, PTL DEF BucketSpec
=============================================================================
