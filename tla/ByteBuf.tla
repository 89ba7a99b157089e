------------------------------ MODULE ByteBuf ------------------------------
(***************************************************************************)
(* ByteBuf, the growable byte queue that every layer of the server reads   *)
(* from and writes to: its storage and its two indices, against the plain  *)
(* queue of bytes that its callers take it for.                            *)
(*                                                                         *)
(* Storage is a sequence of cells, of which Junk ones were allocated and   *)
(* never written.  The constants 64, 1024 and 64 of the code are           *)
(* parameters.  The argument ok of an action says whether realloc() finds  *)
(* memory.  size_t does not overflow at the sizes a process can allocate.  *)
(***************************************************************************)
EXTENDS Integers, Sequences

CONSTANTS
  Bufs,        \* ByteBuf objects
  Bytes,       \* byte values
  FirstCap,    \* capacity of the first growth (64)
  WasteLimit,  \* unused cells that shrink() puts up with (1024)
  Slack,       \* cells shrink() leaves writable (64)
  MaxCap,      \* bound: capacity
  MaxLen       \* bound: bytes in one call

Junk == 0

ASSUME BytesAssumption == Bytes \subseteq Nat \ {0}
ASSUME SizesAssumption ==
  /\ FirstCap \in Nat \ {0} /\ WasteLimit \in Nat /\ Slack \in Nat
  /\ MaxCap \in Nat /\ MaxLen \in Nat

VARIABLES
  buf,    \* of each ByteBuf: data_ and capacity_ as mem, readerIndex_, writerIndex_
  queue,  \* history: what a queue would hold
  cut     \* history: trim() was called on a partly read buffer

vars == <<buf, queue, cut>>

Data == UNION {[1..n -> Bytes] : n \in 0..MaxLen}
Storage(n) == [i \in 1..n |-> Junk]

TypeOK ==
  /\ buf \in [Bufs -> [mem : Seq(Bytes \cup {Junk}), r : Nat, w : Nat]]
  /\ queue \in [Bufs -> Seq(Bytes)]
  /\ cut \in [Bufs -> BOOLEAN]

Init ==
  /\ buf = [b \in Bufs |-> [mem |-> <<>>, r |-> 0, w |-> 0]]
  /\ queue = [b \in Bufs |-> <<>>]
  /\ cut = [b \in Bufs |-> FALSE]

Capacity(x) == Len(x.mem)
ReadableBytes(x) == x.w - x.r
WritableBytes(x) == Capacity(x) - x.w
ReadableData(x) == SubSeq(x.mem, x.r + 1, x.w)

\* The buffer, what a queue holds then, and whether bytes were cut.
Becomes(b, x, q, c) ==
  /\ buf' = [buf EXCEPT ![b] = x]
  /\ queue' = [queue EXCEPT ![b] = q]
  /\ cut' = [cut EXCEPT ![b] = c]

\* The cells from position i on hold s.
Put(mem, i, s) == [j \in DOMAIN mem |-> IF j \in i..i + Len(s) - 1 THEN s[j - i + 1] ELSE mem[j]]

\* realloc() to n cells keeps what fits.
Realloc(mem, n) == [i \in 1..n |-> IF i <= Len(mem) THEN mem[i] ELSE Junk]

Expand(x, n) == [x EXCEPT !.mem = Realloc(x.mem, n)]

---------------------------------------------------------------------------
(* Making a buffer *)

\* ByteBuf(initialCapacity) and allocate().
Allocate(b, n) == Becomes(b, [mem |-> Storage(n), r |-> 0, w |-> 0], <<>>, FALSE)

\* ByteBuf(data, len), wrap() and copyOf() copy the bytes.
Wrap(b, s) == Becomes(b, [mem |-> s, r |-> 0, w |-> Len(s)], s, FALSE)

\* The copy constructor and assignment copy what was written, read or not.
Copy(a, b) ==
  /\ a # b
  /\ Becomes(b, [buf[a] EXCEPT !.mem = Put(Storage(Capacity(buf[a])), 1, SubSeq(buf[a].mem, 1, buf[a].w))],
             queue[a], cut[a])

\* The move constructor and assignment leave the source empty.
Move(a, b) ==
  /\ a # b
  /\ buf' = [buf EXCEPT ![b] = buf[a], ![a] = [mem |-> <<>>, r |-> 0, w |-> 0]]
  /\ queue' = [queue EXCEPT ![b] = queue[a], ![a] = <<>>]
  /\ cut' = [cut EXCEPT ![b] = cut[a], ![a] = FALSE]

Swap(a, b) ==
  /\ a # b
  /\ buf' = [buf EXCEPT ![a] = buf[b], ![b] = buf[a]]
  /\ queue' = [queue EXCEPT ![a] = queue[b], ![b] = queue[a]]
  /\ cut' = [cut EXCEPT ![a] = cut[b], ![b] = cut[a]]

\* slice(): a copy of len bytes from an absolute position, read or not.
Slice(a, b, i, n) ==
  /\ a # b /\ i + n <= buf[a].w
  /\ LET s == SubSeq(buf[a].mem, i + 1, i + n)
     IN Becomes(b, [mem |-> s, r |-> 0, w |-> n], s, FALSE)

---------------------------------------------------------------------------
(* Growing *)

\* ensureWritable(): the capacity doubles until len bytes fit.  NewCaps has
\* the doublings that are large enough, up to the bound.
NewCaps(x, len) ==
  LET first == IF Capacity(x) = 0 THEN FirstCap ELSE Capacity(x) * 2
  IN {c \in 0..MaxCap : c >= x.w + len /\ \E k \in 0..MaxCap : c = first * 2^k}

\* What ensureWritable() makes of x: one buffer, or none past the bound.
EnsureWritable(x, len) ==
  IF x.w + len > Capacity(x)
  THEN {Expand(x, c) : c \in {m \in NewCaps(x, len) : \A d \in NewCaps(x, len) : m <= d}}
  ELSE {x}

Reserve(b, n) ==
  Becomes(b, IF n > Capacity(buf[b]) THEN Expand(buf[b], n) ELSE buf[b], queue[b], cut[b])

---------------------------------------------------------------------------
(* Writing and reading *)

\* writeByte(), writeBytes() and writeString(); without memory expand()
\* throws before anything has changed.
Write(b, s) ==
  \E x \in EnsureWritable(buf[b], Len(s)) :
     Becomes(b, [x EXCEPT !.mem = Put(x.mem, x.w + 1, s), !.w = @ + Len(s)], queue[b] \o s, cut[b])

\* How sockets and SSL_read() fill a buffer: ensureWritable(len), at most
\* writableBytes() bytes stored at writableData(), then setWriterIndex().
Fill(b, len, s) ==
  \E x \in EnsureWritable(buf[b], len) :
     /\ Len(s) <= WritableBytes(x)
     /\ Becomes(b, [x EXCEPT !.mem = Put(x.mem, x.w + 1, s), !.w = @ + Len(s)], queue[b] \o s, cut[b])

\* readByte(), readBytes(), readString() and readStringView(); they throw
\* when there is too little.
Read(b, n) ==
  /\ n <= ReadableBytes(buf[b])
  /\ Becomes(b, [buf[b] EXCEPT !.r = @ + n], SubSeq(queue[b], n + 1, Len(queue[b])), cut[b])

Discard(b, n) ==
  LET k == IF n >= ReadableBytes(buf[b]) THEN ReadableBytes(buf[b]) ELSE n
  IN Becomes(b, [buf[b] EXCEPT !.r = @ + k], SubSeq(queue[b], n + 1, Len(queue[b])), cut[b])

\* setReaderIndex() back to an earlier position puts bytes back in front.
SetReaderIndex(b, i) ==
  /\ i <= buf[b].r
  /\ Becomes(b, [buf[b] EXCEPT !.r = i], SubSeq(buf[b].mem, i + 1, buf[b].r) \o queue[b], cut[b])

\* clear() and reset().
Clear(b) == Becomes(b, [buf[b] EXCEPT !.r = 0, !.w = 0], <<>>, FALSE)

---------------------------------------------------------------------------
(* Giving memory back *)

\* Mutant: the bytes are moved and the reader index is left alone.
ShrinkForgetsReader(b, ok) ==
  LET x == [buf[b] EXCEPT !.mem = Put(@, 1, ReadableData(buf[b]))]
  IN Becomes(b, x, queue[b], cut[b])

Shrink(b, ok) ==
  LET readable == ReadableBytes(buf[b])
      x == [buf[b] EXCEPT !.mem = Put(@, 1, ReadableData(buf[b])), !.r = 0, !.w = readable]
      waste == Capacity(x) - readable
  IN IF ok /\ waste > WasteLimit /\ waste > readable * 2
     THEN Becomes(b, Expand(x, readable + Slack), queue[b], cut[b])
     ELSE Becomes(b, x, queue[b], cut[b])

\* trim() counts the readable bytes and keeps that many from the front of
\* the storage, where they are only if nothing was read.
Trim(b, n, ok) ==
  LET x == buf[b]
      keep == IF ReadableBytes(x) <= n THEN ReadableBytes(x) ELSE n
  IN IF ok /\ Capacity(x) > n
     THEN Becomes(b, [mem |-> Realloc(x.mem, n), r |-> 0, w |-> keep],
                  SubSeq(queue[b], 1, keep), cut[b] \/ (x.r > 0 /\ keep > 0))
     ELSE UNCHANGED vars

Next ==
  \E b \in Bufs :
    \/ \E n \in 0..MaxCap : Allocate(b, n) \/ Reserve(b, n)
    \/ \E s \in Data : Wrap(b, s) \/ Write(b, s) \/ \E n \in 0..MaxLen : Fill(b, n, s)
    \/ \E n \in 0..MaxCap : Read(b, n) \/ Discard(b, n) \/ SetReaderIndex(b, n)
    \/ \E a \in Bufs : Copy(a, b) \/ Move(a, b) \/ Swap(a, b)
    \/ \E a \in Bufs : \E i, n \in 0..MaxCap : Slice(a, b, i, n)
    \/ Clear(b)
    \/ \E ok \in BOOLEAN : Shrink(b, ok) \/ \E n \in 0..MaxCap : Trim(b, n, ok)

Spec == Init /\ [][Next]_vars

---------------------------------------------------------------------------
(* Properties *)

\* Through every sequence of growing, shrinking, rewinding, copying and
\* moving, in either buffer, the indices stay in order and within the
\* storage, so that readableBytes() and writableBytes() never wrap around;
\* and what there is to read is what a queue would hold, byte for byte, never
\* a byte nobody wrote.  Only trim() of a partly read buffer breaks that.
ReadableIsQueue ==
  \A b \in Bufs :
    /\ buf[b].r <= buf[b].w /\ buf[b].w <= Capacity(buf[b])
    /\ ~cut[b] => ReadableData(buf[b]) = queue[b]
============================================================================
