-------------------------- MODULE Pipeline_proofs --------------------------
(***************************************************************************)
(* Proofs about Pipeline: for any handlers, names and depth of calls, every *)
(* context knows its place, and messages are passed on in order.           *)
(***************************************************************************)
EXTENDS Pipeline, SequenceTheorems, WellFoundedInduction, TLAPS

\* The calls in progress are calls of entries that are there, with messages
\* that were made.
StackInv == \A k \in DOMAIN stack : stack[k].pos <= Len(handlers) /\ stack[k].msg <= msgs

PipeInv == TypeOK /\ IndexTracksPosition /\ StackInv

---------------------------------------------------------------------------
(* Sequences of entries *)

\* The parts of a concatenation.
LEMMA ConcatParts ==
  ASSUME NEW s \in Seq(Entry), NEW t \in Seq(Entry)
  PROVE  /\ s \o t \in Seq(Entry) /\ Len(s \o t) = Len(s) + Len(t)
         /\ Len(s) \in Nat /\ Len(t) \in Nat
         /\ \A j \in 1..Len(s) : (s \o t)[j] = s[j]
         /\ \A j \in 1..Len(t) : (s \o t)[Len(s) + j] = t[j]
OBVIOUS

\* Reindexed() renumbers the entries from i on and nothing else.
LEMMA ReindexedType ==
  ASSUME NEW hs \in Seq(Entry), NEW i \in Nat
  PROVE  /\ Reindexed(hs, i) \in Seq(Entry)
         /\ Len(Reindexed(hs, i)) = Len(hs)
         /\ \A j \in 1..Len(hs) : Reindexed(hs, i)[j].index = IF j >= i THEN j - 1 ELSE hs[j].index
<1>1. DOMAIN hs = 1..Len(hs) /\ Len(hs) \in Nat
  OBVIOUS
<1>2. \A j \in 1..Len(hs) : hs[j] \in Entry
  OBVIOUS
<1>3. \A j \in 1..Len(hs) : [hs[j] EXCEPT !.index = j - 1] \in Entry /\ [hs[j] EXCEPT !.index = j - 1].index = j - 1
  BY <1>2 DEF Entry
<1>4. Reindexed(hs, i) \in [1..Len(hs) -> Entry]
  BY <1>1, <1>2, <1>3 DEF Reindexed
<1>5. Reindexed(hs, i) \in Seq(Entry) /\ Len(Reindexed(hs, i)) = Len(hs)
  BY <1>1, <1>4
<1>6. \A j \in 1..Len(hs) : Reindexed(hs, i)[j].index = IF j >= i THEN j - 1 ELSE hs[j].index
  BY <1>1, <1>3 DEF Reindexed
<1>7. QED
  BY <1>5, <1>6

\* Inserting an entry leaves those before it alone.
LEMMA InsertAtParts ==
  ASSUME NEW hs \in Seq(Entry), NEW i \in 1..Len(hs) + 1, NEW e \in Entry
  PROVE  /\ InsertAt(hs, i, e) \in Seq(Entry)
         /\ Len(InsertAt(hs, i, e)) = Len(hs) + 1
         /\ \A j \in 1..i - 1 : InsertAt(hs, i, e)[j] = hs[j]
         /\ InsertAt(hs, i, e)[i] = e
<1> DEFINE a == SubSeq(hs, 1, i - 1)
           b == <<e>>
           c == SubSeq(hs, i, Len(hs))
<1>1. a \in Seq(Entry) /\ Len(a) = i - 1 /\ \A j \in 1..i - 1 : a[j] = hs[j]
  OBVIOUS
<1>2. c \in Seq(Entry) /\ Len(c) = Len(hs) - i + 1
  OBVIOUS
<1>3. b \in Seq(Entry) /\ Len(b) = 1 /\ b[1] = e
  OBVIOUS
<1>4. InsertAt(hs, i, e) = (a \o b) \o c
  BY DEF InsertAt
<1> HIDE DEF a, b, c
<1>5. /\ a \o b \in Seq(Entry) /\ Len(a \o b) = i
      /\ \A j \in 1..i - 1 : (a \o b)[j] = hs[j]
      /\ (a \o b)[i] = e
  <2>1. /\ a \o b \in Seq(Entry) /\ Len(a \o b) = Len(a) + Len(b)
        /\ \A j \in 1..Len(a) : (a \o b)[j] = a[j]
        /\ \A j \in 1..Len(b) : (a \o b)[Len(a) + j] = b[j]
    BY <1>1, <1>3, ConcatParts, Zenon
  <2>2. (a \o b)[Len(a) + 1] = b[1]
    BY <1>3, <2>1
  <2>3. QED
    BY <1>1, <1>3, <2>1, <2>2
<1> DEFINE ab == a \o b
<1> HIDE DEF ab
<1>6. /\ ab \o c \in Seq(Entry) /\ Len(ab \o c) = i + Len(c)
      /\ \A j \in 1..i : (ab \o c)[j] = ab[j]
  BY <1>2, <1>5, ConcatParts DEF ab
<1>7. QED
  BY <1>2, <1>4, <1>5, <1>6 DEF ab

\* Removing an entry leaves those before it alone.
LEMMA RemoveAtParts ==
  ASSUME NEW hs \in Seq(Entry), NEW i \in 1..Len(hs)
  PROVE  /\ RemoveAt(hs, i) \in Seq(Entry)
         /\ Len(RemoveAt(hs, i)) = Len(hs) - 1
         /\ \A j \in 1..i - 1 : RemoveAt(hs, i)[j] = hs[j]
<1> DEFINE a == SubSeq(hs, 1, i - 1)
           c == SubSeq(hs, i + 1, Len(hs))
<1>1. a \in Seq(Entry) /\ Len(a) = i - 1 /\ \A j \in 1..i - 1 : a[j] = hs[j]
  OBVIOUS
<1>2. c \in Seq(Entry) /\ Len(c) = Len(hs) - i
  OBVIOUS
<1>3. RemoveAt(hs, i) = a \o c
  BY DEF RemoveAt
<1> HIDE DEF a, c
<1>4. a \o c \in Seq(Entry) /\ Len(a \o c) = Len(a) + Len(c) /\ \A j \in 1..Len(a) : (a \o c)[j] = a[j]
  BY <1>1, <1>2, ConcatParts, Zenon
<1>5. QED
  BY <1>1, <1>2, <1>3, <1>4

---------------------------------------------------------------------------
(* Who is called next *)

\* A nonempty set of natural numbers has a least element.
LEMMA LeastElement ==
  ASSUME NEW T \in SUBSET Nat, T # {}
  PROVE  \E x \in T : \A y \in T : x <= y
<1> DEFINE R == OpToRel(<, Nat)
<1>1. IsWellFoundedOn(R, Nat)
  BY NatLessThanWellFounded
<1>2. \A x, y \in Nat : <<x, y>> \in R <=> x < y
  BY DEF OpToRel
<1> HIDE DEF R
<1>3. PICK x \in T : \A y \in T : ~(<<y, x>> \in R)
  BY <1>1, WFMin
<1>4. \A y \in T : y \in Nat /\ x \in Nat /\ ~(y < x)
  BY <1>2, <1>3
<1>5. \A y \in T : x <= y
  BY <1>4
<1>6. QED
  BY <1>5

\* A nonempty bounded one has a greatest element.
LEMMA GreatestElement ==
  ASSUME NEW n \in Nat, NEW T \in SUBSET (0..n), T # {}
  PROVE  \E x \in T : \A y \in T : x >= y
<1> DEFINE D == {d \in Nat : n - d \in T}
<1>1. D \in SUBSET Nat
  OBVIOUS
<1>2. \A y \in T : y \in 0..n /\ n - y \in Nat /\ n - (n - y) = y
  OBVIOUS
<1>3. \A y \in T : n - y \in D
  BY <1>2
<1>4. PICK d \in D : \A e \in D : d <= e
  BY <1>1, <1>3, LeastElement
<1>5. n - d \in T /\ d \in Nat
  BY <1>4
<1>6. \A y \in T : d <= n - y
  BY <1>3, <1>4
<1>7. \A y \in T : n - d >= y
  BY <1>2, <1>5, <1>6
<1>8. QED
  BY <1>5, <1>7

\* Going up reaches the first entry from i on that the event is for.
LEMMA UpwardsFinds ==
  ASSUME handlers \in Seq(Entry), NEW ev, NEW all, NEW i \in Nat \ {0}, Upwards(ev, all, i) # 0
  PROVE  /\ Upwards(ev, all, i) \in i..Len(handlers)
         /\ IsFor(ev, all, Upwards(ev, all, i))
         /\ \A j \in i..Upwards(ev, all, i) - 1 : ~IsFor(ev, all, j)
<1> DEFINE for == {j \in i..Len(handlers) : IsFor(ev, all, j)}
<1>1. for # {} /\ Upwards(ev, all, i) = Min(for)
  BY DEF Upwards
<1>2. for \in SUBSET Nat
  OBVIOUS
<1>3. \E n \in for : \A k \in for : n <= k
  BY <1>1, <1>2, LeastElement
<1>4. Min(for) \in for /\ \A k \in for : Min(for) <= k
  BY <1>3 DEF Min
<1>5. Len(handlers) \in Nat
  OBVIOUS
<1>6. QED
  <2>1. ASSUME NEW j \in i..Min(for) - 1 PROVE ~IsFor(ev, all, j)
    <3>1. j \in i..Len(handlers) /\ ~(Min(for) <= j)
      BY <1>4, <1>5
    <3>2. j \notin for
      BY <1>4, <3>1
    <3>3. QED
      BY <3>1, <3>2
  <2>2. QED
    BY <1>1, <1>4, <2>1

\* Going down reaches the last entry up to i that the event is for.
LEMMA DownwardsFinds ==
  ASSUME handlers \in Seq(Entry), NEW ev, NEW i \in Nat, Downwards(ev, i) # 0
  PROVE  /\ Downwards(ev, i) \in 1..i
         /\ IsFor(ev, FALSE, Downwards(ev, i))
         /\ \A j \in Downwards(ev, i) + 1..i : ~IsFor(ev, FALSE, j)
<1> DEFINE for == {j \in 1..i : IsFor(ev, FALSE, j)}
<1>1. for # {} /\ Downwards(ev, i) = Max(for)
  BY DEF Downwards
<1>2. for \in SUBSET (0..i)
  <2>1. 1..i \subseteq 0..i
    OBVIOUS
  <2>2. QED
    BY <2>1
<1>3. \E n \in for : \A k \in for : n >= k
  BY <1>1, <1>2, GreatestElement
<1>6. Max(for) \in for /\ \A k \in for : Max(for) >= k
  BY <1>3 DEF Max
<1>7. QED
  <2>1. ASSUME NEW j \in Max(for) + 1..i PROVE ~IsFor(ev, FALSE, j)
    <3>1. j \in 1..i /\ ~(Max(for) >= j)
      BY <1>6
    <3>2. j \notin for
      BY <1>6, <3>1
    <3>3. QED
      BY <3>1, <3>2
  <2>2. QED
    BY <1>1, <1>6, <2>1

---------------------------------------------------------------------------
(* Steps *)

\* An empty pipeline.
LEMMA InitInv == Init => PipeInv
<1> SUFFICES ASSUME Init PROVE PipeInv
  OBVIOUS
<1>1. MaxMsgs \in Nat
  BY BoundsAssumption
<1>2. TypeOK
  <2>1. handlers \in Seq(Entry) /\ stack \in Seq(Frame)
    BY EmptySeq DEF Init
  <2>2. closed \in BOOLEAN
    BY DEF Init
  <2>3. msgs \in 0..MaxMsgs
    BY <1>1 DEF Init
  <2>4. QED
    BY <2>1, <2>2, <2>3 DEF TypeOK
<1>3. DOMAIN handlers = {} /\ DOMAIN stack = {}
  BY DEF Init
<1>4. QED
  BY <1>2, <1>3 DEF PipeInv, IndexTracksPosition, StackInv

\* Positions are 1 to the number of entries.
LEMMA EntriesLen ==
  ASSUME handlers \in Seq(Entry)
  PROVE  Len(handlers) \in Nat /\ DOMAIN handlers = 1..Len(handlers)
OBVIOUS

\* Named() is a position or 0.
LEMMA NamedPosition ==
  ASSUME handlers \in Seq(Entry), NEW n, Named(n) # 0
  PROVE  Named(n) \in 1..Len(handlers)
<1> DEFINE I == {i \in 1..Len(handlers) : handlers[i].name = n}
<1>1. I # {} /\ Named(n) = Min(I)
  BY DEF Named, SelectInSeq
<1>2. I \in SUBSET Nat
  OBVIOUS
<1>3. \E x \in I : \A y \in I : x <= y
  BY <1>1, <1>2, LeastElement
<1>4. Min(I) \in I
  BY <1>3 DEF Min
<1>5. QED
  BY <1>1, <1>4

\* Between events, any renumbered pipeline will do.
LEMMA ChangedKeeps ==
  ASSUME PipeInv, stack = <<>>, handlers' \in Seq(Entry), UNCHANGED <<stack, closed, msgs>>,
         \A j \in 1..Len(handlers') : handlers'[j].index = j - 1
  PROVE  PipeInv'
<1>1. TypeOK'
  BY DEF PipeInv, TypeOK
<1>2. DOMAIN handlers' = 1..Len(handlers')
  OBVIOUS
<1>3. IndexTracksPosition'
  BY <1>2 DEF IndexTracksPosition
<1>4. StackInv'
  BY DEF StackInv
<1>5. QED
  BY <1>1, <1>3, <1>4 DEF PipeInv

\* addEntry() renumbers what it pushed up.
LEMMA AddKeeps ==
  ASSUME PipeInv, NEW i \in 1..Len(handlers) + 1, NEW n \in Names, NEW h \in Handlers, AddEntry(i, n, h)
  PROVE  PipeInv'
<1> DEFINE e == [name |-> n, h |-> h, index |-> i - 1, bound |-> FALSE]
           hs == InsertAt(handlers, i, e)
<1>1. handlers \in Seq(Entry) /\ Len(handlers) \in Nat /\ \A j \in 1..Len(handlers) : handlers[j].index = j - 1
  BY EntriesLen DEF PipeInv, TypeOK, IndexTracksPosition
<1>2. e \in Entry /\ e.index = i - 1
  BY <1>1 DEF Entry
<1>3. handlers' = Reindexed(hs, i + 1) /\ stack = <<>> /\ UNCHANGED <<stack, closed, msgs>>
  BY DEF AddEntry
<1> HIDE DEF e
<1>4. hs \in Seq(Entry) /\ Len(hs) = Len(handlers) + 1 /\ hs[i] = e /\ \A j \in 1..i - 1 : hs[j] = handlers[j]
  BY <1>1, <1>2, InsertAtParts
<1> HIDE DEF hs
<1>5. i + 1 \in Nat
  BY <1>1
<1>6. /\ handlers' \in Seq(Entry) /\ Len(handlers') = Len(hs)
      /\ \A j \in 1..Len(hs) : handlers'[j].index = IF j >= i + 1 THEN j - 1 ELSE hs[j].index
  BY <1>3, <1>4, <1>5, ReindexedType
<1>7. \A j \in 1..Len(handlers') : handlers'[j].index = j - 1
  <2>1. ASSUME NEW j \in 1..Len(handlers') PROVE handlers'[j].index = j - 1
    <3>1. j \in 1..Len(hs)
      BY <1>6
    <3>2. CASE j >= i + 1
      BY <1>6, <3>1, <3>2
    <3>3. CASE j = i
      BY <1>2, <1>4, <1>6, <3>1, <3>3
    <3>4. CASE j < i
      BY <1>1, <1>4, <1>6, <3>1, <3>4
    <3>5. QED
      BY <1>1, <1>4, <3>1, <3>2, <3>3, <3>4
  <2>2. QED
    BY <2>1
<1>8. QED
  BY <1>3, <1>6, <1>7, ChangedKeeps

\* remove() renumbers what moved down.
LEMMA RemoveKeeps ==
  ASSUME PipeInv, NEW n, RemoveEntry(n)
  PROVE  PipeInv'
<1> DEFINE i == Named(n)
           hs == RemoveAt(handlers, i)
<1>1. handlers \in Seq(Entry) /\ Len(handlers) \in Nat /\ \A j \in 1..Len(handlers) : handlers[j].index = j - 1
  BY EntriesLen DEF PipeInv, TypeOK, IndexTracksPosition
<1>2. i # 0 /\ handlers' = Reindexed(hs, i) /\ stack = <<>> /\ UNCHANGED <<stack, closed, msgs>>
  BY DEF RemoveEntry
<1>3. i \in 1..Len(handlers)
  BY <1>1, <1>2, NamedPosition
<1> HIDE DEF i
<1>4. hs \in Seq(Entry) /\ Len(hs) = Len(handlers) - 1 /\ \A j \in 1..i - 1 : hs[j] = handlers[j]
  BY <1>1, <1>3, RemoveAtParts
<1> HIDE DEF hs
<1>5. /\ handlers' \in Seq(Entry) /\ Len(handlers') = Len(hs)
      /\ \A j \in 1..Len(hs) : handlers'[j].index = IF j >= i THEN j - 1 ELSE hs[j].index
  <2>1. i \in Nat
    BY <1>1, <1>3
  <2>2. QED
    BY <1>2, <1>4, <2>1, ReindexedType
<1>6. \A j \in 1..Len(handlers') : handlers'[j].index = j - 1
  <2>1. ASSUME NEW j \in 1..Len(handlers') PROVE handlers'[j].index = j - 1
    <3>1. j \in 1..Len(hs) /\ j \in 1..Len(handlers)
      BY <1>1, <1>4, <1>5
    <3>2. CASE j >= i
      BY <1>5, <3>1, <3>2
    <3>3. CASE j < i
      <4>1. hs[j] = handlers[j]
        BY <1>3, <1>4, <3>1, <3>3
      <4>2. QED
        BY <1>1, <1>3, <1>5, <3>1, <3>3, <4>1
    <3>4. QED
      BY <1>1, <1>3, <3>1, <3>2, <3>3
  <2>2. QED
    BY <2>1
<1>7. QED
  BY <1>2, <1>5, <1>6, ChangedKeeps

\* replace() keeps every index.
LEMMA ReplaceKeeps ==
  ASSUME PipeInv, NEW old, NEW n \in Names, NEW h \in Handlers, Replace(old, n, h)
  PROVE  PipeInv'
<1> DEFINE i == Named(old)
<1>1. handlers \in Seq(Entry) /\ Len(handlers) \in Nat /\ DOMAIN handlers = 1..Len(handlers)
      /\ \A j \in 1..Len(handlers) : handlers[j].index = j - 1
  BY EntriesLen DEF PipeInv, TypeOK, IndexTracksPosition
<1>2. i # 0 /\ handlers' = [handlers EXCEPT ![i].name = n, ![i].h = h] /\ UNCHANGED <<stack, closed, msgs>>
  BY DEF Replace
<1>3. i \in 1..Len(handlers)
  BY <1>1, <1>2, NamedPosition
<1> HIDE DEF i
<1>4. handlers' = [handlers EXCEPT ![i] = [handlers[i] EXCEPT !.name = n, !.h = h]]
  BY <1>1, <1>2, <1>3
<1> DEFINE e == [handlers[i] EXCEPT !.name = n, !.h = h]
<1>5. handlers[i] \in Entry
  BY <1>1, <1>3
<1>6. e \in Entry /\ e.index = handlers[i].index
  BY <1>5 DEF Entry
<1> HIDE DEF e
<1>7. /\ handlers' \in Seq(Entry) /\ Len(handlers') = Len(handlers) /\ DOMAIN handlers' = 1..Len(handlers)
      /\ \A j \in 1..Len(handlers) : handlers'[j].index = handlers[j].index
  BY <1>1, <1>3, <1>4, <1>6 DEF e
<1>8. TypeOK'
  BY <1>2, <1>7 DEF PipeInv, TypeOK
<1>9. IndexTracksPosition'
  BY <1>1, <1>7 DEF IndexTracksPosition
<1>10. StackInv'
  BY <1>2, <1>7 DEF PipeInv, StackInv
<1>11. QED
  BY <1>8, <1>9, <1>10 DEF PipeInv

\* clear() leaves nothing, setContext() leaves the indices alone.
LEMMA ClearKeeps ==
  ASSUME PipeInv, Clear \/ SetContext
  PROVE  PipeInv'
<1>1. handlers \in Seq(Entry) /\ Len(handlers) \in Nat /\ DOMAIN handlers = 1..Len(handlers)
      /\ \A j \in 1..Len(handlers) : handlers[j].index = j - 1
  BY EntriesLen DEF PipeInv, TypeOK, IndexTracksPosition
<1>2. CASE Clear
  <2>1. handlers' = <<>> /\ stack = <<>> /\ UNCHANGED <<stack, closed, msgs>>
    BY <1>2 DEF Clear
  <2>2. QED
    BY <2>1, ChangedKeeps
<1>3. CASE SetContext
  <2>1. /\ stack = <<>> /\ UNCHANGED <<stack, closed, msgs>>
        /\ handlers' = [i \in 1..Len(handlers) |-> [handlers[i] EXCEPT !.bound = TRUE]]
    BY <1>1, <1>3 DEF SetContext
  <2>2. \A i \in 1..Len(handlers) : handlers[i] \in Entry
    BY <1>1
  <2>3. \A i \in 1..Len(handlers) : /\ [handlers[i] EXCEPT !.bound = TRUE] \in Entry
                                    /\ [handlers[i] EXCEPT !.bound = TRUE].index = handlers[i].index
    BY <2>2 DEF Entry
  <2>4. handlers' \in Seq(Entry) /\ Len(handlers') = Len(handlers)
    BY <1>1, <2>1, <2>3
  <2>5. \A j \in 1..Len(handlers') : handlers'[j].index = j - 1
    BY <1>1, <2>1, <2>3, <2>4
  <2>6. QED
    BY <2>1, <2>4, <2>5, ChangedKeeps
<1>4. QED
  BY <1>2, <1>3

\* A call of an entry, or of none, with a message that was made.
LEMMA CallKeeps ==
  ASSUME PipeInv, NEW ev \in Events, NEW all \in BOOLEAN, NEW i \in 0..Len(handlers), NEW m \in 0..MaxMsgs,
         Calls(ev, all, i, m), UNCHANGED handlers,
         closed' \in BOOLEAN, msgs' \in 0..MaxMsgs, msgs' >= msgs, msgs' >= m
  PROVE  PipeInv'
<1> DEFINE f == [ev |-> ev, all |-> all, pos |-> i, msg |-> m]
<1>1. stack \in Seq(Frame) /\ handlers \in Seq(Entry) /\ msgs \in Nat /\ msgs' \in Nat /\ MaxMsgs \in Nat
  BY BoundsAssumption DEF PipeInv, TypeOK
<1>2. Len(handlers) \in Nat /\ DOMAIN stack = 1..Len(stack) /\ Len(stack) \in Nat
  BY <1>1
<1>3. IndexTracksPosition'
  BY DEF PipeInv, IndexTracksPosition
<1>4. \A k \in 1..Len(stack) : stack[k].pos <= Len(handlers) /\ stack[k].msg <= msgs /\ stack[k].msg \in Nat
  <2>1. \A k \in 1..Len(stack) : stack[k] \in Frame
    BY <1>1
  <2>2. \A k \in 1..Len(stack) : stack[k].msg \in 0..MaxMsgs
    BY <2>1 DEF Frame
  <2>3. \A k \in 1..Len(stack) : stack[k].pos <= Len(handlers) /\ stack[k].msg <= msgs
    BY <1>2 DEF PipeInv, StackInv
  <2>4. QED
    BY <1>1, <2>2, <2>3
<1>5. CASE i = 0
  <2>1. stack' = stack
    BY <1>5 DEF Calls
  <2>2. TypeOK'
    BY <2>1 DEF PipeInv, TypeOK
  <2>3. \A k \in 1..Len(stack) : stack[k].msg <= msgs'
    BY <1>1, <1>4
  <2>4. StackInv'
    BY <1>2, <1>4, <2>1, <2>3 DEF StackInv
  <2>5. QED
    BY <1>3, <2>2, <2>4 DEF PipeInv
<1>6. CASE i # 0
  <2>1. stack' = Append(stack, f)
    BY <1>6 DEF Calls
  <2>2. f \in Frame /\ f.pos = i /\ f.msg = m
    BY <1>2, <1>6 DEF Frame
  <2> HIDE DEF f
  <2>3. /\ stack' \in Seq(Frame) /\ Len(stack') = Len(stack) + 1 /\ DOMAIN stack' = 1..Len(stack) + 1
        /\ \A k \in 1..Len(stack) : stack'[k] = stack[k]
        /\ stack'[Len(stack) + 1] = f
    BY <1>1, <2>1, <2>2
  <2>4. TypeOK'
    BY <2>3 DEF PipeInv, TypeOK
  <2>5. ASSUME NEW k \in 1..Len(stack) + 1
        PROVE  stack'[k].pos <= Len(handlers) /\ stack'[k].msg <= msgs'
    <3>1. CASE k = Len(stack) + 1
      BY <1>2, <2>2, <2>3, <3>1
    <3>2. CASE k \in 1..Len(stack)
      <4>1. stack[k].pos <= Len(handlers) /\ stack[k].msg <= msgs /\ stack[k].msg \in Nat
        BY <1>4, <3>2
      <4>2. stack[k].msg <= msgs'
        BY <1>1, <4>1
      <4>3. stack'[k] = stack[k]
        BY <2>3, <3>2
      <4>4. QED
        BY <4>1, <4>2, <4>3
    <3>3. QED
      BY <1>2, <3>1, <3>2
  <2>6. StackInv'
    BY <2>3, <2>5 DEF StackInv
  <2>7. QED
    BY <1>3, <2>4, <2>6 DEF PipeInv
<1>7. QED
  BY <1>5, <1>6

\* Both directions end at an entry or nowhere.
LEMMA Positions ==
  ASSUME PipeInv, NEW ev, NEW all, NEW i \in Nat \ {0}, NEW k \in 0..Len(handlers)
  PROVE  Upwards(ev, all, i) \in 0..Len(handlers) /\ Downwards(ev, k) \in 0..Len(handlers)
<1>1. handlers \in Seq(Entry) /\ Len(handlers) \in Nat /\ k \in Nat
  BY EntriesLen DEF PipeInv, TypeOK
<1>2. Upwards(ev, all, i) \in 0..Len(handlers)
  <2>1. Upwards(ev, all, i) # 0 => Upwards(ev, all, i) \in i..Len(handlers)
    BY <1>1, UpwardsFinds
  <2>2. QED
    BY <1>1, <2>1
<1>3. Downwards(ev, k) \in 0..Len(handlers)
  <2>1. Downwards(ev, k) # 0 => Downwards(ev, k) \in 1..k
    BY <1>1, DownwardsFinds
  <2>2. QED
    BY <1>1, <2>1
<1>4. QED
  BY <1>2, <1>3

\* What is known in every step of an event: sizes, indices, and messages.
LEMMA Facts ==
  ASSUME PipeInv
  PROVE  /\ handlers \in Seq(Entry) /\ Len(handlers) \in Nat /\ DOMAIN handlers = 1..Len(handlers)
         /\ \A c \in DOMAIN handlers : handlers[c].index = c - 1
         /\ closed \in BOOLEAN /\ msgs \in 0..MaxMsgs /\ MaxMsgs \in Nat /\ msgs \in Nat
         /\ stack \in Seq(Frame)
<1>1. handlers \in Seq(Entry) /\ stack \in Seq(Frame) /\ closed \in BOOLEAN /\ msgs \in 0..MaxMsgs /\ MaxMsgs \in Nat
  BY BoundsAssumption DEF PipeInv, TypeOK
<1>2. QED
  BY <1>1, EntriesLen DEF PipeInv, IndexTracksPosition

\* The pipeline fires an event.
LEMMA FireKeeps ==
  ASSUME PipeInv,
         \/ \E ev \in BroadcastEvents : FireAll(ev)
         \/ FireChannelRead
         \/ FireWrite
         \/ \E ev \in Signals : FireOut(ev)
  PROVE  PipeInv'
<1>0. 1 \in Nat \ {0} /\ Len(handlers) \in 0..Len(handlers) /\ 0 \in 0..MaxMsgs
  BY Facts
<1>1. ASSUME NEW ev \in BroadcastEvents, FireAll(ev) PROVE PipeInv'
  <2>1. Calls(ev, TRUE, Upwards(ev, TRUE, 1), 0) /\ UNCHANGED <<handlers, closed, msgs>> /\ ev \in Events
    BY <1>1 DEF FireAll, Events
  <2>2. Upwards(ev, TRUE, 1) \in 0..Len(handlers)
    BY <1>0, Positions
  <2>3. closed' \in BOOLEAN /\ msgs' \in 0..MaxMsgs /\ msgs' >= msgs /\ msgs' >= 0
    BY <2>1, Facts
  <2>4. QED
    BY <1>0, <2>1, <2>2, <2>3, CallKeeps
<1>2. ASSUME FireChannelRead PROVE PipeInv'
  <2>1. Calls("read", FALSE, Upwards("read", FALSE, 1), msgs + 1) /\ UNCHANGED <<handlers, closed>>
        /\ "read" \in Events /\ msgs < MaxMsgs /\ msgs' = msgs + 1
    BY <1>2 DEF FireChannelRead, Events
  <2>2. Upwards("read", FALSE, 1) \in 0..Len(handlers)
    BY <1>0, Positions
  <2>3. closed' \in BOOLEAN /\ msgs' \in 0..MaxMsgs /\ msgs' >= msgs /\ msgs' >= msgs + 1 /\ msgs + 1 \in 0..MaxMsgs
    BY <2>1, Facts
  <2>4. QED
    BY <2>1, <2>2, <2>3, CallKeeps
<1>3. ASSUME FireWrite PROVE PipeInv'
  <2>1. Calls("write", FALSE, Downwards("write", Len(handlers)), msgs + 1) /\ UNCHANGED <<handlers, closed>>
        /\ "write" \in Events /\ msgs < MaxMsgs /\ msgs' = msgs + 1
    BY <1>3 DEF FireWrite, Events, OutboundEvents
  <2>2. Downwards("write", Len(handlers)) \in 0..Len(handlers)
    BY <1>0, Positions
  <2>3. closed' \in BOOLEAN /\ msgs' \in 0..MaxMsgs /\ msgs' >= msgs /\ msgs' >= msgs + 1 /\ msgs + 1 \in 0..MaxMsgs
    BY <2>1, Facts
  <2>4. QED
    BY <2>1, <2>2, <2>3, CallKeeps
<1>4. ASSUME NEW ev \in Signals, FireOut(ev) PROVE PipeInv'
  <2>1. Calls(ev, FALSE, Downwards(ev, Len(handlers)), 0) /\ UNCHANGED <<handlers, closed, msgs>> /\ ev \in Events
    BY <1>4 DEF FireOut, Events, OutboundEvents
  <2>2. Downwards(ev, Len(handlers)) \in 0..Len(handlers)
    BY <1>0, Positions
  <2>3. closed' \in BOOLEAN /\ msgs' \in 0..MaxMsgs /\ msgs' >= msgs /\ msgs' >= 0
    BY <2>1, Facts
  <2>4. QED
    BY <1>0, <2>1, <2>2, <2>3, CallKeeps
<1>5. QED
  BY <1>1, <1>2, <1>3, <1>4

\* Nobody is called; messages may have been made.
LEMMA QuietKeeps ==
  ASSUME PipeInv, UNCHANGED <<handlers, stack, closed>>, msgs' \in 0..MaxMsgs, msgs' >= msgs
  PROVE  PipeInv'
<1>1. 0 \in 0..MaxMsgs /\ 0 \in 0..Len(handlers) /\ msgs' >= 0 /\ closed' \in BOOLEAN
  BY Facts
<1>2. "read" \in Events /\ Calls("read", FALSE, 0, 0)
  BY DEF Events, Calls
<1>3. QED
  BY <1>1, <1>2, CallKeeps

\* Context::close() tells every handler, or nobody.
LEMMA CloseKeeps ==
  ASSUME PipeInv, NEW c, ContextClose(c), UNCHANGED handlers, msgs' \in 0..MaxMsgs, msgs' >= msgs
  PROVE  PipeInv'
<1>0. 1 \in Nat \ {0} /\ Len(handlers) \in 0..Len(handlers) /\ 0 \in 0..MaxMsgs /\ msgs' >= 0
  BY Facts
<1>1. CASE handlers[c].bound /\ ~closed
  <2>1. closed' = TRUE /\ Calls("inactive", TRUE, Upwards("inactive", TRUE, 1), 0)
    BY <1>1 DEF ContextClose
  <2>2. Upwards("inactive", TRUE, 1) \in 0..Len(handlers)
    BY <1>0, Positions
  <2>3. "inactive" \in Events /\ closed' \in BOOLEAN
    BY <2>1 DEF Events, BroadcastEvents
  <2>4. QED
    BY <1>0, <2>1, <2>2, <2>3, CallKeeps
<1>2. CASE ~(handlers[c].bound /\ ~closed)
  <2>1. UNCHANGED <<closed, stack>>
    BY <1>2 DEF ContextClose
  <2>2. QED
    BY <2>1, QuietKeeps
<1>3. QED
  BY <1>1, <1>2

\* What a handler can send was made, or is made now.
LEMMA SendableMade ==
  ASSUME PipeInv, NEW ev, NEW m \in Sendable(ev), msgs' = IF m > msgs THEN m ELSE msgs
  PROVE  m \in 0..MaxMsgs /\ msgs' \in 0..MaxMsgs /\ msgs' >= msgs /\ msgs' >= m
<1>1. stack \in Seq(Frame) /\ msgs \in 0..MaxMsgs /\ MaxMsgs \in Nat
  BY Facts
<1>2. (m = msgs + 1 /\ msgs < MaxMsgs) \/ (stack # <<>> /\ m = Top.msg)
  BY DEF Sendable
<1>3. ASSUME stack # <<>> PROVE Top.msg \in 0..MaxMsgs
  <2>1. Len(stack) \in 1..Len(stack)
    BY <1>1, <1>3
  <2>2. stack[Len(stack)] \in Frame
    BY <1>1, <2>1
  <2>3. QED
    BY <2>2 DEF Top, Frame
<1>4. m \in 0..MaxMsgs
  BY <1>1, <1>2, <1>3
<1>5. QED
  BY <1>1, <1>4

\* A handler uses its context.
LEMMA ContextKeeps ==
  ASSUME PipeInv, NEW c \in DOMAIN handlers,
         \/ \E ev \in BroadcastEvents : CtxForward(c, ev)
         \/ \E ev \in Signals : CtxOut(c, ev)
         \/ \E m \in 1..MaxMsgs : CtxRead(c, m) \/ CtxWrite(c, m) \/ \E buf \in BOOLEAN : HeadWrite(c, m, buf)
         \/ CtxClose(c)
  PROVE  PipeInv'
<1>0. /\ handlers[c].index \in 0..Len(handlers) /\ handlers[c].index + 1 \in 0..Len(handlers)
      /\ handlers[c].index + 2 \in Nat \ {0} /\ 1 \in Nat \ {0}
      /\ 0 \in 0..MaxMsgs /\ msgs \in 0..MaxMsgs /\ msgs >= msgs /\ msgs >= 0
  BY Facts
<1>1. ASSUME NEW ev \in BroadcastEvents, CtxForward(c, ev) PROVE PipeInv'
  <2>1. Calls(ev, FALSE, Upwards(ev, FALSE, handlers[c].index + 2), 0) /\ UNCHANGED <<handlers, closed, msgs>> /\ ev \in Events
    BY <1>1 DEF CtxForward, Events
  <2>2. Upwards(ev, FALSE, handlers[c].index + 2) \in 0..Len(handlers)
    BY <1>0, Positions
  <2>3. closed' \in BOOLEAN /\ msgs' \in 0..MaxMsgs /\ msgs' >= msgs /\ msgs' >= 0
    BY <1>0, <2>1, Facts
  <2>4. QED
    BY <1>0, <2>1, <2>2, <2>3, CallKeeps
<1>2. ASSUME NEW ev \in Signals, CtxOut(c, ev) PROVE PipeInv'
  <2>1. Calls(ev, FALSE, Downwards(ev, handlers[c].index + 1), 0) /\ UNCHANGED <<handlers, closed, msgs>> /\ ev \in Events
    BY <1>2 DEF CtxOut, Events, OutboundEvents
  <2>2. Downwards(ev, handlers[c].index + 1) \in 0..Len(handlers)
    BY <1>0, Positions
  <2>3. closed' \in BOOLEAN /\ msgs' \in 0..MaxMsgs /\ msgs' >= msgs /\ msgs' >= 0
    BY <1>0, <2>1, Facts
  <2>4. QED
    BY <1>0, <2>1, <2>2, <2>3, CallKeeps
<1>3. ASSUME NEW m \in 1..MaxMsgs, CtxRead(c, m) PROVE PipeInv'
  <2>1. Calls("read", FALSE, Upwards("read", FALSE, handlers[c].index + 2), m) /\ UNCHANGED <<handlers, closed>>
        /\ "read" \in Events /\ m \in Sendable("read") /\ msgs' = IF m > msgs THEN m ELSE msgs
    BY <1>3 DEF CtxRead, Events
  <2>2. Upwards("read", FALSE, handlers[c].index + 2) \in 0..Len(handlers)
    BY <1>0, Positions
  <2>3. m \in 0..MaxMsgs /\ msgs' \in 0..MaxMsgs /\ msgs' >= msgs /\ msgs' >= m
    BY <2>1, SendableMade
  <2>4. closed' \in BOOLEAN
    BY <2>1, Facts
  <2>5. QED
    BY <2>1, <2>2, <2>3, <2>4, CallKeeps
<1>4. ASSUME NEW m \in 1..MaxMsgs, CtxWrite(c, m) PROVE PipeInv'
  <2>1. Calls("write", FALSE, Downwards("write", handlers[c].index), m) /\ UNCHANGED <<handlers, closed>>
        /\ "write" \in Events /\ m \in Sendable("write") /\ msgs' = IF m > msgs THEN m ELSE msgs
    BY <1>4 DEF CtxWrite, Events, OutboundEvents
  <2>2. Downwards("write", handlers[c].index) \in 0..Len(handlers)
    BY <1>0, Positions
  <2>3. m \in 0..MaxMsgs /\ msgs' \in 0..MaxMsgs /\ msgs' >= msgs /\ msgs' >= m
    BY <2>1, SendableMade
  <2>4. closed' \in BOOLEAN
    BY <2>1, Facts
  <2>5. QED
    BY <2>1, <2>2, <2>3, <2>4, CallKeeps
<1>5. ASSUME NEW m \in 1..MaxMsgs, NEW buf \in BOOLEAN, HeadWrite(c, m, buf) PROVE PipeInv'
  <2>1. m \in Sendable("write") /\ UNCHANGED handlers /\ msgs' = IF m > msgs THEN m ELSE msgs
    BY <1>5 DEF HeadWrite
  <2>2. ContextClose(c) \/ UNCHANGED <<closed, stack>>
    BY <1>5, Zenon DEF HeadWrite
  <2>3. msgs' \in 0..MaxMsgs /\ msgs' >= msgs
    BY <2>1, SendableMade
  <2>4. QED
    BY <2>1, <2>2, <2>3, CloseKeeps, QuietKeeps
<1>6. ASSUME CtxClose(c) PROVE PipeInv'
  <2>1. ContextClose(c) /\ UNCHANGED <<handlers, msgs>>
    BY <1>6 DEF CtxClose
  <2>2. msgs' \in 0..MaxMsgs /\ msgs' >= msgs
    BY <1>0, <2>1
  <2>3. QED
    BY <2>1, <2>2, CloseKeeps
<1>7. QED
  BY <1>1, <1>2, <1>3, <1>4, <1>5, <1>6

\* A call goes on at another entry.
LEMMA FrameMoves ==
  ASSUME NEW f \in Frame, NEW p \in Nat \ {0}
  PROVE  /\ [f EXCEPT !.pos = p] \in Frame
         /\ [f EXCEPT !.pos = p].pos = p /\ [f EXCEPT !.pos = p].msg = f.msg
BY DEF Frame

\* One call of the stack is replaced.
LEMMA FrameReplaced ==
  ASSUME NEW s \in Seq(Frame), NEW i \in 1..Len(s), NEW f \in Frame
  PROVE  /\ [s EXCEPT ![i] = f] \in Seq(Frame) /\ Len([s EXCEPT ![i] = f]) = Len(s)
         /\ [s EXCEPT ![i] = f][i] = f
         /\ \A k \in 1..Len(s) : k # i => [s EXCEPT ![i] = f][k] = s[k]
OBVIOUS

\* A handler returns: its call is over, or the next handler is called.
LEMMA ReturnKeeps ==
  ASSUME PipeInv, Return
  PROVE  PipeInv' /\ Len(stack') # Len(stack) + 1
<1> DEFINE n == Len(stack)
           next == IF Top.all THEN Upwards(Top.ev, TRUE, Top.pos + 1) ELSE 0
<1>1. /\ stack # <<>> /\ UNCHANGED <<handlers, closed, msgs>>
      /\ stack' = IF next = 0 THEN Front(stack) ELSE [stack EXCEPT ![n].pos = next]
  BY DEF Return
<1>2. stack \in Seq(Frame) /\ n \in Nat \ {0} /\ DOMAIN stack = 1..n /\ Len(handlers) \in Nat
  BY <1>1, Facts
<1>3. stack[n] \in Frame /\ \A k \in 1..n : stack[k].pos <= Len(handlers) /\ stack[k].msg <= msgs
  BY <1>2 DEF PipeInv, StackInv
<1>4. next \in 0..Len(handlers)
  <2>1. Top.pos + 1 \in Nat \ {0} /\ Len(handlers) \in 0..Len(handlers)
    BY <1>2, <1>3 DEF Top, Frame
  <2>2. Upwards(Top.ev, TRUE, Top.pos + 1) \in 0..Len(handlers)
    BY <2>1, Positions
  <2>3. next = 0 \/ next = Upwards(Top.ev, TRUE, Top.pos + 1)
    BY Zenon
  <2>4. 0 \in 0..Len(handlers)
    BY <1>2
  <2>5. QED
    BY <2>2, <2>3, <2>4, Zenon
<1> HIDE DEF next
<1>5. /\ stack' \in Seq(Frame) /\ Len(stack') <= n /\ Len(stack') \in Nat
      /\ \A k \in 1..Len(stack') : stack'[k].pos <= Len(handlers) /\ stack'[k].msg <= msgs
  <2>1. CASE next = 0
    <3>1. stack' = SubSeq(stack, 1, n - 1)
      BY <1>1, <2>1 DEF Front
    <3>2. stack' \in Seq(Frame) /\ Len(stack') = n - 1 /\ \A k \in 1..n - 1 : stack'[k] = stack[k]
      BY <1>2, <3>1
    <3>3. QED
      BY <1>2, <1>3, <3>2
  <2>2. CASE next # 0
    <3> DEFINE f == [stack[n] EXCEPT !.pos = next]
    <3>0. n \in 1..n /\ next \in Nat \ {0}
      BY <1>2, <1>4, <2>2
    <3>1. stack' = [stack EXCEPT ![n] = f]
      <4>1. stack' = [stack EXCEPT ![n].pos = next]
        BY <1>1, <2>2
      <4>2. QED
        BY <4>1, Zenon
    <3>2. f \in Frame /\ f.pos = next /\ f.msg = stack[n].msg
      BY <1>3, <3>0, FrameMoves, Zenon
    <3> HIDE DEF f
    <3>3. /\ stack' \in Seq(Frame) /\ Len(stack') = n /\ stack'[n] = f
          /\ \A k \in 1..n : k # n => stack'[k] = stack[k]
      BY <1>2, <3>0, <3>1, <3>2, FrameReplaced, ZenonT(40)
    <3>4. f.pos <= Len(handlers) /\ f.msg <= msgs
      BY <1>3, <1>4, <3>0, <3>2
    <3>5. \A k \in 1..n : stack'[k].pos <= Len(handlers) /\ stack'[k].msg <= msgs
      BY <1>3, <3>3, <3>4, Zenon
    <3>6. n <= n
      BY <1>2
    <3>7. QED
      BY <1>2, <3>3, <3>5, <3>6
  <2>3. QED
    BY <2>1, <2>2
<1>6. TypeOK'
  BY <1>1, <1>5 DEF PipeInv, TypeOK
<1>7. IndexTracksPosition'
  BY <1>1 DEF PipeInv, IndexTracksPosition
<1>8. StackInv'
  <2>1. DOMAIN stack' = 1..Len(stack')
    BY <1>5
  <2>2. QED
    BY <1>1, <1>5, <2>1 DEF StackInv
<1>9. Len(stack') # n + 1
  BY <1>2, <1>5
<1>10. QED
  BY <1>6, <1>7, <1>8, <1>9 DEF PipeInv

\* Changing the pipeline calls nobody.
LEMMA ChangeKeeps ==
  ASSUME PipeInv, Change
  PROVE  PipeInv' /\ stack' = stack
<1>0. handlers \in Seq(Entry) /\ Len(handlers) \in Nat
  BY Facts
<1>1. ASSUME NEW i \in 1..Len(handlers) + 1, NEW n \in Names, NEW h \in Handlers, AddEntry(i, n, h)
      PROVE  PipeInv' /\ stack' = stack
  BY <1>1, AddKeeps DEF AddEntry
<1>2. ASSUME NEW n \in Names, NEW h \in Handlers, AddFirst(n, h) \/ AddLast(n, h)
      PROVE  PipeInv' /\ stack' = stack
  <2>1. 1 \in 1..Len(handlers) + 1 /\ Len(handlers) + 1 \in 1..Len(handlers) + 1
    BY <1>0
  <2>2. QED
    BY <1>1, <1>2, <2>1 DEF AddFirst, AddLast
<1>3. ASSUME NEW base \in Names, NEW n \in Names, NEW h \in Handlers, AddBefore(base, n, h) \/ AddAfter(base, n, h)
      PROVE  PipeInv' /\ stack' = stack
  <2>1. Named(base) \in 1..Len(handlers)
    BY <1>0, <1>3, NamedPosition DEF AddBefore, AddAfter
  <2>2. Named(base) \in 1..Len(handlers) + 1 /\ Named(base) + 1 \in 1..Len(handlers) + 1
    BY <1>0, <2>1
  <2>3. QED
    BY <1>1, <1>3, <2>2 DEF AddBefore, AddAfter
<1>4. ASSUME NEW base \in Names, NEW n \in Names, NEW h \in Handlers, Replace(base, n, h)
      PROVE  PipeInv' /\ stack' = stack
  BY <1>4, ReplaceKeeps DEF Replace
<1>5. ASSUME NEW n \in Names, RemoveEntry(n) PROVE PipeInv' /\ stack' = stack
  BY <1>5, RemoveKeeps DEF RemoveEntry
<1>6. ASSUME Clear \/ SetContext PROVE PipeInv' /\ stack' = stack
  BY <1>6, ClearKeeps DEF Clear, SetContext
<1>7. QED
  BY <1>2, <1>3, <1>4, <1>5, <1>6 DEF Change

\* Every step keeps the inductive invariant.
LEMMA NextKeeps == PipeInv /\ [Next]_vars => PipeInv'
<1> SUFFICES ASSUME PipeInv, [Next]_vars PROVE PipeInv'
  OBVIOUS
<1>1. CASE Change
  BY <1>1, ChangeKeeps
<1>2. CASE Travel
  BY <1>2, FireKeeps, ContextKeeps, ReturnKeeps DEF Travel
<1>3. CASE UNCHANGED vars
  BY <1>3 DEF vars, PipeInv, TypeOK, IndexTracksPosition, StackInv
<1>4. QED
  BY <1>1, <1>2, <1>3 DEF Next

\* Entries, calls in progress and messages keep their types.
THEOREM TypeCorrect == Spec => []TypeOK
<1>1. PipeInv => TypeOK
  BY DEF PipeInv
<1>2. QED
  BY <1>1, InitInv, NextKeeps, PTL DEF Spec

\* Every context knows the position of its entry, whatever was added,
\* replaced and removed before, in pipelines of any size: what fire*() of a
\* ChannelHandlerContext starts from.
THEOREM IndexAlwaysTracks == Spec => []IndexTracksPosition
<1>1. PipeInv => IndexTracksPosition
  BY DEF PipeInv
<1>2. QED
  BY <1>1, InitInv, NextKeeps, PTL DEF Spec

---------------------------------------------------------------------------
(* Order of messages *)

\* What a step that makes one more call calls, for whom, with what.
LEMMA CalledLast ==
  ASSUME PipeInv, NEW ev \in Events, NEW all \in BOOLEAN, NEW i \in 0..Len(handlers), NEW m \in 0..MaxMsgs,
         Calls(ev, all, i, m), Len(stack') = Len(stack) + 1
  PROVE  i # 0 /\ Last(stack').ev = ev /\ Last(stack').pos = i /\ Last(stack').msg = m
<1> DEFINE f == [ev |-> ev, all |-> all, pos |-> i, msg |-> m]
<1>1. stack \in Seq(Frame) /\ Len(stack) \in Nat /\ Len(handlers) \in Nat
  BY Facts
<1>2. i # 0
  BY <1>1 DEF Calls
<1>3. f \in Frame /\ f.ev = ev /\ f.pos = i /\ f.msg = m
  BY <1>1, <1>2 DEF Frame
<1>4. stack' = Append(stack, f)
  BY <1>2 DEF Calls
<1> HIDE DEF f
<1>5. stack'[Len(stack')] = f
  BY <1>1, <1>3, <1>4
<1>6. QED
  BY <1>2, <1>3, <1>5 DEF Last

\* The innermost call is of an entry that is there, with an old message, and
\* it is the one whose context is used.
LEMMA TopFacts ==
  ASSUME PipeInv, Len(stack) > 0
  PROVE  stack # <<>> /\ Contexts = {Top.pos} /\ Top.msg \in Nat /\ Top.msg < msgs + 1
<1>1. stack \in Seq(Frame) /\ Len(stack) \in Nat /\ msgs \in Nat /\ MaxMsgs \in Nat
  BY Facts
<1>2. stack # <<>> /\ Len(stack) \in DOMAIN stack
  BY <1>1
<1>3. stack[Len(stack)] \in Frame /\ stack[Len(stack)].msg <= msgs
  BY <1>1, <1>2 DEF PipeInv, StackInv
<1>4. Top.msg \in 0..MaxMsgs /\ Top.msg <= msgs
  BY <1>3 DEF Top, Frame
<1>5. QED
  BY <1>1, <1>2, <1>4 DEF Contexts

\* Reads are for inbound handlers and writes for outbound ones; no other
\* event is called read or write.
LEMMA EventKinds ==
  /\ \A j : IsFor("read", FALSE, j) <=> handlers[j].h \in Inbound
  /\ \A j : IsFor("write", FALSE, j) <=> handlers[j].h \in Outbound
  /\ \A ev \in BroadcastEvents \cup Signals : ev \notin {"read", "write"}
<1>1. "read" \notin OutboundEvents /\ "write" \in OutboundEvents
  BY EventsAssumption DEF OutboundEvents
<1>2. QED
  BY <1>1, EventsAssumption DEF IsFor, BroadcastEvents

\* What PropagationOrder says of one step.
PassedOn == Len(stack) > 0 /\ Len(stack') = Len(stack) + 1 /\ Last(stack').ev = Top.ev
              /\ Top.ev \in {"read", "write"} /\ Last(stack').msg = Top.msg
ReachesNext ==
  LET from == Top.pos
      to == Last(stack').pos
  IN IF Top.ev = "read"
     THEN to > from /\ handlers[to].h \in Inbound
          /\ \A j \in from + 1..to - 1 : handlers[j].h \notin Inbound
     ELSE to < from /\ handlers[to].h \in Outbound
          /\ \A j \in to + 1..from - 1 : handlers[j].h \notin Outbound

\* fireChannelRead() of a context goes to the next inbound entry.
LEMMA ReadPassedOn ==
  ASSUME PipeInv, PassedOn, NEW c \in DOMAIN handlers, NEW m \in 1..MaxMsgs, CtxRead(c, m)
  PROVE  ReachesNext
<1> DEFINE u == Upwards("read", FALSE, handlers[c].index + 2)
<1>1. c = Top.pos
  BY TopFacts DEF CtxRead, PassedOn
<1>2. handlers \in Seq(Entry) /\ c \in Nat \ {0} /\ handlers[c].index + 2 = c + 1 /\ Len(handlers) \in Nat
  BY Facts
<1>3. c + 1 \in Nat \ {0} /\ Len(handlers) \in 0..Len(handlers) /\ m \in 0..MaxMsgs
  BY <1>2, Facts
<1>4. u \in 0..Len(handlers)
  BY <1>2, <1>3, Positions
<1>5. u # 0 /\ Last(stack').ev = "read" /\ Last(stack').pos = u
  <2>1. Calls("read", FALSE, u, m) /\ "read" \in Events
    BY DEF CtxRead, Events
  <2>2. Len(stack') = Len(stack) + 1
    BY DEF PassedOn
  <2> HIDE DEF u
  <2>3. QED
    BY <1>3, <1>4, <2>1, <2>2, CalledLast
<1>6. u \in c + 1..Len(handlers) /\ IsFor("read", FALSE, u) /\ \A j \in c + 1..u - 1 : ~IsFor("read", FALSE, j)
  <2>1. u = Upwards("read", FALSE, c + 1)
    BY <1>2
  <2> HIDE DEF u
  <2>2. QED
    BY <1>2, <1>3, <1>5, <2>1, UpwardsFinds
<1> HIDE DEF u
<1>7. u > c /\ handlers[u].h \in Inbound /\ \A j \in c + 1..u - 1 : handlers[j].h \notin Inbound
  <2>1. u > c
    BY <1>2, <1>6
  <2>2. handlers[u].h \in Inbound /\ \A j \in c + 1..u - 1 : handlers[j].h \notin Inbound
    BY <1>6, EventKinds, Zenon
  <2>3. QED
    BY <2>1, <2>2
<1>8. Top.ev = "read"
  BY <1>5 DEF PassedOn
<1>9. QED
  BY <1>1, <1>5, <1>7, <1>8 DEF ReachesNext

\* fireWrite() of a context goes to the previous outbound entry.
LEMMA WritePassedOn ==
  ASSUME PipeInv, PassedOn, NEW c \in DOMAIN handlers, NEW m \in 1..MaxMsgs, CtxWrite(c, m)
  PROVE  ReachesNext
<1> DEFINE u == Downwards("write", handlers[c].index)
<1>1. c = Top.pos
  BY TopFacts DEF CtxWrite, PassedOn
<1>2. handlers \in Seq(Entry) /\ c \in Nat \ {0} /\ handlers[c].index = c - 1 /\ Len(handlers) \in Nat
  BY Facts
<1>3. c - 1 \in Nat /\ c - 1 \in 0..Len(handlers) /\ m \in 0..MaxMsgs /\ 1 \in Nat \ {0}
  BY <1>2, Facts
<1>4. u \in 0..Len(handlers)
  BY <1>2, <1>3, Positions
<1>5. u # 0 /\ Last(stack').ev = "write" /\ Last(stack').pos = u
  <2>1. Calls("write", FALSE, u, m) /\ "write" \in Events
    BY DEF CtxWrite, Events, OutboundEvents
  <2>2. Len(stack') = Len(stack) + 1
    BY DEF PassedOn
  <2> HIDE DEF u
  <2>3. QED
    BY <1>3, <1>4, <2>1, <2>2, CalledLast
<1>6. u \in 1..c - 1 /\ IsFor("write", FALSE, u) /\ \A j \in u + 1..c - 1 : ~IsFor("write", FALSE, j)
  <2>1. u = Downwards("write", c - 1)
    BY <1>2
  <2> HIDE DEF u
  <2>2. Downwards("write", c - 1) # 0
    BY <1>5, <2>1
  <2>3. /\ Downwards("write", c - 1) \in 1..c - 1 /\ IsFor("write", FALSE, Downwards("write", c - 1))
        /\ \A j \in Downwards("write", c - 1) + 1..c - 1 : ~IsFor("write", FALSE, j)
    BY <1>2, <1>3, <2>2, DownwardsFinds, Zenon
  <2>4. QED
    BY <2>1, <2>3, Zenon
<1> HIDE DEF u
<1>7. u < c /\ handlers[u].h \in Outbound /\ \A j \in u + 1..c - 1 : handlers[j].h \notin Outbound
  <2>1. u < c
    BY <1>2, <1>6
  <2>2. handlers[u].h \in Outbound /\ \A j \in u + 1..c - 1 : handlers[j].h \notin Outbound
    BY <1>6, EventKinds, Zenon
  <2>3. QED
    BY <2>1, <2>2
<1>8. Top.ev # "read"
  BY <1>5 DEF PassedOn
<1>9. QED
  BY <1>1, <1>5, <1>7, <1>8 DEF ReachesNext

\* No other step passes a message on.
LEMMA OthersPassNothing ==
  ASSUME PipeInv, PassedOn, NEW ev \in Events, NEW all \in BOOLEAN, NEW i \in 0..Len(handlers),
         NEW m \in 0..MaxMsgs, Calls(ev, all, i, m)
  PROVE  ev \in {"read", "write"} /\ m < msgs + 1
<1>1. Last(stack').ev = ev /\ Last(stack').msg = m
  BY CalledLast DEF PassedOn
<1>2. QED
  BY <1>1, TopFacts DEF PassedOn

\* Every step passes messages on in order.
LEMMA StepInOrder == PipeInv /\ [Next]_vars /\ PassedOn => ReachesNext
<1> SUFFICES ASSUME PipeInv, [Next]_vars, PassedOn PROVE ReachesNext
  OBVIOUS
<1>0. /\ handlers \in Seq(Entry) /\ Len(handlers) \in Nat /\ msgs \in Nat /\ MaxMsgs \in Nat
      /\ 1 \in Nat \ {0} /\ Len(handlers) \in 0..Len(handlers) /\ 0 \in 0..MaxMsgs
      /\ stack # <<>> /\ stack' # stack
  BY Facts, TopFacts DEF PassedOn
<1>1. CASE Change
  BY <1>0, <1>1, ChangeKeeps
<1>2. ASSUME NEW ev \in BroadcastEvents, FireAll(ev) PROVE FALSE
  BY <1>0, <1>2 DEF FireAll
<1>3. ASSUME NEW ev \in BroadcastEvents, NEW c \in DOMAIN handlers, CtxForward(c, ev) PROVE FALSE
  <2>1. Calls(ev, FALSE, Upwards(ev, FALSE, handlers[c].index + 2), 0) /\ ev \in Events
    BY <1>3 DEF CtxForward, Events
  <2>2. handlers[c].index + 2 \in Nat \ {0}
    BY Facts
  <2>3. Upwards(ev, FALSE, handlers[c].index + 2) \in 0..Len(handlers)
    BY <1>0, <2>2, Positions
  <2>4. ev \in {"read", "write"}
    BY <1>0, <2>1, <2>3, OthersPassNothing
  <2>5. QED
    BY <2>4, EventKinds
<1>4. ASSUME FireChannelRead PROVE FALSE
  BY <1>0, <1>4 DEF FireChannelRead
<1>5. ASSUME FireWrite PROVE FALSE
  <2>1. Calls("write", FALSE, Downwards("write", Len(handlers)), msgs + 1) /\ "write" \in Events /\ msgs + 1 \in 0..MaxMsgs
    <3>1. Calls("write", FALSE, Downwards("write", Len(handlers)), msgs + 1) /\ msgs < MaxMsgs
      BY <1>5 DEF FireWrite
    <3>2. "write" \in Events
      BY DEF Events, OutboundEvents
    <3>3. msgs + 1 \in 0..MaxMsgs
      BY <1>0, <3>1
    <3>4. QED
      BY <3>1, <3>2, <3>3
  <2>2. Downwards("write", Len(handlers)) \in 0..Len(handlers)
    BY <1>0, Positions
  <2>3. msgs + 1 < msgs + 1
    BY <2>1, <2>2, OthersPassNothing
  <2>4. QED
    BY <1>0, <2>3
<1>6. ASSUME NEW ev \in Signals, FireOut(ev) PROVE FALSE
  <2>1. Calls(ev, FALSE, Downwards(ev, Len(handlers)), 0) /\ ev \in Events
    BY <1>6 DEF FireOut, Events, OutboundEvents
  <2>2. Downwards(ev, Len(handlers)) \in 0..Len(handlers)
    BY <1>0, Positions
  <2>3. ev \in {"read", "write"}
    BY <1>0, <2>1, <2>2, OthersPassNothing
  <2>4. QED
    BY <2>3, EventKinds
<1>7. ASSUME NEW ev \in Signals, NEW c \in DOMAIN handlers, CtxOut(c, ev) PROVE FALSE
  <2>1. Calls(ev, FALSE, Downwards(ev, handlers[c].index + 1), 0) /\ ev \in Events
    BY <1>7 DEF CtxOut, Events, OutboundEvents
  <2>2. handlers[c].index + 1 \in 0..Len(handlers)
    BY Facts
  <2>3. Downwards(ev, handlers[c].index + 1) \in 0..Len(handlers)
    BY <1>0, <2>2, Positions
  <2>4. ev \in {"read", "write"}
    BY <1>0, <2>1, <2>3, OthersPassNothing
  <2>5. QED
    BY <2>4, EventKinds
<1>8. ASSUME NEW c, ContextClose(c) PROVE FALSE
  <2>1. Calls("inactive", TRUE, Upwards("inactive", TRUE, 1), 0) /\ "inactive" \in Events
    BY <1>0, <1>8 DEF ContextClose, Events, BroadcastEvents
  <2>2. Upwards("inactive", TRUE, 1) \in 0..Len(handlers)
    BY <1>0, Positions
  <2>3. "inactive" \in {"read", "write"}
    BY <1>0, <2>1, <2>2, OthersPassNothing
  <2>4. QED
    BY <2>3
<1>9. ASSUME NEW c \in DOMAIN handlers, NEW m \in 1..MaxMsgs, NEW buf \in BOOLEAN, HeadWrite(c, m, buf) PROVE FALSE
  <2>1. ContextClose(c) \/ UNCHANGED <<closed, stack>>
    BY <1>9, Zenon DEF HeadWrite
  <2>2. QED
    BY <1>0, <1>8, <2>1
<1>10. ASSUME NEW c \in DOMAIN handlers, CtxClose(c) PROVE FALSE
  BY <1>8, <1>10 DEF CtxClose
<1>11. ASSUME Return PROVE FALSE
  BY <1>11, ReturnKeeps DEF PassedOn
<1>12. CASE Travel
  BY <1>2, <1>3, <1>4, <1>5, <1>6, <1>7, <1>9, <1>10, <1>11, <1>12, ReadPassedOn, WritePassedOn DEF Travel
<1>13. CASE UNCHANGED vars
  BY <1>0, <1>13 DEF vars
<1>14. QED
  BY <1>1, <1>12, <1>13 DEF Next

\* A handler that passes a read or a write on reaches the next handler of
\* the right kind and skips none, in pipelines of any size and at any depth
\* of calls: forNextInbound() and forPrevOutbound() with index_.
THEOREM PropagationAlwaysOrdered == Spec => PropagationOrder
<1>1. PipeInv /\ [Next]_vars => [PassedOn => ReachesNext]_vars
  BY StepInOrder
<1>2. Spec => [][PassedOn => ReachesNext]_vars
  BY <1>1, InitInv, NextKeeps, PTL DEF Spec
<1>3. QED
  BY <1>2 DEF PropagationOrder, PassedOn, ReachesNext
============================================================================
