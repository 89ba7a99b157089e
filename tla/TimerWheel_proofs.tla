------------------------- MODULE TimerWheel_proofs -------------------------
(***************************************************************************)
(* Proofs about the timer wheel, for every number of slots, tick length,   *)
(* set of delays and number of timers, with and without callbacks that     *)
(* throw.                                                                  *)
(***************************************************************************)
EXTENDS TimerWheel, TLAPS

-----------------------------------------------------------------------------
(* Arithmetic of the wheel.                                                *)

\* Quotient and remainder.
LEMMA DivMod ==
  ASSUME NEW n \in Nat \ {0}, NEW a \in Nat
  PROVE  /\ a \div n \in Int /\ a % n \in 0..n - 1
         /\ a = (n * (a \div n)) + (a % n)
<1>1. a \div n \in Int /\ a % n \in 0..n - 1 OBVIOUS
<1>2. (n * (a \div n)) + (a % n) = a OBVIOUS
<1> QED BY <1>1, <1>2, Zenon

\* Multiplication by a positive number reflects the order.
LEMMA TimesOrder ==
  ASSUME NEW n \in Nat \ {0}, NEW p \in Int, NEW q \in Int
  PROVE  /\ n * p < n * q => p < q
         /\ n * p \in Int /\ n * (p + 1) = n * p + n
  OBVIOUS

\* Two numbers with the same remainder that are at most n apart are n apart.
LEMMA SameRemainder ==
  ASSUME NEW n \in Nat \ {0}, NEW p \in Int, NEW q \in Int, NEW r \in Int, NEW a \in Int, NEW b \in Int,
         a = (n * p) + r, b = (n * q) + r, a < b, b <= a + n
  PROVE  b = a + n
<1>1. n * p < n * q /\ n * q <= n * p + n BY TimesOrder
<1>2. p < q BY <1>1, TimesOrder
<1>3. n * (p + 1 + 1) = n * p + n + n BY TimesOrder
<1>4. n * q < n * (p + 1 + 1) BY <1>1, <1>3, TimesOrder
<1>5. q < p + 1 + 1 BY <1>4, TimesOrder
<1>6. q = p + 1 BY <1>2, <1>5
<1> QED BY <1>6, TimesOrder

\* The remainder is determined by the number.
LEMMA RemainderUnique ==
  ASSUME NEW n \in Nat \ {0}, NEW p \in Int, NEW q \in Int, NEW r \in 0..n - 1, NEW s \in 0..n - 1,
         (n * p) + r = (n * q) + s
  PROVE  r = s
<1>1. n * p < n * (q + 1) /\ n * q < n * (p + 1) BY TimesOrder
<1>2. p < q + 1 /\ q < p + 1 BY <1>1, TimesOrder
<1>3. p = q BY <1>2
<1> QED BY <1>3, TimesOrder

\* A slot of the wheel comes round exactly once per revolution: addTimer and
\* tick() agree on the slot, expirationTick % numSlots_ and currentTick_ % numSlots_.
LEMMA ModDistinct ==
  ASSUME NEW n \in Nat \ {0}, NEW a \in Nat, NEW b \in Nat, a < b, b <= a + n, a % n = b % n
  PROVE b = a + n
<1> DEFINE p == a \div n   q == b \div n   r == a % n
<1>1. a = (n * p) + r /\ p \in Int /\ r \in 0..n - 1 BY DivMod, Zenon
<1>2. b = (n * q) + r /\ q \in Int BY DivMod, Zenon
<1> HIDE DEF p, q, r
<1>3. r \in Int /\ a \in Int /\ b \in Int BY <1>1
<1> QED BY <1>1, <1>2, <1>3, SameRemainder
\* After a revolution the wheel is at the same slot.
LEMMA ModPeriod ==
  ASSUME NEW n \in Nat \ {0}, NEW a \in Nat
  PROVE (a + n) % n = a % n
<1>0. a + n \in Nat OBVIOUS
<1> DEFINE p == a \div n   q == (a + n) \div n   r == a % n   s == (a + n) % n
<1>1. a = (n * p) + r /\ p \in Int /\ r \in 0..n - 1 BY DivMod, Zenon
<1>2. a + n = (n * q) + s /\ q \in Int /\ s \in 0..n - 1 BY <1>0, DivMod, Zenon
<1> HIDE DEF p, q, r, s
<1>3. (n * (p + 1)) + r = (n * q) + s BY <1>1, <1>2, TimesOrder
<1>4. p + 1 \in Int BY <1>1
<1>5. r = s BY <1>1, <1>2, <1>3, <1>4, RemainderUnique, Zenon
<1> QED BY <1>5 DEF r, s

\* addTimer rounds every delay to a number of ticks, which is zero or more.
LEMMA TicksOfNat ==
  ASSUME NEW d \in Delays
  PROVE  TicksOf(d) \in Nat
<1>1. d + TickMs - 1 \in Nat BY DelaysAssumption, TickMsAssumption
<1>2. \A x \in Nat : x \div TickMs \in Nat BY TickMsAssumption, SMTT(30)
<1> QED BY <1>1, <1>2 DEF TicksOf

-----------------------------------------------------------------------------
(* Type correctness.                                                       *)

\* The wheel is constructed empty, at tick 0.
LEMMA TypeInit == Init => TypeOK
<1> SUFFICES ASSUME Init PROVE TypeOK OBVIOUS
<1>1. slots \in [0..NumSlots - 1 -> SUBSET Entry] BY DEF Init
<1>2. fired \in SUBSET [entry : Entry, tick : Nat, time : Nat] BY DEF Init
<1> QED BY <1>1, <1>2 DEF Init, TypeOK

\* No operation of the wheel or the loop leaves the types.
LEMMA TypeStep == TypeOK /\ [Next]_vars => TypeOK'
<1> SUFFICES ASSUME TypeOK, [Next]_vars PROVE TypeOK' OBVIOUS
<1> USE NumSlotsAssumption, TickMsAssumption
<1>1. ASSUME NEW d \in Delays, AddTimer(d) PROVE TypeOK'
  <2> DEFINE t == currentTick + TicksOf(d)
  <2>1. t \in Nat BY TicksOfNat DEF TypeOK
  <2>2. now \div TickMs - currentTick \in Int BY DEF TypeOK
  <2>3. [id |-> nextId, expirationTick |-> t, canceled |-> FALSE, delay |-> d, at |-> now,
         nested |-> inCallback, lag |-> now \div TickMs - currentTick] \in Entry
    BY <2>1, <2>2 DEF TypeOK, Entry
  <2>4. slots' \in [0..NumSlots - 1 -> SUBSET Entry]
    <3> DEFINE s == t % NumSlots
    <3> HIDE DEF t
    <3>1. s \in 0..NumSlots - 1 BY <2>1, DivMod
    <3> HIDE DEF s
    <3> QED BY <1>1, <2>3, <3>1 DEF AddTimer, TypeOK, s, t
  <2> QED BY <1>1, <2>4 DEF AddTimer, TypeOK, clockVars, histVars
<1>2. ASSUME NEW i \in 0..MaxTimers - 1, CancelTimer(i) PROVE TypeOK'
  <2>1. \A e \in Entry : [e EXCEPT !.canceled = TRUE] \in Entry BY DEF Entry
  <2>2. slots' \in [0..NumSlots - 1 -> SUBSET Entry] BY <1>2, <2>1 DEF CancelTimer, TypeOK
  <2>3. i \in Nat BY BoundsAssumption
  <2> QED BY <1>2, <2>2, <2>3 DEF CancelTimer, TypeOK, clockVars
<1>3. ASSUME AdvanceTimer PROVE TypeOK'
  <2>1. \A x \in Nat : x \div TickMs \in Nat BY SMTT(30)
  <2>2. now - lastTimerTick \in Nat BY <1>3 DEF AdvanceTimer, TypeOK
  <2> QED BY <1>3, <2>1, <2>2 DEF AdvanceTimer, TypeOK, wheelVars, histVars
<1>4. ASSUME TickBegin PROVE TypeOK'
  <2>1. currentTick % NumSlots \in 0..NumSlots - 1 BY DivMod DEF TypeOK
  <2> QED BY <1>4, <2>1 DEF TickBegin, TypeOK, clockVars, histVars
<1>5. ASSUME FireNext PROVE TypeOK'
  <2>1. PICK e \in toFire :
          /\ toFire' = toFire \ {e}
          /\ fired' = fired \cup {[entry |-> e, tick |-> currentTick, time |-> now]}
    BY <1>5 DEF FireNext
  <2>2. [entry |-> e, tick |-> currentTick, time |-> now] \in [entry : Entry, tick : Nat, time : Nat]
    BY DEF TypeOK
  <2>3. fired' \in SUBSET [entry : Entry, tick : Nat, time : Nat] BY <2>1, <2>2 DEF TypeOK
  <2> QED BY <1>5, <2>1, <2>3 DEF FireNext, TypeOK, wheelVars, clockVars
<1>6. ASSUME CallbackThrows PROVE TypeOK'
  BY <1>6 DEF CallbackThrows, TypeOK, wheelVars, clockVars
<1>7. ASSUME TickEnd PROVE TypeOK'
  <2>1. lastTimerTick + catchUp * TickMs \in Nat BY DEF TypeOK
  <2>2. lastTimerTick' \in Nat BY <1>7, <2>1 DEF TickEnd, TypeOK
  <2>3. currentTick' \in Nat /\ ticked' \in Nat /\ pc' \in {"idle", "tick", "fire"}
    BY <1>7 DEF TickEnd, TypeOK
  <2>4. inCallback' = FALSE /\ UNCHANGED <<nextId, slots, toFire, now, catchUp, histVars>>
    BY <1>7 DEF TickEnd
  <2> QED BY <2>2, <2>3, <2>4 DEF TypeOK, histVars
<1>8. ASSUME ClockAdvances PROVE TypeOK'
  BY <1>8 DEF ClockAdvances, TypeOK, wheelVars, clockVars, histVars
<1>9. CASE UNCHANGED vars BY <1>9 DEF vars, TypeOK, wheelVars, clockVars, histVars
<1> QED BY <1>1, <1>2, <1>3, <1>4, <1>5, <1>6, <1>7, <1>8, <1>9 DEF Next

\* Every variable keeps its type: slot indices stay inside slots_, ticks and
\* ids never become negative.
THEOREM TypeCorrect == Spec => []TypeOK
BY TypeInit, TypeStep, PTL DEF Spec

-----------------------------------------------------------------------------
(* Every timer fires on its tick.  FiresOnItsTick speaks of timers that    *)
(* have run; to carry it the invariant says of those still in the wheel    *)
(* that they are in the slot of their tick and that this tick is not past. *)

\* An entry is in the slot of its expiration tick.
SlotAgrees ==
  \A s \in 0..NumSlots - 1 : \A e \in slots[s] : e.expirationTick % NumSlots = s

\* An entry of the wheel is due at the current tick or later; while callbacks
\* run, tick() has been through the current slot, and later.  The exception
\* are zero-delay timers armed by a callback: less than a revolution past.
Pending(e) ==
  IF pc = "fire"
    THEN \/ e.expirationTick > currentTick
         \/ MissedItsTick(e) /\ e.expirationTick <= currentTick
              /\ currentTick < e.expirationTick + NumSlots
    ELSE \/ e.expirationTick >= currentTick
         \/ MissedItsTick(e) /\ e.expirationTick < currentTick
              /\ currentTick <= e.expirationTick + NumSlots
NoneOverdue == \A s \in 0..NumSlots - 1 : \A e \in slots[s] : Pending(e)

DueNow(e) ==
  \/ e.expirationTick = currentTick
  \/ MissedItsTick(e) /\ currentTick = e.expirationTick + NumSlots
FiringIsDue == \A e \in toFire : DueNow(e)
FiringOnlyInTick == (toFire # {} \/ inCallback) => pc = "fire"

TickInv ==
  TypeOK /\ SlotAgrees /\ NoneOverdue /\ FiringIsDue /\ FiringOnlyInTick /\ FiresOnItsTick

\* An empty wheel has no entry in a wrong slot.
LEMMA TickInvInit == Init => TickInv
<1> SUFFICES ASSUME Init PROVE TickInv OBVIOUS
<1>1. TypeOK BY TypeInit
<1> QED
  BY <1>1 DEF Init, TickInv, SlotAgrees, NoneOverdue, FiringIsDue, FiringOnlyInTick, FiresOnItsTick

\* cancelTimer only sets the flag of an entry: it stays where it is and keeps
\* everything else.
LEMMA CancelKeeps ==
  ASSUME NEW i, CancelTimer(i), TypeOK, NEW s \in 0..NumSlots - 1, NEW e \in slots'[s]
  PROVE  \E f \in slots[s] :
           /\ e \in Entry
           /\ e = (IF f.id = i THEN [f EXCEPT !.canceled = TRUE] ELSE f)
           /\ e.id = f.id /\ e.expirationTick = f.expirationTick
           /\ e.nested = f.nested /\ e.delay = f.delay /\ e.at = f.at /\ e.lag = f.lag
           /\ e.canceled = (f.canceled \/ f.id = i)
<1>1. slots'[s] = {IF f.id = i THEN [f EXCEPT !.canceled = TRUE] ELSE f : f \in slots[s]}
  BY DEF CancelTimer, TypeOK
<1>2. PICK f \in slots[s] : e = (IF f.id = i THEN [f EXCEPT !.canceled = TRUE] ELSE f) BY <1>1
<1>3. f \in Entry BY DEF TypeOK
<1> QED BY <1>2, <1>3 DEF Entry

\* addTimer, cancelTimer and tick keep every entry in the slot and the round of its tick.
LEMMA TickInvStep == TickInv /\ [Next]_vars => TickInv'
<1> SUFFICES ASSUME TickInv, [Next]_vars PROVE TickInv' OBVIOUS
<1>0. TypeOK' BY TypeStep DEF TickInv
<1> USE NumSlotsAssumption DEF TickInv
<1>1. ASSUME NEW d \in Delays, AddTimer(d) PROVE TickInv'
  <2> DEFINE t == currentTick + TicksOf(d)
             entry == [id |-> nextId, expirationTick |-> t, canceled |-> FALSE, delay |-> d,
                       at |-> now, nested |-> inCallback, lag |-> now \div TickMs - currentTick]
  <2>1. TicksOf(d) \in Nat /\ currentTick \in Nat /\ t \in Nat BY TicksOfNat DEF TypeOK
  <2>2. ASSUME NEW s \in 0..NumSlots - 1, NEW e \in slots'[s]
        PROVE  e \in slots[s] \/ (e = entry /\ s = t % NumSlots)
    BY <1>1, <2>2 DEF AddTimer, TypeOK
  <2>3. entry.expirationTick = t /\ entry.nested = inCallback /\ entry.delay = d OBVIOUS
  <2>4. pc = "fire" => inCallback BY <1>1 DEF AddTimer, UserCodeRuns
  <2>5. Pending(entry)
    <3>1. CASE TicksOf(d) = 0
      BY <3>1, <2>1, <2>3, <2>4 DEF Pending, MissedItsTick
    <3>2. CASE TicksOf(d) > 0
      <4>1. t > currentTick BY <3>2, <2>1
      <4> QED BY <4>1, <2>1, <2>3 DEF Pending
    <3> QED BY <3>1, <3>2, <2>1
  <2> HIDE DEF entry
  <2>6. UNCHANGED <<currentTick, toFire, pc, inCallback, fired>> BY <1>1 DEF AddTimer, histVars
  <2>7. SlotAgrees' BY <2>2, <2>3 DEF SlotAgrees
  <2>8. NoneOverdue' BY <2>2, <2>5, <2>6 DEF NoneOverdue, Pending
  <2> QED
    BY <1>0, <2>6, <2>7, <2>8 DEF FiringIsDue, DueNow, FiringOnlyInTick, FiresOnItsTick
<1>2. ASSUME NEW i \in 0..MaxTimers - 1, CancelTimer(i) PROVE TickInv'
  <2>1. UNCHANGED <<currentTick, toFire, pc, inCallback, fired>> BY <1>2 DEF CancelTimer
  <2>2. SlotAgrees' BY <1>2, CancelKeeps DEF SlotAgrees
  <2>3. NoneOverdue'
    <3> SUFFICES ASSUME NEW s \in 0..NumSlots - 1, NEW e \in slots'[s] PROVE Pending(e)'
      BY DEF NoneOverdue
    <3>1. PICK f \in slots[s] : /\ e.expirationTick = f.expirationTick
                                /\ e.nested = f.nested /\ e.delay = f.delay
      BY <1>2, CancelKeeps
    <3>2. Pending(f) BY DEF NoneOverdue
    <3> QED BY <2>1, <3>1, <3>2 DEF Pending, MissedItsTick
  <2> QED
    BY <1>0, <2>1, <2>2, <2>3 DEF FiringIsDue, DueNow, FiringOnlyInTick, FiresOnItsTick
<1>3. ASSUME AdvanceTimer PROVE TickInv'
  <2>1. pc = "idle" /\ pc' = "tick" /\ UNCHANGED <<wheelVars, toFire, inCallback, fired>>
    BY <1>3 DEF AdvanceTimer, histVars
  <2> QED BY <1>0, <2>1 DEF wheelVars, SlotAgrees, NoneOverdue, Pending, FiringIsDue, DueNow,
                           FiringOnlyInTick, FiresOnItsTick
<1>4. ASSUME TickBegin PROVE TickInv'
  <2> DEFINE slot == currentTick % NumSlots
  <2>1. slot \in 0..NumSlots - 1 BY DivMod DEF TypeOK
  <2>2. /\ pc = "tick" /\ pc' = "fire" /\ UNCHANGED <<currentTick, inCallback, fired>>
        /\ \A e \in toFire' : e \in slots[slot] /\ e.expirationTick <= currentTick
        /\ \A e \in slots'[slot] : e \in slots[slot] /\ e.expirationTick > currentTick
        /\ \A s \in 0..NumSlots - 1 : s # slot => slots'[s] = slots[s]
    BY <1>4, <2>1 DEF TickBegin, histVars, TypeOK
  <2>3. \A s \in 0..NumSlots - 1 : \A e \in slots[s] :
          e \in Entry /\ e.expirationTick \in Nat /\ e.expirationTick % NumSlots = s
    BY DEF TypeOK, Entry, SlotAgrees
  <2>4. currentTick \in Nat BY DEF TypeOK
  <2>5. SlotAgrees' BY <2>1, <2>2, <2>3 DEF SlotAgrees
  <2>6. FiringIsDue'
    <3> SUFFICES ASSUME NEW e \in toFire' PROVE DueNow(e)
      BY <2>2 DEF FiringIsDue, DueNow
    <3>1. e \in slots[slot] /\ e.expirationTick <= currentTick BY <2>2
    <3>2. e.expirationTick \in Nat /\ e.expirationTick % NumSlots = slot BY <2>1, <2>3, <3>1
    <3>3. Pending(e) BY <2>1, <3>1 DEF NoneOverdue
    <3>4. CASE e.expirationTick = currentTick BY <3>4 DEF DueNow
    <3>5. CASE e.expirationTick # currentTick
      <4>1. /\ MissedItsTick(e) /\ e.expirationTick < currentTick
            /\ currentTick <= e.expirationTick + NumSlots
        BY <2>2, <2>4, <3>1, <3>2, <3>3, <3>5 DEF Pending
      <4>2. currentTick = e.expirationTick + NumSlots BY <2>4, <3>2, <4>1, ModDistinct
      <4> QED BY <4>1, <4>2 DEF DueNow
    <3> QED BY <3>4, <3>5
  <2>7. NoneOverdue'
    <3> SUFFICES ASSUME NEW s \in 0..NumSlots - 1, NEW e \in slots'[s] PROVE Pending(e)'
      BY DEF NoneOverdue
    <3>1. CASE s = slot BY <2>2, <3>1 DEF Pending
    <3>2. CASE s # slot
      <4>1. e \in slots[s] BY <2>2, <3>2
      <4>2. e.expirationTick \in Nat /\ e.expirationTick % NumSlots = s BY <2>3, <4>1
      <4>3. e.expirationTick # currentTick BY <3>2, <4>2
      <4>4. e.expirationTick + NumSlots # currentTick BY <3>2, <4>2, ModPeriod
      <4>5. Pending(e) BY <4>1 DEF NoneOverdue
      <4> QED BY <2>2, <2>4, <4>2, <4>3, <4>4, <4>5 DEF Pending, MissedItsTick
    <3> QED BY <3>1, <3>2
  <2> QED BY <1>0, <2>2, <2>5, <2>6, <2>7 DEF FiringOnlyInTick, FiresOnItsTick
<1>5. ASSUME FireNext PROVE TickInv'
  <2>1. PICK e \in toFire :
          /\ toFire' = toFire \ {e}
          /\ fired' = fired \cup {[entry |-> e, tick |-> currentTick, time |-> now]}
    BY <1>5 DEF FireNext
  <2>2. pc = "fire" /\ UNCHANGED <<wheelVars, pc>> BY <1>5 DEF FireNext
  <2>3. DueNow(e) BY DEF FiringIsDue
  <2>4. FiresOnItsTick' BY <2>1, <2>3 DEF FiresOnItsTick, DueNow
  <2> QED BY <1>0, <2>1, <2>2, <2>4 DEF wheelVars, SlotAgrees, NoneOverdue, Pending, FiringIsDue,
                                      DueNow, FiringOnlyInTick
<1>6. ASSUME CallbackThrows PROVE TickInv'
  <2>1. /\ pc = "fire" /\ pc' = "idle" /\ toFire' = {} /\ inCallback' = FALSE
        /\ UNCHANGED <<wheelVars, fired>>
    BY <1>6 DEF CallbackThrows, FiringOnlyInTick
  <2>2. NoneOverdue'
    <3> SUFFICES ASSUME NEW s \in 0..NumSlots - 1, NEW e \in slots[s] PROVE Pending(e)'
      BY <2>1 DEF NoneOverdue, wheelVars
    <3>1. Pending(e) BY DEF NoneOverdue
    <3>2. e.expirationTick \in Nat /\ currentTick \in Nat BY DEF TypeOK, Entry
    <3> QED BY <2>1, <3>1, <3>2 DEF Pending, wheelVars
  <2> QED BY <1>0, <2>1, <2>2 DEF wheelVars, SlotAgrees, FiringIsDue, FiringOnlyInTick,
                                 FiresOnItsTick
<1>7. ASSUME TickEnd PROVE TickInv'
  <2>1. /\ pc = "fire" /\ pc' # "fire" /\ toFire = {} /\ currentTick' = currentTick + 1
        /\ inCallback' = FALSE /\ UNCHANGED <<slots, toFire, fired>>
    BY <1>7 DEF TickEnd, histVars
  <2>2. NoneOverdue'
    <3> SUFFICES ASSUME NEW s \in 0..NumSlots - 1, NEW e \in slots[s] PROVE Pending(e)'
      BY <2>1 DEF NoneOverdue
    <3>1. Pending(e) BY DEF NoneOverdue
    <3>2. e.expirationTick \in Nat /\ currentTick \in Nat BY DEF TypeOK, Entry
    <3> QED BY <2>1, <3>1, <3>2 DEF Pending
  <2> QED BY <1>0, <2>1, <2>2 DEF SlotAgrees, FiringIsDue, FiringOnlyInTick, FiresOnItsTick
<1>8. ASSUME ClockAdvances PROVE TickInv'
  <2>1. UNCHANGED <<wheelVars, toFire, pc, inCallback, fired>> BY <1>8 DEF ClockAdvances, histVars
  <2> QED BY <1>0, <2>1 DEF wheelVars, SlotAgrees, NoneOverdue, Pending, FiringIsDue, DueNow,
                           FiringOnlyInTick, FiresOnItsTick
<1>9. CASE UNCHANGED vars
  BY <1>0, <1>9 DEF vars, wheelVars, histVars, SlotAgrees, NoneOverdue, Pending, FiringIsDue, DueNow,
                   FiringOnlyInTick, FiresOnItsTick
<1> QED BY <1>1, <1>2, <1>3, <1>4, <1>5, <1>6, <1>7, <1>8, <1>9 DEF Next

\* A callback runs at exactly the tick addTimer computed for it, or, for a
\* zero-delay timer armed inside a callback, one revolution later.
THEOREM FiringCorrect == Spec => []FiresOnItsTick
<1>1. Spec => []TickInv BY TickInvInit, TickInvStep, PTL DEF Spec
<1>2. TickInv => FiresOnItsTick BY DEF TickInv
<1> QED BY <1>1, <1>2, PTL

-----------------------------------------------------------------------------
(* No timer fires twice or after it was cancelled.  Both rest on ids: they *)
(* are never reused, and no id is in two places.                           *)

\* Every id in use was handed out.
IdsHandedOut ==
  /\ \A s \in 0..NumSlots - 1 : \A e \in slots[s] : e.id < nextId
  /\ \A e \in toFire : e.id < nextId
  /\ \A f \in fired : f.entry.id < nextId
  /\ \A i \in canceledIds : i < nextId

\* An id is in at most one place.
SlotsApart ==
  \A s, t \in 0..NumSlots - 1 : \A e \in slots[s], f \in slots[t] : e.id = f.id => e = f
FiringApart ==
  /\ \A e, f \in toFire : e.id = f.id => e = f
  /\ \A s \in 0..NumSlots - 1 : \A e \in slots[s], f \in toFire : e.id # f.id
FiredApart ==
  /\ \A f, g \in fired : f.entry.id = g.entry.id => f = g
  /\ \A f \in fired : \A e \in toFire : e.id # f.entry.id
  /\ \A f \in fired : \A s \in 0..NumSlots - 1 : \A e \in slots[s] : e.id # f.entry.id

\* A cancelled id that is still in the wheel is marked there.
CancelMarked ==
  /\ \A s \in 0..NumSlots - 1 : \A e \in slots[s] : e.id \in canceledIds => e.canceled
  /\ \A e \in toFire : e.id \notin canceledIds

IdInv ==
  /\ TickInv /\ IdsHandedOut /\ SlotsApart /\ FiringApart /\ FiredApart /\ CancelMarked
  /\ CancelHolds

\* An empty wheel has handed out no id.
LEMMA IdInvInit == Init => IdInv
<1> SUFFICES ASSUME Init PROVE IdInv OBVIOUS
<1>1. TickInv BY TickInvInit
<1> QED BY <1>1 DEF Init, IdInv, IdsHandedOut, SlotsApart, FiringApart, FiredApart, CancelMarked,
                    CancelHolds

\* Steps that touch neither the wheel nor what has fired or was cancelled.
LEMMA IdInvFrame ==
  ASSUME IdInv, TickInv', UNCHANGED <<nextId, slots, toFire, fired, canceledIds>>
  PROVE  IdInv'
BY DEF IdInv, IdsHandedOut, SlotsApart, FiringApart, FiredApart, CancelMarked, CancelHolds

\* addTimer hands out a fresh id, and tick moves an entry to exactly one place.
LEMMA IdInvStep == IdInv /\ [Next]_vars => IdInv'
<1> SUFFICES ASSUME IdInv, [Next]_vars PROVE IdInv' OBVIOUS
<1>0. TickInv' BY TickInvStep DEF IdInv
<1>t. TypeOK /\ SlotAgrees BY DEF IdInv, TickInv
<1> USE NumSlotsAssumption, <1>t DEF IdInv
<1>a. nextId \in Nat /\ (\A e \in Entry : e.id \in Nat) BY DEF TypeOK, Entry
<1>b. /\ \A s \in 0..NumSlots - 1 : \A e \in slots[s] : e \in Entry
      /\ \A e \in toFire : e \in Entry
      /\ \A f \in fired : f.entry \in Entry
      /\ canceledIds \subseteq Nat
  BY DEF TypeOK
<1>1. ASSUME NEW d \in Delays, AddTimer(d) PROVE IdInv'
  <2> DEFINE t == currentTick + TicksOf(d)
             entry == [id |-> nextId, expirationTick |-> t, canceled |-> FALSE, delay |-> d,
                       at |-> now, nested |-> inCallback, lag |-> now \div TickMs - currentTick]
  <2>1. ASSUME NEW s \in 0..NumSlots - 1, NEW e \in slots'[s]
        PROVE  e \in slots[s] \/ e = entry
    BY <1>1, <2>1 DEF AddTimer, TypeOK
  <2>2. entry.id = nextId OBVIOUS
  <2>3. nextId' = nextId + 1 /\ UNCHANGED <<toFire, fired, canceledIds>> BY <1>1 DEF AddTimer, histVars
  <2> HIDE DEF entry
  <2>4. ASSUME NEW s \in 0..NumSlots - 1, NEW e \in slots'[s]
        PROVE  (e \in slots[s] /\ e.id < nextId) \/ (e = entry /\ e.id = nextId)
    BY <2>1, <2>2 DEF IdsHandedOut
  <2>5. /\ \A e \in toFire : e.id < nextId /\ e.id # nextId
        /\ \A f \in fired : f.entry.id < nextId /\ f.entry.id # nextId
        /\ \A i \in canceledIds : i < nextId /\ i # nextId
    BY <1>a, <1>b DEF IdsHandedOut
  <2>6. IdsHandedOut'
    <3>1. \A n \in Nat : n < nextId \/ n = nextId => n < nextId + 1 BY <1>a
    <3> QED BY <1>a, <1>b, <2>2, <2>3, <2>4, <2>5, <3>1 DEF IdsHandedOut
  <2>7. SlotsApart'
    <3> SUFFICES ASSUME NEW s \in 0..NumSlots - 1, NEW r \in 0..NumSlots - 1,
                        NEW e \in slots'[s], NEW f \in slots'[r], e.id = f.id
                 PROVE  e = f
      BY DEF SlotsApart
    <3>1. (e \in slots[s] /\ e.id < nextId) \/ (e = entry /\ e.id = nextId) BY <2>4
    <3>2. (f \in slots[r] /\ f.id < nextId) \/ (f = entry /\ f.id = nextId) BY <2>4
    <3> QED BY <1>a, <3>1, <3>2 DEF SlotsApart
  <2>8. FiringApart' BY <2>3, <2>4, <2>5 DEF FiringApart
  <2>9. FiredApart' BY <2>3, <2>4, <2>5 DEF FiredApart
  <2>10. CancelMarked' BY <2>3, <2>4, <2>5 DEF CancelMarked
  <2> QED BY <1>0, <2>3, <2>6, <2>7, <2>8, <2>9, <2>10 DEF CancelHolds
<1>2. ASSUME NEW i \in 0..MaxTimers - 1, CancelTimer(i) PROVE IdInv'
  <2>1. /\ canceledIds' = canceledIds \cup {i} /\ UNCHANGED <<nextId, toFire, fired>>
        /\ \E s \in 0..NumSlots - 1 : \E e \in slots[s] : e.id = i
    BY <1>2 DEF CancelTimer, TypeOK
  <2>2. /\ i < nextId
        /\ \A e \in toFire : e.id # i
        /\ \A f \in fired : f.entry.id # i
    BY <2>1 DEF IdsHandedOut, FiringApart, FiredApart
  <2>3. ASSUME NEW s \in 0..NumSlots - 1, NEW e \in slots'[s]
        PROVE  \E f \in slots[s] :
                 /\ e = (IF f.id = i THEN [f EXCEPT !.canceled = TRUE] ELSE f)
                 /\ e.id = f.id /\ e.canceled = (f.canceled \/ f.id = i)
    BY <1>2, CancelKeeps
  <2>4. IdsHandedOut' BY <2>1, <2>2, <2>3 DEF IdsHandedOut
  <2>5. SlotsApart'
    <3> SUFFICES ASSUME NEW s \in 0..NumSlots - 1, NEW r \in 0..NumSlots - 1,
                        NEW e \in slots'[s], NEW f \in slots'[r], e.id = f.id
                 PROVE  e = f
      BY DEF SlotsApart
    <3>1. PICK g \in slots[s] : /\ e = (IF g.id = i THEN [g EXCEPT !.canceled = TRUE] ELSE g)
                                /\ e.id = g.id
      BY <2>3
    <3>2. PICK h \in slots[r] : /\ f = (IF h.id = i THEN [h EXCEPT !.canceled = TRUE] ELSE h)
                                /\ f.id = h.id
      BY <2>3
    <3>3. g = h BY <3>1, <3>2 DEF SlotsApart
    <3> QED BY <3>1, <3>2, <3>3
  <2>6. FiringApart' BY <2>1, <2>3 DEF FiringApart
  <2>7. FiredApart' BY <2>1, <2>3 DEF FiredApart
  <2>8. CancelMarked'
    <3>1. ASSUME NEW s \in 0..NumSlots - 1, NEW e \in slots'[s], e.id \in canceledIds'
          PROVE  e.canceled
      <4>1. PICK f \in slots[s] : e.id = f.id /\ e.canceled = (f.canceled \/ f.id = i) BY <2>3
      <4>2. f.id \in canceledIds \/ f.id = i BY <2>1, <3>1, <4>1
      <4>3. f.canceled \/ f.id = i BY <4>2 DEF CancelMarked
      <4> QED BY <4>1, <4>3
    <3> QED BY <2>1, <2>2, <3>1 DEF CancelMarked
  <2> QED BY <1>0, <2>1, <2>2, <2>4, <2>5, <2>6, <2>7, <2>8 DEF CancelHolds
<1>3. ASSUME AdvanceTimer PROVE IdInv'
  BY <1>0, <1>3, IdInvFrame DEF AdvanceTimer, wheelVars, histVars
<1>4. ASSUME TickBegin PROVE IdInv'
  <2> DEFINE slot == currentTick % NumSlots
  <2>1. slot \in 0..NumSlots - 1 BY DivMod DEF TypeOK
  <2>2. /\ UNCHANGED <<nextId, fired, canceledIds>>
        /\ \A e \in toFire' : e \in slots[slot] /\ ~e.canceled /\ e.expirationTick <= currentTick
        /\ \A e \in slots'[slot] : e \in slots[slot] /\ e.expirationTick > currentTick
        /\ \A s \in 0..NumSlots - 1 : s # slot => slots'[s] = slots[s]
    BY <1>4, <2>1 DEF TickBegin, histVars, TypeOK
  <2> HIDE DEF slot
  <2>3. \A s \in 0..NumSlots - 1 : \A e \in slots'[s] :
          e \in slots[s] /\ (s = slot => e.expirationTick > currentTick)
    BY <2>2
  <2>4. IdsHandedOut' BY <2>1, <2>2, <2>3 DEF IdsHandedOut
  <2>5. SlotsApart' BY <2>3 DEF SlotsApart
  <2>6. FiringApart'
    <3>1. ASSUME NEW s \in 0..NumSlots - 1, NEW e \in slots'[s], NEW f \in toFire', e.id = f.id
          PROVE  FALSE
      <4>1. e \in slots[s] /\ f \in slots[slot] BY <2>2, <2>3
      <4>2. e = f BY <2>1, <3>1, <4>1 DEF SlotsApart
      <4>4. e.expirationTick <= currentTick BY <2>2, <4>2
      <4>5. s # slot
        <5>1. e.expirationTick \in Nat /\ currentTick \in Nat BY <1>b, <4>1 DEF Entry, TypeOK
        <5> QED BY <2>3, <4>4, <5>1
      <4> QED BY <2>1, <4>1, <4>2, <4>5 DEF SlotAgrees
    <3> QED BY <2>1, <2>2, <3>1 DEF FiringApart, SlotsApart
  <2>7. FiredApart' BY <2>1, <2>2, <2>3 DEF FiredApart
  <2>8. CancelMarked' BY <2>1, <2>2, <2>3 DEF CancelMarked
  <2> QED BY <1>0, <2>2, <2>4, <2>5, <2>6, <2>7, <2>8 DEF CancelHolds
<1>5. ASSUME FireNext PROVE IdInv'
  <2>1. PICK e \in toFire :
          /\ toFire' = toFire \ {e}
          /\ fired' = fired \cup {[entry |-> e, tick |-> currentTick, time |-> now]}
    BY <1>5 DEF FireNext
  <2> DEFINE new == [entry |-> e, tick |-> currentTick, time |-> now]
  <2>2. new.entry = e OBVIOUS
  <2>3. fired' = fired \cup {new} BY <2>1
  <2> HIDE DEF new
  <2>4. UNCHANGED <<nextId, slots, canceledIds>> BY <1>5 DEF FireNext, wheelVars
  <2>5. IdsHandedOut' BY <2>1, <2>2, <2>3, <2>4 DEF IdsHandedOut
  <2>6. SlotsApart' BY <2>4 DEF SlotsApart
  <2>7. FiringApart' BY <2>1, <2>4 DEF FiringApart
  <2>8. FiredApart' BY <2>1, <2>2, <2>3, <2>4 DEF FiredApart, FiringApart
  <2>9. CancelMarked' BY <2>1, <2>4 DEF CancelMarked
  <2>10. CancelHolds' BY <2>2, <2>3, <2>4 DEF CancelHolds, CancelMarked
  <2> QED BY <1>0, <2>5, <2>6, <2>7, <2>8, <2>9, <2>10
<1>6. ASSUME CallbackThrows PROVE IdInv'
  <2>1. toFire' = {} /\ UNCHANGED <<nextId, slots, fired, canceledIds>>
    BY <1>6 DEF CallbackThrows, wheelVars
  <2> QED BY <1>0, <2>1 DEF IdsHandedOut, SlotsApart, FiringApart, FiredApart, CancelMarked,
                           CancelHolds
<1>7. ASSUME TickEnd PROVE IdInv'
  <2>1. UNCHANGED <<nextId, slots, toFire, fired, canceledIds>> BY <1>7 DEF TickEnd, histVars
  <2> QED BY <1>0, <2>1, IdInvFrame
<1>8. ASSUME ClockAdvances PROVE IdInv'
  BY <1>0, <1>8, IdInvFrame DEF ClockAdvances, wheelVars, histVars
<1>9. CASE UNCHANGED vars BY <1>0, <1>9, IdInvFrame DEF vars, wheelVars, histVars
<1> QED BY <1>1, <1>2, <1>3, <1>4, <1>5, <1>6, <1>7, <1>8, <1>9 DEF Next

\* No timer runs twice: once its callback has run, its id is neither in a slot
\* nor among those about to fire, and no other timer has that id.
THEOREM FiresOnceAlways == Spec => []FiresOnce
<1>1. Spec => []IdInv BY IdInvInit, IdInvStep, PTL DEF Spec
<1>2. IdInv => FiresOnce BY DEF IdInv, TickInv, TypeOK, FiredApart, FiresOnce
<1> QED BY <1>1, <1>2, PTL

\* A timer that cancelTimer() found in the wheel never runs, whatever round it
\* was in and whoever cancelled it, another callback of the same tick included.
THEOREM CancelHoldsAlways == Spec => []CancelHolds
<1>1. Spec => []IdInv BY IdInvInit, IdInvStep, PTL DEF Spec
<1>2. IdInv => CancelHolds BY DEF IdInv
<1> QED BY <1>1, <1>2, PTL

-----------------------------------------------------------------------------
(* No timer disappears.  tick() drops the entries marked as cancelled, so  *)
(* a mark must mean that cancelTimer() was called for that id.             *)

MarkedWasCanceled ==
  \A s \in 0..NumSlots - 1 : \A e \in slots[s] : e.canceled => e.id \in canceledIds

\* Where a timer that was handed out as id i can be.
Kept(i) ==
  \/ i \in canceledIds
  \/ \E e \in lost : e.id = i
  \/ \E e \in toFire : e.id = i
  \/ \E s \in 0..NumSlots - 1 : \E e \in slots[s] : e.id = i
  \/ \E f \in fired : f.entry.id = i
KeptInv == MarkedWasCanceled /\ \A i \in 0..nextId - 1 : Kept(i)

\* Steps that touch neither the wheel nor its history.
LEMMA KeptFrame ==
  ASSUME KeptInv, UNCHANGED <<nextId, slots, toFire, fired, canceledIds, lost>>
  PROVE  KeptInv'
BY DEF KeptInv, MarkedWasCanceled, Kept

\* addTimer puts the id it hands out in a slot, and no step takes an id away
\* without recording where it went.
LEMMA KeptStep ==
  ASSUME TickInv, KeptInv, [Next]_vars
  PROVE  KeptInv'
<1> USE NumSlotsAssumption
<1>0. TypeOK BY DEF TickInv
<1>a. slots \in [0..NumSlots - 1 -> SUBSET Entry] /\ nextId \in Nat /\ currentTick \in Nat
  BY <1>0 DEF TypeOK
<1>m. MarkedWasCanceled BY DEF KeptInv
<1>k. \A i \in 0..nextId - 1 : Kept(i) BY DEF KeptInv
<1>1. ASSUME NEW d \in Delays, AddTimer(d) PROVE KeptInv'
  <2> DEFINE t == currentTick + TicksOf(d)
             entry == [id |-> nextId, expirationTick |-> t, canceled |-> FALSE, delay |-> d,
                       at |-> now, nested |-> inCallback, lag |-> now \div TickMs - currentTick]
             slot == t % NumSlots
  <2>1. slot \in 0..NumSlots - 1
    <3>1. t \in Nat BY <1>a, TicksOfNat
    <3> HIDE DEF t
    <3> QED BY <3>1, DivMod
  <2>2. slots' = [slots EXCEPT ![slot] = @ \cup {entry}] /\ nextId' = nextId + 1
        /\ UNCHANGED <<toFire, fired, canceledIds, lost>>
    BY <1>1 DEF AddTimer, histVars
  <2>3. entry.id = nextId /\ entry.canceled = FALSE OBVIOUS
  <2> HIDE DEF entry, slot
  <2>4. \A s \in 0..NumSlots - 1 : slots'[s] = IF s = slot THEN slots[s] \cup {entry} ELSE slots[s]
    BY <1>a, <2>2
  <2>5. MarkedWasCanceled' BY <1>m, <2>2, <2>3, <2>4 DEF MarkedWasCanceled
  <2>6. ASSUME NEW i \in 0..nextId' - 1 PROVE Kept(i)'
    <3>1. CASE i = nextId BY <2>1, <2>3, <2>4, <3>1 DEF Kept
    <3>2. CASE i \in 0..nextId - 1
      <4>1. Kept(i) BY <1>k, <3>2
      <4> QED BY <2>2, <2>4, <4>1 DEF Kept
    <3> QED BY <1>a, <2>2, <3>1, <3>2
  <2> QED BY <2>5, <2>6 DEF KeptInv
<1>2. ASSUME NEW i \in 0..MaxTimers - 1, CancelTimer(i) PROVE KeptInv'
  <2>1. canceledIds' = canceledIds \cup {i} /\ UNCHANGED <<nextId, toFire, fired, lost>>
    BY <1>2 DEF CancelTimer
  <2>2. MarkedWasCanceled'
    <3>1. ASSUME NEW s \in 0..NumSlots - 1, NEW e \in slots'[s]
          PROVE  \E f \in slots[s] :
                   /\ e = (IF f.id = i THEN [f EXCEPT !.canceled = TRUE] ELSE f)
                   /\ e.id = f.id /\ e.canceled = (f.canceled \/ f.id = i)
      BY <1>0, <1>2, CancelKeeps
    <3> SUFFICES ASSUME NEW s \in 0..NumSlots - 1, NEW e \in slots'[s], e.canceled
                 PROVE  e.id \in canceledIds'
      BY DEF MarkedWasCanceled
    <3>2. PICK f \in slots[s] : e.id = f.id /\ e.canceled = (f.canceled \/ f.id = i)
      BY <3>1
    <3> QED BY <1>m, <2>1, <3>2 DEF MarkedWasCanceled
  <2>3. ASSUME NEW s \in 0..NumSlots - 1, NEW f \in slots[s]
        PROVE  \E e \in slots'[s] : e.id = f.id
    <3>1. slots'[s] = {IF g.id = i THEN [g EXCEPT !.canceled = TRUE] ELSE g : g \in slots[s]}
      BY <1>2, <1>a DEF CancelTimer
    <3>2. f \in Entry BY <1>a
    <3>3. [f EXCEPT !.canceled = TRUE].id = f.id BY <3>2 DEF Entry
    <3> QED BY <3>1, <3>3
  <2>4. ASSUME NEW j \in 0..nextId' - 1 PROVE Kept(j)'
    <3>1. Kept(j) BY <1>k, <2>1
    <3> QED BY <2>1, <2>3, <3>1 DEF Kept
  <2> QED BY <2>2, <2>4 DEF KeptInv
<1>3. ASSUME TickBegin PROVE KeptInv'
  <2> DEFINE slot == currentTick % NumSlots
  <2>0. toFire = {} BY <1>3 DEF TickBegin, TickInv, FiringOnlyInTick
  <2>1. slot \in 0..NumSlots - 1 BY <1>a, DivMod
  <2>2. /\ UNCHANGED <<nextId, fired, canceledIds, lost>>
        /\ \A e \in slots[slot] : e.canceled \/ e \in toFire' \/ e \in slots'[slot]
        /\ \A e \in slots'[slot] : e \in slots[slot]
        /\ \A s \in 0..NumSlots - 1 : s # slot => slots'[s] = slots[s]
    <3>1. /\ toFire' = {e \in slots[slot] : ~e.canceled /\ e.expirationTick <= currentTick}
          /\ slots' = [slots EXCEPT ![slot] = {e \in slots[slot] : ~e.canceled /\ e.expirationTick > currentTick}]
          /\ UNCHANGED <<nextId, fired, canceledIds, lost>>
      BY <1>3 DEF TickBegin, histVars
    <3>2. \A e \in slots[slot] : e.expirationTick \in Nat BY <1>a, <2>1 DEF Entry
    <3> HIDE DEF slot
    <3>3. slots'[slot] = {e \in slots[slot] : ~e.canceled /\ e.expirationTick > currentTick}
      BY <1>a, <2>1, <3>1
    <3>4. \A s \in 0..NumSlots - 1 : s # slot => slots'[s] = slots[s] BY <1>a, <3>1
    <3>5. \A e \in slots[slot] : e.canceled \/ e \in toFire' \/ e \in slots'[slot]
      <4> SUFFICES ASSUME NEW e \in slots[slot], ~e.canceled
                   PROVE  e \in toFire' \/ e \in slots'[slot]
        OBVIOUS
      <4>1. e.expirationTick <= currentTick \/ e.expirationTick > currentTick BY <1>a, <3>2
      <4> QED BY <3>1, <3>3, <4>1
    <3> QED BY <3>1, <3>3, <3>4, <3>5
  <2> HIDE DEF slot
  <2>3. MarkedWasCanceled' BY <1>m, <2>2 DEF MarkedWasCanceled
  <2>4. ASSUME NEW i \in 0..nextId' - 1 PROVE Kept(i)'
    <3>1. Kept(i) BY <1>k, <2>2
    <3>2. ASSUME NEW s \in 0..NumSlots - 1, NEW e \in slots[s], e.id = i
          PROVE  Kept(i)'
      <4>1. CASE s # slot BY <2>2, <3>2, <4>1 DEF Kept
      <4>2. CASE s = slot
        <5>1. e.canceled => i \in canceledIds BY <1>m, <3>2 DEF MarkedWasCanceled
        <5> QED BY <2>1, <2>2, <3>2, <4>2, <5>1 DEF Kept
      <4> QED BY <4>1, <4>2
    <3> QED BY <2>0, <2>2, <3>1, <3>2 DEF Kept
  <2> QED BY <2>3, <2>4 DEF KeptInv
<1>4. ASSUME FireNext PROVE KeptInv'
  <2>1. PICK e \in toFire :
          /\ toFire' = toFire \ {e}
          /\ fired' = fired \cup {[entry |-> e, tick |-> currentTick, time |-> now]}
    BY <1>4 DEF FireNext
  <2> DEFINE new == [entry |-> e, tick |-> currentTick, time |-> now]
  <2>2. new.entry = e /\ fired' = fired \cup {new} BY <2>1
  <2> HIDE DEF new
  <2>3. UNCHANGED <<nextId, slots, canceledIds, lost>> BY <1>4 DEF FireNext, wheelVars
  <2>4. MarkedWasCanceled' BY <1>m, <2>3 DEF MarkedWasCanceled
  <2>5. ASSUME NEW i \in 0..nextId' - 1 PROVE Kept(i)'
    <3>1. Kept(i) BY <1>k, <2>3
    <3>2. ASSUME NEW f \in toFire, f.id = i PROVE Kept(i)'
      BY <2>1, <2>2, <3>2 DEF Kept
    <3> QED BY <2>2, <2>3, <3>1, <3>2 DEF Kept
  <2> QED BY <2>4, <2>5 DEF KeptInv
<1>5. ASSUME CallbackThrows PROVE KeptInv'
  <2>1. lost' = lost \cup toFire /\ UNCHANGED <<nextId, slots, canceledIds, fired>>
    BY <1>5 DEF CallbackThrows, wheelVars
  <2>2. MarkedWasCanceled' BY <1>m, <2>1 DEF MarkedWasCanceled
  <2>3. \A i \in 0..nextId' - 1 : Kept(i)' BY <1>k, <2>1 DEF Kept
  <2> QED BY <2>2, <2>3 DEF KeptInv
<1>6. CASE AdvanceTimer \/ TickEnd \/ ClockAdvances \/ UNCHANGED vars
  <2>1. UNCHANGED <<nextId, slots, toFire, fired, canceledIds, lost>>
    BY <1>6 DEF AdvanceTimer, TickEnd, ClockAdvances, vars, wheelVars, histVars
  <2> QED BY <2>1, KeptFrame
<1> QED BY <1>1, <1>2, <1>3, <1>4, <1>5, <1>6 DEF Next

\* Every timer that addTimer handed an id for is in the wheel, about to run,
\* has run, was cancelled, or was discarded by an exception.
THEOREM NoTimerEverLost == Spec => []NoTimerLost
<1>1. Init => KeptInv BY DEF Init, KeptInv, MarkedWasCanceled, Kept
<1>2. TickInv /\ KeptInv /\ [Next]_vars => KeptInv'
  BY KeptStep
<1>3. TypeOK /\ KeptInv => NoTimerLost
  <2> SUFFICES ASSUME TypeOK, KeptInv, NEW i \in 0..nextId - 1
               PROVE  \/ i \in canceledIds
                      \/ \E e \in lost \cup toFire \cup UNION {slots[s] : s \in DOMAIN slots} : e.id = i
                      \/ \E f \in fired : f.entry.id = i
    BY DEF NoTimerLost
  <2>1. DOMAIN slots = 0..NumSlots - 1 BY DEF TypeOK
  <2>2. Kept(i) BY DEF KeptInv
  <2> QED BY <2>1, <2>2 DEF Kept
<1>4. Spec => []TickInv BY TickInvInit, TickInvStep, PTL DEF Spec
<1> QED BY <1>1, <1>2, <1>3, <1>4, TypeCorrect, PTL DEF Spec

-----------------------------------------------------------------------------
(* The wheel keeps step with the clock.  Between two calls the wheel and   *)
(* lastTimerTick_ agree; inside advanceTimer() the wheel is ahead of       *)
(* lastTimerTick_ by the ticks replayed so far, all of which have passed.  *)

InStep ==
  \/ /\ pc = "idle"
     /\ currentTick * TickMs = lastTimerTick /\ lastTimerTick <= now
  \/ /\ pc # "idle" /\ ticked < catchUp
     /\ currentTick * TickMs = lastTimerTick + ticked * TickMs
     /\ lastTimerTick + catchUp * TickMs <= now
ClockInv == ~threw => InStep

\* Ticks to milliseconds: one more tick is TickMs more, and order is kept.
LEMMA TicksToMs ==
  ASSUME NEW a \in Int, NEW b \in Int
  PROVE  /\ a * TickMs \in Int
         /\ (a + b) * TickMs = a * TickMs + b * TickMs
         /\ (a + 1) * TickMs = a * TickMs + TickMs
         /\ a <= b => a * TickMs <= b * TickMs
         /\ a * TickMs = TickMs * a
<1>1. /\ a * TickMs \in Int
      /\ (a + b) * TickMs = a * TickMs + b * TickMs
      /\ (a + 1) * TickMs = a * TickMs + TickMs
      /\ a * TickMs = TickMs * a
  BY TickMsAssumption
<1>2. a <= b => a * TickMs <= b * TickMs BY TickMsAssumption
<1> QED BY <1>1, <1>2

\* The ticks that fit in a span of time, of one tick at least.
LEMMA TicksThatFit ==
  ASSUME NEW ms \in Nat, ms >= TickMs
  PROVE  ms \div TickMs \in Nat /\ ms \div TickMs > 0 /\ (ms \div TickMs) * TickMs <= ms
<1> DEFINE q == ms \div TickMs
           r == ms % TickMs
<1>1. q \in Int /\ r \in 0..TickMs - 1 /\ ms = (TickMs * q) + r
  BY DivMod, TickMsAssumption
<1> HIDE DEF q, r
<1>2. q * TickMs = TickMs * q /\ q * TickMs \in Int BY <1>1, TicksToMs
<1>3. q > 0
  <2>1. CASE q <= 0
    <3>1. q * TickMs <= 0 * TickMs BY <1>1, <2>1, TicksToMs
    <3>2. 0 * TickMs = 0 BY TickMsAssumption
    <3> QED BY <1>1, <1>2, <3>1, <3>2, TickMsAssumption
  <2> QED BY <1>1, <2>1
<1>4. q * TickMs <= ms BY <1>1, <1>2, TickMsAssumption
<1> QED BY <1>1, <1>3, <1>4 DEF q

\* Replaying the ticks one by one ends exactly where lastTimerTick_ is put.
LEMMA ClockStep ==
  ASSUME TypeOK, ClockInv, [Next]_vars
  PROVE  ClockInv'
<1>t. /\ currentTick \in Nat /\ now \in Nat /\ lastTimerTick \in Nat /\ catchUp \in Nat
      /\ ticked \in Nat /\ threw \in BOOLEAN
  BY DEF TypeOK
<1> USE TickMsAssumption
<1>m. /\ currentTick * TickMs \in Int /\ ticked * TickMs \in Int /\ catchUp * TickMs \in Int
      /\ (currentTick + 1) * TickMs = currentTick * TickMs + TickMs
      /\ (ticked + 1) * TickMs = ticked * TickMs + TickMs
  BY <1>t, TicksToMs
<1>1. ASSUME UNCHANGED <<currentTick, pc, clockVars, threw>>, now <= now', now' \in Nat
      PROVE  ClockInv'
  <2> SUFFICES ASSUME ~threw' PROVE InStep'
    BY DEF ClockInv
  <2>1. InStep BY <1>1 DEF ClockInv
  <2> HIDE TickMsAssumption
  <2>2. UNCHANGED <<currentTick, pc, lastTimerTick, catchUp, ticked>> BY <1>1 DEF clockVars
  <2> QED BY <1>1, <1>t, <1>m, <2>1, <2>2 DEF InStep
<1>2. CASE (\E d \in Delays : AddTimer(d)) \/ (\E i \in 0..MaxTimers - 1 : CancelTimer(i)) \/ FireNext
           \/ ClockAdvances \/ UNCHANGED vars
  <2>1. UNCHANGED <<currentTick, pc, clockVars, threw>> /\ (now' = now \/ now' = now + 1)
    BY <1>2 DEF AddTimer, CancelTimer, FireNext, ClockAdvances, vars, wheelVars, histVars
  <2>2. now' \in Nat /\ now <= now' BY <1>t, <2>1
  <2> QED BY <1>1, <2>1, <2>2
<1>3. CASE AdvanceTimer
  <2> SUFFICES ASSUME ~threw' PROVE InStep'
    BY DEF ClockInv
  <2>1. /\ pc = "idle" /\ pc' = "tick" /\ now - lastTimerTick >= TickMs /\ ticked' = 0
        /\ catchUp' = (now - lastTimerTick) \div TickMs
        /\ UNCHANGED <<currentTick, lastTimerTick, now, threw>>
    BY <1>3 DEF AdvanceTimer, wheelVars, histVars
  <2>2. InStep BY <2>1 DEF ClockInv
  <2>3. currentTick * TickMs = lastTimerTick /\ lastTimerTick <= now BY <2>1, <2>2 DEF InStep
  <2>4. catchUp' \in Nat /\ catchUp' > 0 /\ catchUp' * TickMs <= now - lastTimerTick
    <3>1. now - lastTimerTick \in Nat BY <1>t, <2>3
    <3> QED BY <2>1, <3>1, TicksThatFit
  <2>5. catchUp' * TickMs \in Int BY <2>4, TicksToMs
  <2>6. ticked' * TickMs = 0 BY <2>1
  <2> HIDE TickMsAssumption
  <2>7. lastTimerTick' + catchUp' * TickMs <= now' BY <1>t, <2>1, <2>4, <2>5
  <2>8. currentTick' * TickMs = lastTimerTick' + ticked' * TickMs BY <1>t, <2>1, <2>3, <2>6
  <2> QED BY <2>1, <2>4, <2>7, <2>8 DEF InStep
<1>4. CASE TickBegin
  <2> SUFFICES ASSUME ~threw' PROVE InStep'
    BY DEF ClockInv
  <2>1. /\ pc = "tick" /\ pc' = "fire" /\ UNCHANGED <<currentTick, lastTimerTick, catchUp, ticked, now, threw>>
    BY <1>4 DEF TickBegin, clockVars, histVars
  <2>2. InStep BY <2>1 DEF ClockInv
  <2> HIDE TickMsAssumption
  <2> QED BY <2>1, <2>2 DEF InStep
<1>5. CASE CallbackThrows
  BY <1>5 DEF CallbackThrows, ClockInv
<1>6. CASE TickEnd
  <2> SUFFICES ASSUME ~threw' PROVE InStep'
    BY DEF ClockInv
  <2>1. /\ pc = "fire" /\ currentTick' = currentTick + 1 /\ ticked' = ticked + 1
        /\ UNCHANGED <<catchUp, now, threw>>
    BY <1>6 DEF TickEnd, histVars
  <2>2. InStep BY <2>1 DEF ClockInv
  <2>3. /\ ticked < catchUp /\ currentTick * TickMs = lastTimerTick + ticked * TickMs
        /\ lastTimerTick + catchUp * TickMs <= now
    BY <2>1, <2>2 DEF InStep
  <2>4. currentTick' * TickMs = lastTimerTick + ticked' * TickMs
    <3>1. currentTick' * TickMs = currentTick * TickMs + TickMs BY <1>m, <2>1
    <3>2. ticked' * TickMs = ticked * TickMs + TickMs BY <1>m, <2>1
    <3> QED BY <1>t, <1>m, <2>3, <3>1, <3>2
  <2>5. CASE ticked + 1 < catchUp
    <3>1. pc' = "tick" /\ lastTimerTick' = lastTimerTick BY <1>6, <2>5 DEF TickEnd
    <3> HIDE TickMsAssumption
    <3> QED BY <2>1, <2>3, <2>4, <2>5, <3>1 DEF InStep
  <2>6. CASE ~(ticked + 1 < catchUp)
    <3>1. pc' = "idle" /\ lastTimerTick' = lastTimerTick + catchUp * TickMs
      BY <1>6, <2>6 DEF TickEnd
    <3>2. catchUp = ticked' BY <1>t, <2>1, <2>3, <2>6
    <3> HIDE TickMsAssumption
    <3> QED BY <2>1, <2>3, <2>4, <3>1, <3>2 DEF InStep
  <2> QED BY <2>5, <2>6
<1> QED BY <1>2, <1>3, <1>4, <1>5, <1>6 DEF Next

\* Under InStep the current tick has begun; while callbacks run it is over.
LEMMA TickHasPassed ==
  ASSUME TypeOK, InStep
  PROVE  /\ currentTick * TickMs <= now
         /\ pc # "idle" => (currentTick + 1) * TickMs <= now
<1>t. /\ currentTick \in Nat /\ now \in Nat /\ lastTimerTick \in Nat /\ catchUp \in Nat /\ ticked \in Nat
  BY DEF TypeOK
<1>m. /\ currentTick * TickMs \in Int /\ ticked * TickMs \in Int /\ catchUp * TickMs \in Int
      /\ (currentTick + 1) * TickMs = currentTick * TickMs + TickMs
      /\ (ticked + 1) * TickMs = ticked * TickMs + TickMs
  BY <1>t, TicksToMs
<1>1. CASE pc = "idle" BY <1>1, <1>t, <1>m DEF InStep
<1>2. CASE pc # "idle"
  <2>1. /\ ticked < catchUp /\ currentTick * TickMs = lastTimerTick + ticked * TickMs
        /\ lastTimerTick + catchUp * TickMs <= now
    BY <1>2 DEF InStep
  <2>2. (ticked + 1) * TickMs <= catchUp * TickMs
    <3>1. ticked + 1 \in Int /\ catchUp \in Int /\ ticked + 1 <= catchUp BY <1>t, <2>1
    <3> QED BY <3>1, TicksToMs
  <2> QED BY <1>t, <1>m, <2>1, <2>2, TickMsAssumption
<1> QED BY <1>1, <1>2

\* As long as no callback throws the wheel is never ahead of the clock, and it
\* has caught up with lastTimerTick_ whenever advanceTimer() returns.
THEOREM WheelKeepsTime == Spec => []WheelTracksClock
<1>1. Init => ClockInv
  <2> SUFFICES ASSUME Init PROVE InStep BY DEF ClockInv
  <2>1. 0 * TickMs = 0 BY TickMsAssumption
  <2> QED BY <2>1 DEF Init, InStep
<1>2. TypeOK /\ ClockInv /\ [Next]_vars => ClockInv'
  BY ClockStep
<1>3. TypeOK /\ ClockInv => WheelTracksClock
  <2> SUFFICES ASSUME TypeOK, InStep
               PROVE  currentTick * TickMs <= now /\ (pc = "idle" => currentTick * TickMs = lastTimerTick)
    BY DEF WheelTracksClock, ClockInv
  <2>1. currentTick * TickMs <= now BY TickHasPassed
  <2> QED BY <2>1 DEF InStep
<1> QED BY <1>1, <1>2, <1>3, TypeCorrect, PTL DEF Spec

-----------------------------------------------------------------------------
(* How early a timer can run.  addTimer counts from the wheel's tick, so   *)
(* the invariant remembers what that tick was when the timer was armed.    *)

ArmedFor(e) == e.expirationTick + e.lag = (e.at \div TickMs) + TicksOf(e.delay)
ArmedInv ==
  /\ \A s \in 0..NumSlots - 1 : \A e \in slots[s] : ArmedFor(e)
  /\ \A e \in toFire : ArmedFor(e)

\* The ticks of a delay last at least as long as the delay.
LEMMA TicksCoverDelay ==
  ASSUME NEW d \in Delays
  PROVE  TicksOf(d) \in Nat /\ TicksOf(d) * TickMs >= d
<1> DEFINE q == (d + TickMs - 1) \div TickMs
           r == (d + TickMs - 1) % TickMs
<1>1. d \in Nat /\ d + TickMs - 1 \in Nat BY DelaysAssumption, TickMsAssumption
<1>2. q \in Int /\ r \in 0..TickMs - 1 /\ d + TickMs - 1 = (TickMs * q) + r
  BY <1>1, DivMod, TickMsAssumption
<1>3. q \in Nat
  <2>1. TicksOf(d) \in Nat BY TicksOfNat
  <2> QED BY <2>1 DEF TicksOf
<1>4. TicksOf(d) = q BY DEF TicksOf
<1> HIDE DEF q, r
<1>5. q * TickMs = TickMs * q /\ q * TickMs \in Int BY <1>2, TicksToMs
<1>6. q * TickMs >= d BY <1>1, <1>2, <1>5, TickMsAssumption
<1> QED BY <1>3, <1>4, <1>6

\* A point in time lies before the end of its tick.
LEMMA BeforeNextTick ==
  ASSUME NEW t \in Nat
  PROVE  t \div TickMs \in Int /\ (t \div TickMs) * TickMs + TickMs > t
<1> DEFINE q == t \div TickMs
           r == t % TickMs
<1>1. q \in Int /\ r \in 0..TickMs - 1 /\ t = (TickMs * q) + r
  BY DivMod, TickMsAssumption
<1> HIDE DEF q, r
<1>2. q * TickMs = TickMs * q /\ q * TickMs \in Int BY <1>1, TicksToMs
<1>3. q * TickMs + TickMs > t BY <1>1, <1>2, TickMsAssumption
<1> QED BY <1>1, <1>3 DEF q

\* An entry that fires no earlier than its tick, when that tick is over, is
\* early by less than the lag it was armed with.
LEMMA EarlyByLag ==
  ASSUME NEW e \in Entry, ArmedFor(e), NEW tick \in Nat, NEW time \in Nat,
         e.expirationTick <= tick, (tick + 1) * TickMs <= time
  PROVE  time + e.lag * TickMs > e.at + e.delay
<1> DEFINE x == e.expirationTick   g == e.lag   k == TicksOf(e.delay)   a == e.at   d == e.delay
           q == a \div TickMs
<1>1. x \in Nat /\ g \in Int /\ a \in Nat /\ d \in Delays BY DEF Entry
<1>2. k \in Nat /\ k * TickMs >= d BY <1>1, TicksCoverDelay
<1>3. q \in Int /\ q * TickMs + TickMs > a BY <1>1, BeforeNextTick
<1>4. x + g = q + k BY DEF ArmedFor
<1>5. d \in Nat BY <1>1, DelaysAssumption
<1>6. x <= tick OBVIOUS
<1> SUFFICES time + g * TickMs > a + d OBVIOUS
<1> HIDE DEF x, g, k, a, d, q
<1>7. (x + 1) * TickMs <= (tick + 1) * TickMs
  <2>1. x + 1 \in Int /\ tick + 1 \in Int /\ x + 1 <= tick + 1 BY <1>1, <1>6
  <2> QED BY <2>1, TicksToMs
<1>8. /\ x * TickMs \in Int /\ g * TickMs \in Int /\ q * TickMs \in Int /\ k * TickMs \in Int
      /\ (x + 1) * TickMs = x * TickMs + TickMs /\ (tick + 1) * TickMs \in Int
  <2>1. x \in Int /\ k \in Int /\ tick + 1 \in Int BY <1>1, <1>2
  <2> QED BY <1>1, <1>3, <2>1, TicksToMs
<1>9. x * TickMs + g * TickMs = q * TickMs + k * TickMs
  <2>1. x \in Int /\ k \in Int BY <1>1, <1>2
  <2>2. (x + g) * TickMs = x * TickMs + g * TickMs BY <1>1, <2>1, TicksToMs
  <2>3. (q + k) * TickMs = q * TickMs + k * TickMs BY <1>3, <2>1, TicksToMs
  <2> QED BY <1>4, <2>2, <2>3
<1>10. x * TickMs + TickMs <= time BY <1>1, <1>7, <1>8, TickMsAssumption
<1> QED BY <1>1, <1>2, <1>3, <1>5, <1>8, <1>9, <1>10, TickMsAssumption

\* The tick an entry was armed at is kept from addTimer to its callback.
LEMMA ArmedStep ==
  ASSUME TypeOK, ArmedInv, [Next]_vars
  PROVE  ArmedInv'
<1> USE NumSlotsAssumption DEF ArmedInv
<1>a. slots \in [0..NumSlots - 1 -> SUBSET Entry] /\ currentTick \in Nat /\ now \in Nat BY DEF TypeOK
<1>1. ASSUME NEW d \in Delays, AddTimer(d) PROVE ArmedInv'
  <2> DEFINE t == currentTick + TicksOf(d)
             entry == [id |-> nextId, expirationTick |-> t, canceled |-> FALSE, delay |-> d,
                       at |-> now, nested |-> inCallback, lag |-> now \div TickMs - currentTick]
  <2>1. ASSUME NEW s \in 0..NumSlots - 1, NEW e \in slots'[s]
        PROVE  e \in slots[s] \/ e = entry
    BY <1>1, <1>a, <2>1 DEF AddTimer
  <2>2. /\ entry.expirationTick = currentTick + TicksOf(d) /\ entry.delay = d /\ entry.at = now
        /\ entry.lag = now \div TickMs - currentTick
    OBVIOUS
  <2>3. TicksOf(d) \in Nat /\ now \div TickMs \in Int
    BY <1>a, TicksOfNat, TickMsAssumption
  <2>4. UNCHANGED toFire BY <1>1 DEF AddTimer
  <2> HIDE DEF entry
  <2>5. ArmedFor(entry)
    <3> DEFINE q == now \div TickMs
               k == TicksOf(d)
    <3>1. entry.expirationTick = currentTick + k /\ entry.lag = q - currentTick BY <2>2
    <3>2. q \in Int /\ k \in Nat BY <2>3
    <3> HIDE DEF q, k
    <3>3. entry.expirationTick + entry.lag = q + k BY <1>a, <3>1, <3>2
    <3> QED BY <2>2, <3>3 DEF ArmedFor, q, k
  <2> QED BY <2>1, <2>4, <2>5
<1>2. ASSUME NEW i \in 0..MaxTimers - 1, CancelTimer(i) PROVE ArmedInv'
  <2>1. UNCHANGED toFire BY <1>2 DEF CancelTimer
  <2>2. ASSUME NEW s \in 0..NumSlots - 1, NEW e \in slots'[s] PROVE ArmedFor(e)
    <3>1. PICK f \in slots[s] : /\ e.expirationTick = f.expirationTick
                                /\ e.delay = f.delay /\ e.at = f.at /\ e.lag = f.lag
      BY <1>2, CancelKeeps
    <3>2. ArmedFor(f) OBVIOUS
    <3> QED BY <3>1, <3>2 DEF ArmedFor
  <2> QED BY <2>1, <2>2
<1>3. ASSUME TickBegin PROVE ArmedInv'
  <2> DEFINE slot == currentTick % NumSlots
  <2>1. slot \in 0..NumSlots - 1 BY <1>a, DivMod
  <2>2. /\ \A e \in toFire' : e \in slots[slot]
        /\ \A e \in slots'[slot] : e \in slots[slot]
        /\ \A s \in 0..NumSlots - 1 : s # slot => slots'[s] = slots[s]
    BY <1>3, <1>a, <2>1 DEF TickBegin
  <2> HIDE DEF slot
  <2> QED BY <2>1, <2>2
<1>4. CASE FireNext \/ CallbackThrows \/ AdvanceTimer \/ TickEnd \/ ClockAdvances \/ UNCHANGED vars
  <2>1. slots' = slots /\ toFire' \subseteq toFire
    BY <1>4 DEF FireNext, CallbackThrows, AdvanceTimer, TickEnd, ClockAdvances, vars, wheelVars
  <2> QED BY <2>1
<1> QED BY <1>1, <1>2, <1>3, <1>4 DEF Next

\* A timer never runs earlier than its delay by the ticks the wheel was behind
\* the clock when the timer was armed; one armed on time is never early.
THEOREM NeverEarlierThanLag == Spec => []EarlyByLagAtMost
<1>1. Init => ClockInv /\ ArmedInv /\ EarlyByLagAtMost
  <2> SUFFICES ASSUME Init PROVE InStep /\ ArmedInv /\ EarlyByLagAtMost
    BY DEF ClockInv
  <2>1. 0 * TickMs = 0 BY TickMsAssumption
  <2> QED BY <2>1 DEF Init, InStep, ArmedInv, EarlyByLagAtMost
<1>2. TypeOK /\ ClockInv /\ [Next]_vars => ClockInv'
  BY ClockStep
<1>3. TypeOK /\ ArmedInv /\ [Next]_vars => ArmedInv'
  BY ArmedStep
<1>4. TickInv /\ ClockInv /\ ArmedInv /\ EarlyByLagAtMost /\ [Next]_vars => EarlyByLagAtMost'
  <2> SUFFICES ASSUME TickInv, ClockInv, ArmedInv, EarlyByLagAtMost, [Next]_vars, ~threw',
                      NEW f \in fired'
               PROVE  f.time + f.entry.lag * TickMs > f.entry.at + f.entry.delay
    BY DEF EarlyByLagAtMost
  <2>t. TypeOK BY DEF TickInv
  <2>1. CASE FireNext
    <3>1. PICK e \in toFire : fired' = fired \cup {[entry |-> e, tick |-> currentTick, time |-> now]}
      BY <2>1 DEF FireNext
    <3>2. pc = "fire" /\ ~threw BY <2>1 DEF FireNext
    <3>3. CASE f \in fired BY <3>2, <3>3 DEF EarlyByLagAtMost
    <3>4. CASE f = [entry |-> e, tick |-> currentTick, time |-> now]
      <4>1. f.entry = e /\ f.time = now BY <3>4
      <4>2. InStep BY <3>2 DEF ClockInv
      <4>3. (currentTick + 1) * TickMs <= now BY <2>t, <3>2, <4>2, TickHasPassed
      <4>4. e \in Entry /\ e.expirationTick \in Nat /\ currentTick \in Nat /\ now \in Nat
        BY <2>t DEF TypeOK, Entry
      <4>5. ArmedFor(e) BY DEF ArmedInv
      <4>6. DueNow(e) BY DEF TickInv, FiringIsDue
      <4>7. e.expirationTick <= currentTick BY <4>4, <4>6, NumSlotsAssumption DEF DueNow
      <4>8. now + e.lag * TickMs > e.at + e.delay BY <4>3, <4>4, <4>5, <4>7, EarlyByLag
      <4> QED BY <4>1, <4>8
    <3> QED BY <3>1, <3>3, <3>4
  <2>2. CASE ~FireNext
    <3>1. fired' = fired /\ (threw => threw')
      BY <2>2 DEF Next, AddTimer, CancelTimer, AdvanceTimer, TickBegin, CallbackThrows, TickEnd,
                  ClockAdvances, vars, histVars
    <3> QED BY <3>1 DEF EarlyByLagAtMost
  <2> QED BY <2>1, <2>2
<1>5. Spec => []TickInv BY TickInvInit, TickInvStep, PTL DEF Spec
<1> QED BY <1>1, <1>2, <1>3, <1>4, <1>5, TypeCorrect, PTL DEF Spec
=============================================================================
