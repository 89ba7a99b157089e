------------------------------ MODULE Pipeline ------------------------------
(***************************************************************************)
(* ChannelPipeline and ChannelHandlerContext of one connection: handlers   *)
(* are added, replaced and removed, and events travel from handler to      *)
(* handler while the handlers call back into the pipeline.                 *)
(*                                                                         *)
(* Everything runs on the connection's loop thread, so the handler calls   *)
(* in progress form a stack.  A frame of the stack is one call of a        *)
(* handler: the event, whether the pipeline calls every handler or just    *)
(* one, the entry being called and the message it was given.  callH()      *)
(* swallows what a handler throws, so throwing is returning.               *)
(*                                                                         *)
(* Positions count from 1; index_ of a context counts from 0 as in the     *)
(* code.  A handler is given its context by reference to the entry of the  *)
(* vector: add*(), remove() and clear() inside a handler call move or free *)
(* that entry, which is undefined, so here they happen between events.     *)
(* replace() works in place and may happen anywhere.                       *)
(***************************************************************************)
EXTENDS Naturals, Sequences, SequencesExt, TLC

CONSTANTS
  Handlers,  \* handler objects
  Inbound,   \* those that are a ChannelInboundHandler
  Outbound,  \* those that are a ChannelOutboundHandler; a duplex handler is both
  Names,     \* handler names
  Notices,   \* events like channelReadComplete that only inbound handlers get
  Signals,   \* flush and close, which outbound handlers get alike
  MaxLen,    \* bound: entries in the pipeline
  MaxMsgs,   \* bound: messages read and written
  MaxDepth   \* bound: nested handler calls

ASSUME HandlersAssumption == Inbound \subseteq Handlers /\ Outbound \subseteq Handlers
ASSUME EventsAssumption == (Notices \cup Signals) \cap {"read", "write"} = {}
ASSUME BoundsAssumption == {MaxLen, MaxMsgs, MaxDepth} \subseteq Nat

VARIABLES
  handlers,  \* handlers_: name, handler, and of its context index_ and whether ctx_ is set
  stack,     \* handler calls in progress, the innermost last
  closed,    \* closed_ of the connection
  msgs       \* history: messages made so far

vars == <<handlers, stack, closed, msgs>>

Entry == [name : Names, h : Handlers, index : Nat, bound : BOOLEAN]
BroadcastEvents == Notices \cup {"active", "inactive", "exception"}
OutboundEvents == Signals \cup {"write"}
Events == BroadcastEvents \cup OutboundEvents \cup {"read"}
Frame == [ev : Events, all : BOOLEAN, pos : Nat \ {0}, msg : 0..MaxMsgs]

TypeOK ==
  /\ handlers \in Seq(Entry)
  /\ stack \in Seq(Frame)
  /\ closed \in BOOLEAN /\ msgs \in 0..MaxMsgs

Init ==
  /\ handlers = <<>> /\ stack = <<>>
  /\ closed = FALSE /\ msgs = 0

---------------------------------------------------------------------------
(* Changing the pipeline *)

\* Mutant: the entry that took the place of the removed one keeps its index.
ReindexedAfter(hs, i) == [j \in DOMAIN hs |-> IF j > i THEN [hs[j] EXCEPT !.index = j - 1] ELSE hs[j]]

\* Entries from position i on are told where they are now.
Reindexed(hs, i) == [j \in DOMAIN hs |-> IF j >= i THEN [hs[j] EXCEPT !.index = j - 1] ELSE hs[j]]

\* The position of the first entry of that name; 0 if there is none.
Named(n) == SelectInSeq(handlers, LAMBDA e : e.name = n)

\* addEntry().  handlerAdded() and handlerRemoved(), which the callers of it
\* and of the operations below make, are user code outside of any event.
AddEntry(i, n, h) ==
  /\ stack = <<>> /\ Len(handlers) < MaxLen
  /\ handlers' = Reindexed(InsertAt(handlers, i, [name |-> n, h |-> h, index |-> i - 1, bound |-> FALSE]), i + 1)
  /\ UNCHANGED <<stack, closed, msgs>>

AddFirst(n, h) == AddEntry(1, n, h)
AddLast(n, h) == AddEntry(Len(handlers) + 1, n, h)
AddBefore(base, n, h) == Named(base) # 0 /\ AddEntry(Named(base), n, h)
AddAfter(base, n, h) == Named(base) # 0 /\ AddEntry(Named(base) + 1, n, h)

\* replace() keeps the entry and its context; only handler and name change.
Replace(old, n, h) ==
  LET i == Named(old)
  IN /\ i # 0
     /\ handlers' = [handlers EXCEPT ![i].name = n, ![i].h = h]
     /\ UNCHANGED <<stack, closed, msgs>>

RemoveEntry(n) ==
  LET i == Named(n)
  IN /\ stack = <<>> /\ i # 0
     /\ handlers' = Reindexed(RemoveAt(handlers, i), i)
     /\ UNCHANGED <<stack, closed, msgs>>

Clear ==
  /\ stack = <<>> /\ handlers # <<>>
  /\ handlers' = <<>>
  /\ UNCHANGED <<stack, closed, msgs>>

\* setContext() of setupConnection(): contexts made later have no connection.
SetContext ==
  /\ stack = <<>>
  /\ handlers' = [i \in DOMAIN handlers |-> [handlers[i] EXCEPT !.bound = TRUE]]
  /\ UNCHANGED <<stack, closed, msgs>>

---------------------------------------------------------------------------
(* Travelling events *)

Top == stack[Len(stack)]

\* Whether an event is for the entry at position j.  The pipeline calls
\* onActive() and onInactive() of every handler, a context only forwards
\* channelActive() and channelInactive() to the inbound ones.
IsFor(ev, all, j) ==
  \/ ev = "exception"
  \/ all /\ ev \in {"active", "inactive"}
  \/ handlers[j].h \in (IF ev \in OutboundEvents THEN Outbound ELSE Inbound)

\* Mutant: the next entry is called, of whatever type it is.
UpwardsAny(ev, all, i) == IF i > Len(handlers) THEN 0 ELSE i

\* forAll*(), forNext*() and fireReadFrom() go up from a position,
\* forPrevOutbound() and fireWriteFrom() down; 0 when no entry is left.
Upwards(ev, all, i) ==
  LET for == {j \in i..Len(handlers) : IsFor(ev, all, j)} IN IF for = {} THEN 0 ELSE Min(for)
Downwards(ev, i) ==
  LET for == {j \in 1..i : IsFor(ev, FALSE, j)} IN IF for = {} THEN 0 ELSE Max(for)

\* The call of the handler at position i; none for 0.
Calls(ev, all, i, m) ==
  stack' = IF i = 0 THEN stack ELSE Append(stack, [ev |-> ev, all |-> all, pos |-> i, msg |-> m])

\* fireChannelRegistered() ... fireExceptionCaught() of the pipeline.
FireAll(ev) ==
  /\ stack = <<>>
  /\ Calls(ev, TRUE, Upwards(ev, TRUE, 1), 0)
  /\ UNCHANGED <<handlers, closed, msgs>>

\* The messages a call can send: a new one, or the one that came with the
\* same event.
Sendable(ev) ==
  (IF msgs < MaxMsgs THEN {msgs + 1} ELSE {}) \cup
  (IF stack # <<>> /\ Top.ev = ev THEN {Top.msg} ELSE {})

FireChannelRead ==
  /\ stack = <<>> /\ msgs < MaxMsgs
  /\ msgs' = msgs + 1
  /\ Calls("read", FALSE, Upwards("read", FALSE, 1), msgs + 1)
  /\ UNCHANGED <<handlers, closed>>

\* Context::write() and the like: a write that starts at the tail.
FireWrite ==
  /\ Len(stack) < MaxDepth /\ msgs < MaxMsgs
  /\ msgs' = msgs + 1
  /\ Calls("write", FALSE, Downwards("write", Len(handlers)), msgs + 1)
  /\ UNCHANGED <<handlers, closed>>

\* fireChannelFlush() and fireChannelClose().
FireOut(ev) ==
  /\ Len(stack) < MaxDepth
  /\ Calls(ev, FALSE, Downwards(ev, Len(handlers)), 0)
  /\ UNCHANGED <<handlers, closed, msgs>>

---------------------------------------------------------------------------
(* What a handler does with its context.  The context is the one of the    *)
(* call in progress; a task that kept one may use it between events.       *)

Contexts == IF stack = <<>> THEN DOMAIN handlers ELSE {Top.pos}

\* fireChannelRegistered() ... fireExceptionCaught() of the context.
CtxForward(c, ev) ==
  /\ Len(stack) < MaxDepth /\ c \in Contexts
  /\ Calls(ev, FALSE, Upwards(ev, FALSE, handlers[c].index + 2), 0)
  /\ UNCHANGED <<handlers, closed, msgs>>

CtxRead(c, m) ==
  /\ Len(stack) < MaxDepth /\ c \in Contexts /\ m \in Sendable("read")
  /\ msgs' = IF m > msgs THEN m ELSE msgs
  /\ Calls("read", FALSE, Upwards("read", FALSE, handlers[c].index + 2), m)
  /\ UNCHANGED <<handlers, closed>>

\* Context::close(): once per connection, every handler is told.
ContextClose(c) ==
  IF handlers[c].bound /\ ~closed
  THEN closed' = TRUE /\ Calls("inactive", TRUE, Upwards("inactive", TRUE, 1), 0)
  ELSE UNCHANGED <<closed, stack>>

\* fireWrite() of a context that is not the first one.
CtxWrite(c, m) ==
  /\ Len(stack) < MaxDepth /\ c \in Contexts /\ m \in Sendable("write")
  /\ handlers[c].index # 0
  /\ msgs' = IF m > msgs THEN m ELSE msgs
  /\ Calls("write", FALSE, Downwards("write", handlers[c].index), m)
  /\ UNCHANGED <<handlers, closed>>

\* fireWrite() of the first context: a ByteBuf goes to the write buffer of
\* the connection (a variable of WorkerLoop), and the connection is closed
\* when that overflows or the flush fails; any other type goes nowhere.
HeadWrite(c, m, buf) ==
  /\ Len(stack) < MaxDepth /\ c \in Contexts /\ m \in Sendable("write")
  /\ handlers[c].index = 0
  /\ msgs' = IF m > msgs THEN m ELSE msgs
  /\ IF buf /\ handlers[c].bound
     THEN ContextClose(c) \/ UNCHANGED <<closed, stack>>
     ELSE UNCHANGED <<closed, stack>>
  /\ UNCHANGED <<handlers>>

\* fireFlush() and fireClose() start at the handler's own entry.
CtxOut(c, ev) ==
  /\ Len(stack) < MaxDepth /\ c \in Contexts
  /\ Calls(ev, FALSE, Downwards(ev, handlers[c].index + 1), 0)
  /\ UNCHANGED <<handlers, closed, msgs>>

\* close() of the context, of the default close() and exceptionCaught().
CtxClose(c) ==
  /\ Len(stack) < MaxDepth /\ c \in Contexts
  /\ ContextClose(c)
  /\ UNCHANGED <<handlers, msgs>>

\* The handler returns or throws; a call of every handler goes on to the
\* next one.
Return ==
  LET next == IF Top.all THEN Upwards(Top.ev, TRUE, Top.pos + 1) ELSE 0
  IN /\ stack # <<>>
     /\ stack' = IF next = 0 THEN Front(stack) ELSE [stack EXCEPT ![Len(stack)].pos = next]
     /\ UNCHANGED <<handlers, closed, msgs>>

Change ==
  \/ \E n \in Names, h \in Handlers :
       \/ AddFirst(n, h)
       \/ AddLast(n, h)
       \/ \E base \in Names : AddBefore(base, n, h) \/ AddAfter(base, n, h) \/ Replace(base, n, h)
  \/ \E n \in Names : RemoveEntry(n)
  \/ Clear
  \/ SetContext

Travel ==
  \/ \E ev \in BroadcastEvents : FireAll(ev) \/ \E c \in DOMAIN handlers : CtxForward(c, ev)
  \/ FireChannelRead
  \/ FireWrite
  \/ \E ev \in Signals : FireOut(ev) \/ \E c \in DOMAIN handlers : CtxOut(c, ev)
  \/ \E c \in DOMAIN handlers, m \in 1..MaxMsgs :
       CtxRead(c, m) \/ CtxWrite(c, m) \/ \E buf \in BOOLEAN : HeadWrite(c, m, buf)
  \/ \E c \in DOMAIN handlers : CtxClose(c)
  \/ Return

Next == Change \/ Travel

Spec == Init /\ [][Next]_vars

\* Names are only compared.
NameSymmetry == Permutations(Names)

---------------------------------------------------------------------------
(* Properties *)

\* However handlers were added, replaced and removed, the context of every
\* entry knows the entry's own position, which is what every fire*() of
\* ChannelHandlerContext starts from.
IndexTracksPosition == \A i \in DOMAIN handlers : handlers[i].index = i - 1

\* A message that a handler passes on leaves that handler behind and skips
\* nobody: a read goes to the next inbound entry above the one it is at, a
\* write to the next outbound entry below it, whatever happened to the
\* pipeline before.
PropagationOrder ==
  [][Len(stack) > 0 /\ Len(stack') = Len(stack) + 1 /\ Last(stack').ev = Top.ev /\ Top.ev \in {"read", "write"}
             /\ Last(stack').msg = Top.msg
       => LET from == Top.pos
              to == Last(stack').pos
          IN IF Top.ev = "read"
             THEN to > from /\ handlers[to].h \in Inbound
                  /\ \A j \in from + 1..to - 1 : handlers[j].h \notin Inbound
             ELSE to < from /\ handlers[to].h \in Outbound
                  /\ \A j \in to + 1..from - 1 : handlers[j].h \notin Outbound]_vars
============================================================================
