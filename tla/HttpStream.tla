----------------------------- MODULE HttpStream -----------------------------
(***************************************************************************)
(* One connection's bytes on their way to the handlers: HttpServerCodec,   *)
(* then WebSocketUpgradeHandler, then WebSocketCodec, and the HttpRequest  *)
(* objects that point into the bytes they were parsed from.                *)
(*                                                                         *)
(* The client sends a stream of items, requests and after an upgrade       *)
(* frames; TCP delivers the bytes in segments cut anywhere.  A byte is its *)
(* position in the stream.  llhttp is external: it completes a message     *)
(* exactly when all bytes of a well-formed request are there.  A handler   *)
(* call inside channelRead() is one step, and so is one iteration of each  *)
(* codec's loop.                                                           *)
(***************************************************************************)
EXTENDS Integers, Sequences, FiniteSets, SequencesExt

CONSTANTS
  Streams,    \* streams a client may send: sequences of items
  MaxSegment  \* bound: bytes of one read()

Http == {"request", "bighead", "bigbody", "bad", "upgrade"}
Data == {"text", "binary"}
Control == {"ping", "close"}
Item == [k : Http \cup Data \cup Control \cup {"cont"},
         at : Nat \ {0},    \* position of its first byte
         size : Nat \ {0},
         fin : BOOLEAN,  \* of a frame
         ok : BOOLEAN,   \* the payload of the frame is valid UTF-8 by itself
         cl : {"none", "exact", "other"}]  \* spelling of a request's Content-Length

\* The items follow each other without a gap, once a client has gone over to
\* frames it sends no more requests, and it is its Content-Length that makes
\* a "bigbody" too large.
ASSUME StreamsAssumption ==
  /\ Streams \subseteq Seq(Item) /\ MaxSegment \in Nat \ {0}
  /\ \A s \in Streams : \A i \in DOMAIN s :
       /\ s[i].at = IF i = 1 THEN 1 ELSE s[i - 1].at + s[i - 1].size
       /\ \A j \in 1..i : s[j].k \notin Http => s[i].k \notin Http
       /\ s[i].k = "bigbody" => s[i].cl # "none"

VARIABLES
  stream,     \* the items
  arrived,    \* bytes that were read from the socket
  pc,         \* which loop runs: "idle", "http", "parse", "ws", "frame"; "end" when out of step
  raw,        \* the bytes a loop still has to look at
  off,        \* where raw starts in the storage of leftover; -1: raw is in the read buffer
  leftover,   \* leftover of HttpServerCodec
  wsLeft,     \* leftover of WebSocketCodec
  frag,       \* fragmentPayload, as the frames it is made of, and fragmentOpcode
  delivered,  \* what the handlers were given: kind and the items it was made of
  kept,       \* st.request of HttpServerCodec: the refused requests whose headers_ are still in it
  parsed,     \* of each request: what it has copied out of the raw bytes
  spoiled,    \* requests that got headers of refused ones in front of their own
  intact,     \* requests whose raw bytes are still where they were
  seen,       \* history: what handlers got from requests, and whether it was theirs
  trouble     \* history: bytes of the stream were dropped or taken for something else

vars == <<stream, arrived, pc, raw, off, leftover, wsLeft, frag, delivered, kept, parsed, spoiled,
          intact, seen, trouble>>

Start(i) == stream[i].at
End(i) == Start(i) + stream[i].size - 1
Length == IF stream = <<>> THEN 0 ELSE End(Len(stream))
AtStart(p) == \E i \in DOMAIN stream : Start(i) = p
ItemAt(p) == CHOOSE i \in DOMAIN stream : p \in Start(i)..End(i)
Bytes(a, b) == [j \in 1..b - a + 1 |-> a + j - 1]
Rest(s, n) == SubSeq(s, n + 1, Len(s))

\* What is asked of a request.
Parts == {"headers", "query", "body"}

TypeOK ==
  /\ stream \in Streams /\ arrived \in 0..Length
  /\ pc \in {"idle", "http", "parse", "ws", "frame", "end"}
  /\ {raw, leftover, wsLeft} \subseteq Seq(0..Length) /\ off \in -1..Length
  /\ frag \in [parts : Seq(DOMAIN stream), k : Data]
  /\ delivered \in Seq([k : Http \cup Data \cup Control, parts : Seq(DOMAIN stream)])
  /\ parsed \in [DOMAIN stream -> SUBSET Parts] /\ kept \in Seq(DOMAIN stream)
  /\ intact \subseteq DOMAIN stream /\ spoiled \subseteq DOMAIN stream /\ trouble \in BOOLEAN
  /\ seen \subseteq (DOMAIN stream) \X Parts \X BOOLEAN

\* WebSocketCodec::CodecState of a new connection.
WsInit == wsLeft = <<>> /\ frag = [parts |-> <<>>, k |-> "text"]

Init ==
  /\ stream \in Streams /\ arrived = 0 /\ pc = "idle"
  /\ raw = <<>> /\ off = -1 /\ leftover = <<>> /\ WsInit
  /\ delivered = <<>> /\ kept = <<>> /\ spoiled = {} /\ parsed = [i \in DOMAIN stream |-> {}]
  /\ intact = {} /\ seen = {} /\ trouble = FALSE

\* The item that starts at the first byte of s and is there to its end.
WholeItem(s) ==
  \E i \in DOMAIN stream :
    Start(i) = s[1] /\ Len(s) >= stream[i].size /\ SubSeq(s, 1, stream[i].size) = Bytes(Start(i), End(i))

\* The handlers were given item i as a message of its own.
HandedOn(i) == \E d \in DOMAIN delivered : delivered[d].parts = <<i>>

\* A client has reason to send its first p bytes: frames follow the answer to the
\* upgrade request.
MaySend(p) ==
  /\ p <= Length
  /\ \A i \in DOMAIN stream :
       stream[i].k = "upgrade" /\ ~HandedOn(i) => p <= End(i)

\* onRead(): n bytes in the read buffer, whose old contents are overwritten.
Arrive(n) ==
  /\ pc = "idle" /\ MaySend(arrived + n)
  /\ raw' = Bytes(arrived + 1, arrived + n)
  /\ arrived' = arrived + n
  /\ off' = -1 /\ pc' = "http" /\ intact' = {}
  /\ UNCHANGED <<stream, leftover, wsLeft, frag, delivered, kept, parsed, spoiled, seen, trouble>>

\* channelRead() returns and onRead() clears the read buffer; the bytes of
\* lost are gone.  The next byte then is in the middle of an item or not.
Returns(lost) ==
  /\ raw' = <<>> /\ off' = -1
  /\ trouble' = (trouble \/ lost # <<>>)
  /\ pc' = IF lost = <<>> \/ arrived = Length \/ AtStart(arrived + 1) THEN "idle" ELSE "end"

---------------------------------------------------------------------------
(* HttpServerCodec::channelRead() *)

\* Whether the segment looks like HTTP: a request starts with a capital, a
\* frame does not (fin and opcode), any other byte may be anything.
LooksLikeHttp(p, any) == IF AtStart(p) THEN stream[ItemAt(p)].k \in Http ELSE any

\* Mutant: the segment is not put behind the leftover but parsed by itself.
HttpEnterAlone(any) ==
  /\ pc = "http"
  /\ IF leftover = <<>> /\ ~LooksLikeHttp(raw[1], any)
     THEN pc' = "ws" /\ UNCHANGED <<raw, off, leftover>>
     ELSE pc' = "parse" /\ UNCHANGED <<raw, off, leftover>>
  /\ UNCHANGED <<stream, arrived, wsLeft, frag, delivered, kept, parsed, spoiled, intact, seen, trouble>>

HttpEnter(any) ==
  /\ pc = "http"
  /\ IF leftover = <<>> /\ ~LooksLikeHttp(raw[1], any)
     THEN pc' = "ws" /\ UNCHANGED <<raw, off, leftover>>
     ELSE /\ pc' = "parse"
          /\ raw' = leftover \o raw
          /\ IF leftover = <<>> THEN UNCHANGED <<off, leftover>> ELSE off' = 0 /\ leftover' = leftover \o raw
  /\ UNCHANGED <<stream, arrived, wsLeft, frag, delivered, kept, parsed, spoiled, intact, seen, trouble>>

\* llhttp_execute(): the kind of message that it completes, as the callbacks
\* tell the codec; "none" when bytes are missing or malformed.
Parsed ==
  IF WholeItem(raw) /\ stream[ItemAt(raw[1])].k \in Http \ {"bad"} THEN stream[ItemAt(raw[1])].k ELSE "none"

\* header("Content-Length") of an HttpRequest with the headers of the requests
\* s: the first that is spelled so, or else the first in any spelling.
TooLarge(s) ==
  \E n \in DOMAIN s :
    /\ stream[s[n]].k = "bigbody"
    /\ \A m \in DOMAIN s : stream[s[m]].cl \in {"exact", stream[s[n]].cl} =>
                            stream[s[m]].cl = stream[s[n]].cl /\ n <= m

\* 431 when the head is larger than maxHeaderSize_, 413 when Content-Length
\* is more than maxBodySize_.  setRawData() keeps the headers_ that st.request
\* has and ensureHeadersParsed() puts the new ones behind them.
Refused == Parsed = "bighead" \/ (Parsed # "none" /\ TooLarge(Append(kept, ItemAt(raw[1]))))

\* The request in front comes behind headers of refused ones.
Spoil == spoiled' = IF kept = <<>> THEN spoiled ELSE spoiled \cup {ItemAt(raw[1])}

\* Whatever follows in the segment goes too; st.request stays as it is.
HttpReject ==
  /\ pc = "parse" /\ Refused
  /\ leftover' = <<>>
  /\ IF Parsed = "bighead" THEN UNCHANGED <<kept, spoiled>>
     ELSE kept' = Append(kept, ItemAt(raw[1])) /\ Spoil
  /\ Returns(Rest(raw, stream[ItemAt(raw[1])].size))
  /\ UNCHANGED <<stream, arrived, wsLeft, frag, delivered, parsed, intact, seen>>

\* An incomplete message is kept.  When raw is the tail of leftover's own
\* storage it is copied over itself; memcpy() of overlapping bytes may leave
\* any mixture behind.
HttpIncomplete(garble) ==
  LET overlaps == off >= 0 /\ off < Len(raw)
  IN /\ pc = "parse" /\ Parsed = "none"
     /\ garble => leftover = <<>> /\ overlaps
     /\ leftover' = IF leftover # <<>> THEN leftover ELSE IF garble THEN [j \in DOMAIN raw |-> 0] ELSE raw
     /\ intact' = IF leftover = <<>> /\ off >= 0 THEN {} ELSE intact
     /\ trouble' = (trouble \/ garble \/ raw[1] = 0 \/ stream[ItemAt(raw[1])].k \notin Http)
     /\ raw' = <<>> /\ off' = -1 /\ pc' = "idle"
     /\ UNCHANGED <<stream, arrived, wsLeft, frag, delivered, kept, parsed, spoiled, seen>>

\* The request in front is handed on and consumed; it has copied the parts
\* in copied, and left is what stays in leftover.  st.request starts anew.
HandOn(copied, left) ==
  LET i == ItemAt(raw[1])
      rest == Rest(raw, stream[i].size)
  IN /\ pc = "parse" /\ Parsed # "none" /\ ~Refused
     /\ delivered' = Append(delivered, [k |-> Parsed, parts |-> <<i>>])
     /\ kept' = <<>> /\ Spoil
     /\ parsed' = [parsed EXCEPT ![i] = @ \cup copied]
     /\ intact' = intact \cup {i}
     /\ leftover' = left
     /\ raw' = rest /\ off' = (IF off >= 0 THEN off + stream[i].size ELSE off)
     /\ pc' = IF rest = <<>> THEN "idle" ELSE "parse"
     /\ UNCHANGED <<stream, arrived, wsLeft, frag, seen, trouble>>

\* Mutants: Content-Length is not looked up, so that no header is copied; the
\* leftover that was parsed is not cleared.
HttpDeliverLazily == HandOn({"query"}, <<>>)
HttpDeliverKeeps == HandOn({"headers", "query"}, leftover)

\* A request goes to the next handlers, an upgrade is answered with 101 by
\* WebSocketUpgradeHandler.  on_url() copied the URI with the query, looking
\* up Content-Length the headers.
HttpDeliver == HandOn({"headers", "query"}, <<>>)

---------------------------------------------------------------------------
(* HttpRequest, which a handler may keep *)

\* The ensure*Parsed() copy from the raw bytes the first time, whatever these
\* are by then, and answer from the copy after that.
Own(i, what) == (what \in parsed[i] \/ i \in intact) /\ (what = "headers" => i \notin spoiled)

\* header(), hasHeader(), query(), hasQuery() and body().
RequestGet(i, what) ==
  /\ \E d \in DOMAIN delivered : delivered[d] = [k |-> "request", parts |-> <<i>>]
  /\ ~\E s \in seen : s[1] = i /\ s[2] = what
  /\ parsed' = IF i \in intact THEN [parsed EXCEPT ![i] = @ \cup {what}] ELSE parsed
  /\ seen' = seen \cup {<<i, what, Own(i, what)>>}
  /\ UNCHANGED <<stream, arrived, pc, raw, off, leftover, wsLeft, frag, delivered, kept, spoiled, intact, trouble>>

---------------------------------------------------------------------------
(* WebSocketCodec::channelRead() *)

WsEnter ==
  /\ pc = "ws"
  /\ raw' = wsLeft \o raw /\ wsLeft' = <<>> /\ pc' = "frame"
  /\ UNCHANGED <<stream, arrived, off, leftover, frag, delivered, kept, parsed, spoiled, intact, seen, trouble>>

Frame == stream[ItemAt(raw[1])]

\* Less than a header, its extended length, its mask or its payload.
WsIncomplete ==
  /\ pc = "frame" /\ ~WholeItem(raw)
  /\ wsLeft' = raw
  /\ Returns(<<>>)
  /\ UNCHANGED <<stream, arrived, leftover, frag, delivered, kept, parsed, spoiled, intact, seen>>

\* A control frame in pieces, or text that isValidUtf8() refuses: the frame
\* is not consumed, and what it began goes with the read buffer.
WsRefused == (Frame.k \in Control /\ ~Frame.fin) \/ (Frame.k = "text" /\ ~Frame.ok)

WsRefuse ==
  /\ pc = "frame" /\ WholeItem(raw) /\ WsRefused
  /\ Returns(raw)
  /\ UNCHANGED <<stream, arrived, leftover, wsLeft, frag, delivered, kept, parsed, spoiled, intact, seen>>

WsNext == raw' = Rest(raw, Frame.size) /\ pc' = IF Len(raw) = Frame.size THEN "idle" ELSE "frame"

WsFragment ==
  /\ pc = "frame" /\ WholeItem(raw) /\ ~WsRefused /\ ~Frame.fin
  /\ frag' = IF Frame.k = "cont" THEN [frag EXCEPT !.parts = Append(@, ItemAt(raw[1]))]
             ELSE [parts |-> <<ItemAt(raw[1])>>, k |-> Frame.k]
  /\ WsNext
  /\ UNCHANGED <<stream, arrived, off, leftover, wsLeft, delivered, kept, parsed, spoiled, intact, seen, trouble>>

WsDeliver ==
  LET i == ItemAt(raw[1])
  IN /\ pc = "frame" /\ WholeItem(raw) /\ ~WsRefused /\ Frame.fin /\ Frame.k # "close"
     /\ delivered' = Append(delivered, IF Frame.k = "cont" THEN [k |-> frag.k, parts |-> Append(frag.parts, i)]
                                       ELSE [k |-> Frame.k, parts |-> <<i>>])
     /\ frag' = IF Frame.k = "cont" THEN [frag EXCEPT !.parts = <<>>] ELSE frag
     /\ WsNext
     /\ UNCHANGED <<stream, arrived, off, leftover, wsLeft, kept, parsed, spoiled, intact, seen, trouble>>

\* After CLOSE nothing of the segment is looked at.
WsClose ==
  /\ pc = "frame" /\ WholeItem(raw) /\ ~WsRefused /\ Frame.k = "close"
  /\ delivered' = Append(delivered, [k |-> "close", parts |-> <<ItemAt(raw[1])>>])
  /\ Returns(Rest(raw, Frame.size))
  /\ UNCHANGED <<stream, arrived, leftover, wsLeft, frag, kept, parsed, spoiled, intact, seen>>

Next ==
  \/ \E n \in 1..MaxSegment : Arrive(n)
  \/ \E b \in BOOLEAN : HttpEnter(b) \/ HttpIncomplete(b)
  \/ HttpReject
  \/ HttpDeliver
  \/ \E i \in DOMAIN stream, what \in Parts : RequestGet(i, what)
  \/ WsEnter \/ WsIncomplete \/ WsRefuse \/ WsFragment \/ WsDeliver \/ WsClose

Spec == Init /\ [][Next]_vars

---------------------------------------------------------------------------
(* Properties *)

\* The frames that open a message in pieces, go on with it and conclude it.
Opens(f) == f.k \in Data /\ ~f.fin
Continues(f) == f.k = "cont" /\ ~f.fin
Concludes(f) == f.k = "cont" /\ f.fin

\* The fragments of stream s that wait for their message's end when item i
\* comes, and that the last one to open a message was of kind k.
Waiting(s, i) ==
  {j \in 1..i - 1 : /\ Opens(s[j]) \/ Continues(s[j])
                    /\ \A n \in j + 1..i - 1 : ~Opens(s[n]) /\ ~Concludes(s[n])}
OpenedAs(s, i, k) ==
  \/ \E j \in 1..i - 1 : Opens(s[j]) /\ s[j].k = k /\ \A n \in j + 1..i - 1 : ~Opens(s[n])
  \/ k = "text" /\ \A j \in 1..i - 1 : ~Opens(s[j])

\* m is the message that item i completes: the item itself, and the fragments
\* that waited for it when it is a continuation.
MessageAt(s, i, m) ==
  IF s[i].k = "cont" THEN Range(m.parts) = Waiting(s, i) \cup {i} /\ OpenedAs(s, i, m.k)
  ELSE m = [k |-> s[i].k, parts |-> <<i>>]

\* What completes a message, and whether llhttp gets to see it: it stops at
\* a malformed request.
Completes(s, i) == s[i].k \in {"request", "upgrade"} \/ (s[i].k \notin Http /\ s[i].fin)
Due(i) == End(i) <= arrived /\ Completes(stream, i) /\ \A j \in 1..i : stream[j].k # "bad"

\* Request i is among those behind a body that was too large, up to the first
\* that was handed on: HttpServerCodec judges and answers it by the headers
\* of the refused requests, which come before its own.
Tainted(i) ==
  /\ stream[i].k \in Http
  /\ \E j \in 1..i - 1 : /\ stream[j].k = "bigbody"
                         /\ \A n \in j + 1..i - 1 : stream[n].k \in Http => ~HandedOn(n)

\* However TCP cuts the stream, the handlers have been given the requests and
\* messages whose last byte has arrived, and nothing else, fragments joined
\* around control frames, as soon as the codecs are done with a segment;
\* unless a rejected request or frame took with it the bytes behind it, a
\* piece of a frame was taken for HTTP, or a request was tainted, which may
\* get it a 413 of its own.  In which order: EachOnceInOrder.
DeliveredIsComplete ==
  pc = "idle" /\ ~trouble =>
    /\ \A i \in DOMAIN stream : Due(i) => Tainted(i) \/ \E d \in DOMAIN delivered : MessageAt(stream, i, delivered[d])
    /\ \A d \in DOMAIN delivered : \E i \in DOMAIN stream : Due(i) /\ MessageAt(stream, i, delivered[d])

\* Also after a rejection, no item is delivered twice, also not within one
\* message, or overtakes another.
EachOnceInOrder ==
  /\ \A d \in DOMAIN delivered : \A m, n \in DOMAIN delivered[d].parts :
       m < n => delivered[d].parts[m] < delivered[d].parts[n]
  /\ \A d, e \in DOMAIN delivered : d < e => Last(delivered[d].parts) < Last(delivered[e].parts)
  /\ \A d, e \in DOMAIN delivered : d # e => Range(delivered[d].parts) \cap Range(delivered[e].parts) = {}

\* The headers and the query of a request are its own at any time, also for
\* a handler that kept the request until after the read buffer was used
\* again; the body is if it was asked for before.  The exception are the
\* headers of the first request that is handed on behind a 413: those of the
\* refused ones come before its own.
LateAccessIsOwn ==
  \A s \in seen : (s[2] = "body" => s[2] \in parsed[s[1]]) /\ (s[2] = "headers" => ~Tainted(s[1])) => s[3]
============================================================================
