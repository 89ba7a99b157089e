--------------------------------- MODULE Tls ---------------------------------
(***************************************************************************)
(* SslHandler, first in its pipeline: the handshake over memory BIOs, then  *)
(* records decrypted for the handlers above and their writes encrypted.    *)
(*                                                                         *)
(* The TLS library is external: SSL_accept() consumes the handshake        *)
(* records that are whole in inBio and puts its own flights into outBio,   *)
(* SSL_read() one record at a time.  A record is delivered by TCP in two   *)
(* pieces, so that segments may end inside of one.  Memory BIOs never make *)
(* the library wait for room, so SSL_ERROR_WANT_WRITE does not occur.      *)
(***************************************************************************)
EXTENDS Naturals, Sequences, SequencesExt

\* The handshakes that initCtx() allows: at least TLS 1.2, with a session cache.
Handshakes == {"1.3", "1.2", "1.2 resumed"}

CONSTANTS
  Versions,    \* kinds of handshake that clients start
  MaxRecords,  \* bound: records a client sends
  MaxPieces,   \* bound: pieces in one segment
  MaxWrites    \* bound: writes of the handlers

ASSUME VersionsAssumption == Versions \subseteq Handshakes
ASSUME TlsBoundsAssumption == {MaxRecords, MaxPieces, MaxWrites} \subseteq Nat

VARIABLES
  context,        \* what forServer() made: "none" before, "ready", or "failed"
  version,        \* the kind of handshake the client starts
  sent,           \* records the client has sent
  received,       \* pieces of them that were read from the socket
  used,           \* records that the library took out of inBio
  ssl,            \* st.ssl is there
  handshakeDone,  \* handshakeDone
  outBio,         \* records in outBio
  wire,           \* records handed to the connection's write buffer
  plain,          \* history: records whose plaintext the handlers were given
  writes,         \* history: writes of the handlers since the handshake
  closed          \* closed_ of the connection

tlsVars == <<context, version, sent, received, used, ssl, handshakeDone, outBio, wire, plain, writes, closed>>

ClientRecords == {"hello", "finished", "data", "notify", "bad"}
ServerRecords == {"flight", "finished", "ticket", "data", "notify"}

TlsTypeOK ==
  /\ context \in {"none", "ready", "failed"}
  /\ version \in Versions /\ sent \in Seq(ClientRecords)
  /\ received \in 0..2 * Len(sent) /\ used \in 0..Len(sent)
  /\ ssl \in BOOLEAN /\ handshakeDone \in BOOLEAN /\ closed \in BOOLEAN
  /\ outBio \in Seq(ServerRecords) /\ wire \in Seq(ServerRecords)
  /\ plain \in Seq(1..MaxRecords) /\ writes \in 0..MaxWrites

TlsInit ==
  /\ context = "none" /\ version \in Versions /\ sent = <<>> /\ received = 0 /\ used = 0
  /\ ssl = FALSE /\ handshakeDone = FALSE /\ outBio = <<>> /\ wire = <<>>
  /\ plain = <<>> /\ writes = 0 /\ closed = FALSE

\* initCtx(): every step may fail, and without a certificate and a key that
\* fit each other there is no handler.
InitCtx(cert, key, fit) == IF cert /\ key /\ fit THEN "ready" ELSE "failed"

ForServer(cert, key, fit) ==
  /\ context = "none"
  /\ context' = InitCtx(cert, key, fit)
  /\ UNCHANGED <<version, sent, received, used, ssl, handshakeDone, outBio, wire, plain, writes, closed>>

---------------------------------------------------------------------------
(* The client and the library *)

\* What the client must have received before it may send data: after a full
\* 1.2 handshake the server has the last word.
ClientReady ==
  /\ "finished" \in Range(sent)
  /\ version = "1.2" => "finished" \in Range(wire)

ClientSays(r) ==
  CASE r = "hello" -> sent = <<>>
    [] r = "finished" -> "flight" \in Range(wire) /\ "finished" \notin Range(sent)
    [] r \in {"data", "notify"} -> ClientReady
    [] r = "bad" -> sent # <<>>

ClientSend(r) ==
  /\ context = "ready" /\ Len(sent) < MaxRecords /\ ClientSays(r) /\ Range(sent) \cap {"bad", "notify"} = {}
  /\ sent' = Append(sent, r)
  /\ UNCHANGED <<context, version, received, used, ssl, handshakeDone, outBio, wire, plain, writes, closed>>

\* SSL_accept(): the flight that each handshake record is answered with.
Flight(r) ==
  CASE r = "hello" -> <<"flight">>
    [] r = "finished" /\ version = "1.3" -> <<"ticket">>
    [] r = "finished" /\ version = "1.2" -> <<"finished">>
    [] OTHER -> <<>>

---------------------------------------------------------------------------
(* SslHandler *)

\* Mutant: the records stay in outBio for the next flush.
FlushForgotten(records) == outBio' = records /\ UNCHANGED wire

\* flushEncrypted(): outBio is emptied into the write buffer and flushed.
FlushEncrypted(records) == wire' = wire \o records /\ outBio' = <<>>

\* handleError(): Context::close()
HandleError == closed' = TRUE

\* channelRead() begins by making st.ssl; without memory the connection is
\* closed.
SetupFails ==
  /\ ~closed /\ ~ssl /\ received < 2 * Len(sent)
  /\ closed' = TRUE
  /\ UNCHANGED <<context, version, sent, received, used, ssl, handshakeDone, outBio, wire, plain, writes>>

\* The whole records from n on: those of the handshake, one that ends it
\* and the data behind.
Whole(n, last) == [i \in 1..last - n |-> n + i]

\* Mutant: SSL_read() is called once.
OneRecord(last, from) == IF from < last /\ sent[from + 1] = "data" THEN from + 1 ELSE from

\* The records up to last are taken while they are data: what SSL_read()
\* returns until it has to wait, and whether close_notify or an error ended it.
DataBefore(last, from) ==
  LET stops == {i \in from + 1..last : sent[i] # "data"} IN IF stops = {} THEN last ELSE Min(stops) - 1

\* channelRead() of n pieces, with the loops over SSL_accept() and SSL_read().
ChannelRead(n) ==
  LET last == (received + n) \div 2
      \* SSL_accept() until it has nothing left, is done or fails
      stop == {i \in used + 1..last : sent[i] \in {"finished", "bad"}}
      hs == IF handshakeDone \/ stop = {} THEN last ELSE Min(stop)
      done == handshakeDone \/ (stop # {} /\ sent[hs] = "finished")
      failed == ~handshakeDone /\ stop # {} /\ sent[hs] = "bad"
      flights == IF handshakeDone THEN <<>>
                 ELSE FlattenSeq([i \in 1..hs - used |-> IF sent[used + i] = "bad" THEN <<>> ELSE Flight(sent[used + i])])
      from == IF handshakeDone THEN used ELSE hs
      upto == DataBefore(last, from)
      ended == done /\ upto < last /\ sent[upto + 1] # "data"
      out == outBio \o flights
  IN /\ ~closed /\ n > 0 /\ received + n <= 2 * Len(sent)
     /\ received' = received + n /\ ssl' = TRUE
     /\ handshakeDone' = done
     /\ IF ~done
        THEN /\ used' = hs
             /\ FlushEncrypted(out)
             /\ IF failed THEN HandleError ELSE UNCHANGED closed
             /\ UNCHANGED plain
        ELSE IF ended
        \* ret == 0 is close_notify, which is answered; what was decrypted
        \* before it in this segment is not handed on
        THEN /\ used' = upto + 1 /\ closed' = TRUE
             /\ IF sent[upto + 1] = "notify"
                THEN FlushEncrypted(Append(out, "notify"))
                ELSE outBio' = out /\ UNCHANGED wire
             /\ UNCHANGED plain
        ELSE /\ used' = upto /\ closed' = FALSE
             /\ outBio' = out /\ UNCHANGED wire
             /\ plain' = plain \o Whole(from, upto)
     /\ UNCHANGED <<context, version, sent, writes>>

\* write(): dropped before the end of the handshake. An object that is not a
\* ByteBuf is passed on unencrypted to the handlers below; when there are none
\* it ends there, the head takes only ByteBufs. For a ByteBuf, SSL_write()
\* appends to outBio and flushEncrypted() empties it, or the connection is closed.
Write(isByteBuf, ok) ==
  /\ context = "ready" /\ ~closed /\ writes < MaxWrites
  /\ IF ~handshakeDone \/ ~isByteBuf THEN UNCHANGED <<outBio, wire, writes, closed>>
     ELSE IF ok
     THEN /\ FlushEncrypted(Append(outBio, "data"))
          /\ writes' = writes + 1 /\ UNCHANGED closed
     ELSE HandleError /\ UNCHANGED <<outBio, wire, writes>>
  /\ UNCHANGED <<context, version, sent, received, used, ssl, handshakeDone, plain>>

TlsNext ==
  \/ \E cert, key, fit \in BOOLEAN : ForServer(cert, key, fit)
  \/ \E r \in ClientRecords : ClientSend(r)
  \/ SetupFails
  \/ \E n \in 1..MaxPieces : ChannelRead(n)
  \/ \E isByteBuf, ok \in BOOLEAN : Write(isByteBuf, ok)

TlsSpec == TlsInit /\ [][TlsNext]_tlsVars

\* TCP delivers, the loop reads, and a client that can goes on with its
\* handshake.
Fairness ==
  /\ WF_tlsVars(\E n \in 1..MaxPieces : ChannelRead(n))
  /\ WF_tlsVars(ClientSend("hello"))
  /\ WF_tlsVars(ClientSend("finished"))

FairSpec == TlsSpec /\ Fairness

---------------------------------------------------------------------------
(* Properties *)

\* While the connection is open, the handlers above were given every data
\* record that is whole, once and in order: none waits in inBio for another
\* segment, whichever way the records were cut, and those that arrived in the
\* segment that ended the handshake are not forgotten.
PlaintextComplete ==
  ~closed =>
    /\ Range(plain) = {i \in 1..received \div 2 : sent[i] = "data"}
    /\ \A i, j \in DOMAIN plain : i < j => plain[i] < plain[j]

\* A client that follows the protocol comes to the end of its handshake. The
\* exception is a full handshake of TLS 1.2: SSL_accept() returns 1 and
\* nothing flushes the server's last flight, which stays in outBio until
\* some handler writes.
HandshakeCompletes ==
  sent # <<>> ~>
    \/ ClientReady \/ closed \/ "bad" \in Range(sent)
    \/ (version = "1.2" /\ handshakeDone /\ "finished" \in Range(outBio))
============================================================================
