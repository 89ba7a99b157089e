----------------------------- MODULE HttpServer -----------------------------
(***************************************************************************)
(* From a parsed request to the bytes of its response: HttpServerHandler,  *)
(* Router and StaticFileHandler above, CompressorHandler, HttpResponse and *)
(* the codec below, for one connection whose client pipelines requests.    *)
(* Handlers answer at once or keep the request and answer later.           *)
(*                                                                         *)
(* A response on the wire is what a client can tell: the Content-Length    *)
(* values in its head, the length of its body, Content-Encoding and        *)
(* Connection.  What becomes of the bytes is in WorkerLoop.  A request is  *)
(* what the codec hands on, see HttpStream: after a 413 on its connection  *)
(* its headers may be those of the refused request.                        *)
(***************************************************************************)
EXTENDS Router

CONSTANTS
  RequestPaths,    \* paths of requests
  OtherMethods,    \* methods no route can have
  BodyLengths,     \* lengths of response bodies
  FileSizes,       \* sizes a served file may have
  MaxFileSize,     \* maxFileSize_
  ChunkSize,       \* kChunkSize
  MaxServedRoutes, \* bound: routes of a table that serves a connection
  MaxRequests      \* bound: requests of the connection

\* Request targets in origin form, without their query.
ASSUME RequestPathsAssumption == \A p \in RequestPaths : IsPath(p)
ASSUME LengthsAssumption == BodyLengths \subseteq Nat /\ FileSizes \subseteq Nat
ASSUME ChunkAssumption == ChunkSize \in Nat \ {0}

VARIABLES
  serving,    \* the table is complete
  requests,   \* requests read: Accept-Encoding, Connection: close
  peer,       \* PeerState of the compressor: "none", or the encoding to use
  keepAlive,  \* keepAlive_ of the connection
  pending,    \* requests that a handler kept
  job,        \* the file being sent: request, size by stat(), and whether
              \* it is no directory and read() can work; request 0 for none
  file,       \* the size of the file now
  wire        \* responses written

serverVars == <<serving, requests, peer, keepAlive, pending, job, file, wire>>
httpVars == <<routes, statics, nodes, leaves, serving, requests, peer, keepAlive, pending, job, file, wire>>

Encodings == {"gzip", "deflate"}
Request == [accept : SUBSET Encodings, close : BOOLEAN]
NoJob == [req |-> 0, size |-> 0, reads |-> TRUE]

Handlers(Keys) == [key : Keys, m : Methods, h : DOMAIN routes]
Answered == [req : DOMAIN requests, cl : Seq(Nat), len : Nat, enc : Encodings \cup {"none"}, ka : BOOLEAN,
             latest : BOOLEAN, plain : BOOLEAN, file : BOOLEAN, cut : BOOLEAN, done : BOOLEAN]

HttpTypeOK ==
  /\ routes \in Seq([m : Methods, segs : Seq(Tokens)])
  /\ statics \subseteq Handlers(Seq(Tokens))
  /\ nodes \in Seq(Seq({Label(t) : t \in Tokens})) /\ leaves \subseteq Handlers(Seq({Label(t) : t \in Tokens}))
  /\ serving \in BOOLEAN /\ keepAlive \in BOOLEAN
  /\ requests \in Seq(Request) /\ peer \in Encodings \cup {"none"}
  /\ pending \subseteq DOMAIN requests /\ file \in FileSizes
  /\ job = NoJob \/ job \in [req : DOMAIN requests, size : FileSizes, reads : BOOLEAN]
  /\ wire \in Seq(Answered)

HttpInit ==
  /\ RouterInit
  /\ serving = FALSE /\ requests = <<>> /\ peer = "none" /\ keepAlive = TRUE
  /\ pending = {} /\ job = NoJob /\ file \in FileSizes /\ wire = <<>>

Configure ==
  /\ ~serving
  /\ \E m \in Methods, p \in RoutePaths : AddRoute(m, p)
  /\ UNCHANGED serverVars

Serve ==
  /\ ~serving /\ Len(routes) <= MaxServedRoutes
  /\ serving' = TRUE
  /\ UNCHANGED <<routes, statics, nodes, leaves, requests, peer, keepAlive, pending, job, file, wire>>

---------------------------------------------------------------------------
(* Writing a response *)

\* Handlers leave the length of a body to the server, call setContentLength(),
\* or set the header by hand.
Styles == {"plain", "length", "header"}

\* HttpResponse: the body's length, the Content-Length among headers_ and
\* contentLengthSet_.
Response(style, n) ==
  [len |-> n, headers |-> IF style = "plain" THEN <<>> ELSE <<n>>, lengthSet |-> style = "length"]

\* Gzip::compress(): another length, longer for short bodies.
Deflated(n) == n + 1

\* Mutant: the length is filled in before the body is compressed.
CompressLate(resp, enc) ==
  IF enc = "none" \/ resp.len = 0 THEN resp
  ELSE [resp EXCEPT !.headers = IF resp.lengthSet THEN @ ELSE Append(@, resp.len), !.lengthSet = TRUE, !.len = Deflated(resp.len)]

\* compressAndForward(): the body is replaced, the headers stay.
Compress(resp, enc) ==
  IF enc = "none" \/ resp.len = 0 THEN resp ELSE [resp EXCEPT !.len = Deflated(resp.len)]

\* serialize() and serializeHeaders(): the Content-Length values in the head.
Lengths(resp) == resp.headers \o (IF ~resp.lengthSet /\ resp.len > 0 THEN <<resp.len>> ELSE <<>>)

\* Context::writeAndFlush(), CompressorHandler::write(), HttpServerCodec::write():
\* the response to request i, with the peer and keepAlive given.
OnTheWire(i, style, n, enc, ka, latest) ==
  LET resp == Compress(Response(style, n), enc)
  IN [req |-> i, cl |-> Lengths(resp), len |-> resp.len, enc |-> IF resp.len = 0 THEN "none" ELSE enc,
      ka |-> ka, latest |-> latest, plain |-> style = "plain", file |-> FALSE, cut |-> FALSE, done |-> TRUE]

---------------------------------------------------------------------------
(* Requests *)

\* Mutant: supportsCompression is not reset.
PeerOfSticky(accept) ==
  IF "gzip" \in accept THEN "gzip" ELSE IF "deflate" \in accept THEN "deflate" ELSE peer

\* CompressorHandler::channelRead()
PeerOf(accept) ==
  IF "gzip" \in accept THEN "gzip" ELSE IF "deflate" \in accept THEN "deflate" ELSE "none"

\* The codec sets keepAlive_, the compressor its PeerState.
Receive(q) ==
  /\ serving /\ job = NoJob /\ Len(requests) < MaxRequests
  /\ requests' = Append(requests, q)
  /\ keepAlive' = ~q.close
  /\ peer' = PeerOf(q.accept)

\* HttpRequest::body(): all bytes behind the last header, from its line end on.
Body(content) == <<"line ends">> \o content

\* Gzip::decompress() throws unless a compressed stream begins there.
Inflates(body) == body[1] = "stream"

\* decompressAndForward() of a request with a Content-Encoding: callH() drops
\* the request when decompress() throws.
ReadPacked(q, content) ==
  /\ Receive(q) /\ ~Inflates(Body(content))
  /\ UNCHANGED <<routes, statics, nodes, leaves, serving, pending, job, file, wire>>

\* Router::onRequest(): a refusal is answered at once, a handler keeps the
\* request; when the walk misses the matched node nobody does anything.
ReadRouted(q, m, path) ==
  LET i == Len(requests) + 1
      kind == OnRequest(m, path).kind
  IN /\ Receive(q)
     /\ pending' = IF kind = "call" THEN pending \cup {i} ELSE pending
     /\ wire' = IF kind \in {"404", "405"} THEN Append(wire, OnTheWire(i, "plain", 1, PeerOf(q.accept), ~q.close, TRUE)) ELSE wire
     /\ UNCHANGED <<routes, statics, nodes, leaves, serving, job, file>>

\* The handler of request i answers, within onRequest() or later.
Answer(i, style, n) ==
  /\ job = NoJob /\ i \in pending
  /\ pending' = pending \ {i}
  /\ wire' = Append(wire, OnTheWire(i, style, n, peer, keepAlive, i = Len(requests)))
  /\ UNCHANGED <<routes, statics, nodes, leaves, serving, requests, peer, keepAlive, job, file>>

---------------------------------------------------------------------------
(* StaticFileHandler::onRequest() *)

\* Where the path of a request leads.
Targets == {"nowhere", "outside", "directory", "index", "index directory", "unreadable", "file"}

\* sanitizePath() gives an empty path for what realpath() finds outside of the
\* root; stat() then finds nothing.
SanitizePath(target) == IF target = "outside" THEN "nowhere" ELSE target

\* A directory stands for its index.html, which may be a directory again:
\* stat() and open() take it for a file.
FileStatus(target) ==
  CASE target \in {"nowhere", "directory"} -> 404
    [] target \in {"index", "index directory", "unreadable", "file"} /\ file > MaxFileSize -> 413
    [] target = "unreadable" /\ file <= MaxFileSize -> 403
    [] OTHER -> 200

RefuseFile(q, target) ==
  /\ Receive(q) /\ FileStatus(SanitizePath(target)) # 200
  /\ wire' = Append(wire, OnTheWire(Len(requests) + 1, "plain", 1, PeerOf(q.accept), ~q.close, TRUE))
  /\ UNCHANGED <<routes, statics, nodes, leaves, serving, pending, job, file>>

\* stat(), open() and writeHeaders(), whose HttpResponse says keep-alive,
\* whatever keepAlive_ of the connection is.
BeginFile(q, target) ==
  /\ Receive(q) /\ FileStatus(SanitizePath(target)) = 200
  /\ job' = [req |-> Len(requests) + 1, size |-> file, reads |-> target # "index directory"]
  /\ wire' = Append(wire, [req |-> Len(requests) + 1, cl |-> <<file>>, len |-> 0, enc |-> "none", ka |-> TRUE,
                           latest |-> TRUE, plain |-> TRUE, file |-> TRUE, cut |-> FALSE, done |-> FALSE])
  /\ UNCHANGED <<routes, statics, nodes, leaves, serving, pending, file>>

\* read() and writeBody() until the end of the file; an empty file has no buffer.
SendChunk ==
  LET w == Last(wire)
      n == Min({ChunkSize, job.size, IF file > w.len THEN file - w.len ELSE 0})
  IN /\ job # NoJob /\ job.reads
     /\ wire' = [wire EXCEPT ![Len(wire)].len = @ + n, ![Len(wire)].done = (n = 0)]
     /\ job' = IF n = 0 THEN NoJob ELSE job
     /\ UNCHANGED <<routes, statics, nodes, leaves, serving, requests, peer, keepAlive, pending, file>>

\* read() fails, as it does for a directory: the loop ends as at the end of
\* the file, and the connection goes on.
ReadFails ==
  /\ job # NoJob
  /\ wire' = [wire EXCEPT ![Len(wire)].cut = TRUE, ![Len(wire)].done = TRUE]
  /\ job' = NoJob
  /\ UNCHANGED <<routes, statics, nodes, leaves, serving, requests, peer, keepAlive, pending, file>>

\* Another process writes the file; a response in progress is then no longer
\* held to its length.
ChangeFile(size) ==
  /\ serving /\ file' = size /\ size # file
  /\ wire' = IF job = NoJob THEN wire ELSE [wire EXCEPT ![Len(wire)].plain = FALSE]
  /\ UNCHANGED <<routes, statics, nodes, leaves, serving, requests, peer, keepAlive, pending, job>>

HttpNext ==
  \/ Configure
  \/ Serve
  \/ \E q \in Request, content \in {<<>>, <<"stream">>} : ReadPacked(q, content)
  \/ \E q \in Request, target \in Targets : RefuseFile(q, target) \/ BeginFile(q, target)
  \/ \E q \in Request, m \in Methods \cup OtherMethods, p \in RequestPaths : ReadRouted(q, m, p)
  \/ \E i \in pending, style \in Styles, n \in BodyLengths : Answer(i, style, n)
  \/ SendChunk
  \/ ReadFails
  \/ \E size \in FileSizes : ChangeFile(size)

HttpSpec == HttpInit /\ [][HttpNext]_httpVars

---------------------------------------------------------------------------
(* Properties *)

\* What a route means: segment by segment the same, or a parameter.
Matches(r, segs) ==
  Len(r.segs) = Len(segs) /\ \A i \in DOMAIN segs : r.segs[i] \in Params \/ r.segs[i] = segs[i]
Fitting(path) == {i \in DOMAIN routes : Matches(routes[i], SplitPath(NormalizePath(path)))}

\* Routes that are looked up in the map, before the tree is searched.
Literal(r) == ~HasParam(r.segs) /\ r.segs # <<>>

\* (A table no longer changes once it serves.)
\* A request is refused rightly, whatever else is in the table: the router
\* answers 404 only when no route of the method fits the path, and 405 to a
\* method it knows only when a route of another method does.  With a 405 it
\* may still overlook routes with parameters that fit and are of the method,
\* but then one of the others is literally the path: the map is asked first,
\* and its answer is final.  No literal route is ever overlooked.
HonestRefusal ==
  ~serving => \A m \in Methods, p \in RequestPaths :
    LET kind == OnRequest(m, p).kind
        own == {i \in Fitting(p) : routes[i].m = m}
        others == Fitting(p) \ own
    IN /\ kind = "404" => own = {}
       /\ kind = "405" =>
            /\ others # {}
            /\ own # {} => \E i \in others : Literal(routes[i])
            /\ \A i \in own : ~Literal(routes[i])

\* In no two routes does a parameter compete with something else for the
\* same place.
Unambiguous ==
  \A a, b \in DOMAIN routes : \A i \in DOMAIN routes[a].segs \cap DOMAIN routes[b].segs :
    SubSeq(routes[a].segs, 1, i - 1) = SubSeq(routes[b].segs, 1, i - 1)
      => ({routes[a].segs[i], routes[b].segs[i]} \cap Params # {} => routes[a].segs[i] = routes[b].segs[i])

\* In such a table the handler that is called is the last one added for the
\* route and the method that fit, it is called whenever there is one, and
\* each parameter is bound to its segment (the last of that name).
RightHandler ==
  ~serving /\ Unambiguous =>
    \A m \in Methods, p \in RequestPaths :
      LET answer == OnRequest(m, p)
          fit == {i \in Fitting(p) : routes[i].m = m}
          segs == SplitPath(NormalizePath(p))
          r == routes[answer.h].segs
      IN /\ fit # {} <=> answer.kind = "call"
         /\ fit # {} => /\ answer.h = Max(fit)
                        /\ answer.params = {<<r[i], segs[i]>> : i \in {i \in DOMAIN r :
                             r[i] \in Params /\ \A j \in DOMAIN r : r[j] = r[i] => j <= i}}

\* The head of a finished response announces exactly the body that follows,
\* compressed or in chunks from a file, and an empty body has no length.  Not
\* held to this are responses whose length the handler set itself and files
\* that another process writes on the way.  When read() fails the body may
\* be too short, and nothing says so; it is never too long.
WellFramed ==
  \A i \in DOMAIN wire : wire[i].done /\ wire[i].plain =>
    IF wire[i].cut THEN wire[i].file /\ wire[i].cl # <<>> /\ wire[i].len <= wire[i].cl[1]
    ELSE wire[i].cl = (IF wire[i].len > 0 \/ wire[i].cl # <<>> THEN <<wire[i].len>> ELSE <<>>)

\* A response that is written before the next request is read is encoded the
\* way its own request accepts and says close exactly when its own request
\* did, whatever the requests before it said; but the head of a file says
\* keep-alive even when its request said close.
AnswerFitsRequest ==
  \A i \in DOMAIN wire : wire[i].latest =>
    LET q == requests[wire[i].req]
    IN /\ wire[i].enc \in q.accept \cup {"none"}
       /\ wire[i].ka = (~q.close \/ wire[i].file)
============================================================================
