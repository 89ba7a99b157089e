---------------------------- MODULE MCHttpStream ----------------------------
(* Streams for HttpStream: pipelined requests of different lengths, with   *)
(* refused and malformed ones, and upgrades followed by legal sequences of *)
(* frames, fragmented ones with control frames in between.                 *)
EXTENDS HttpStream

H(k, size, cl) == [k |-> k, at |-> 1, size |-> size, fin |-> TRUE, ok |-> TRUE, cl |-> cl]
F(k, fin) == [k |-> k, at |-> 1, size |-> 2, fin |-> fin, ok |-> TRUE, cl |-> "none"]

\* The items of s one behind the other.
LaidOut(s) ==
  [i \in DOMAIN s |-> [s[i] EXCEPT !.at = 1 + FoldFunctionOnSet(LAMBDA it, n : it.size + n, 0, s, 1..i - 1)]]

Requests == {H("request", 1, "none"), H("request", 2, "other"), H("request", 4, "exact"), H("bighead", 2, "none"),
             H("bigbody", 2, "exact"), H("bigbody", 2, "other"), H("bad", 2, "none")}

Frames == {
  <<F("text", TRUE), F("binary", TRUE)>>,
  <<F("text", FALSE), F("ping", TRUE), F("cont", TRUE), F("close", TRUE)>>,
  <<F("binary", FALSE), F("cont", FALSE), F("cont", TRUE), F("text", TRUE)>>,
  <<F("text", FALSE), F("cont", TRUE), F("binary", FALSE), F("cont", TRUE)>>,
  <<F("ping", FALSE), F("ping", TRUE)>>,
  <<[F("text", FALSE) EXCEPT !.ok = FALSE], F("cont", TRUE), F("ping", TRUE)>>}

MCStreams ==
  {LaidOut(s \o t) : s \in [1..1 -> Requests], t \in [1..2 -> Requests]} \cup
  {LaidOut(<<H("upgrade", 2, "none")>> \o f) : f \in Frames} \cup
  {LaidOut(<<H("bigbody", 1, "other"), H("upgrade", 2, "exact")>> \o f) : f \in Frames} \cup
  {LaidOut(<<H("request", 1, "none"), H("upgrade", 2, "none")>> \o f) : f \in Frames}
============================================================================
