---------------------------- MODULE MCHttpServer ----------------------------
(* Paths for HttpServer: static and parameter segments that compete, names *)
(* that repeat, an invalid parameter name, and slashes to normalise.       *)
EXTENDS HttpServer

\* Methods.
CONSTANTS GET, POST

\* No method is special.
MCSymmetry == Permutations(Methods)

MCRoutePaths == {
  <<"/">>,
  <<"/", "u">>,
  <<"/", "u", "/", ":a", "/">>,
  <<"/", ":a">>,
  <<"/", "u", "/", "v">>,
  <<"/", ":a", "/", ":a">>,
  <<"/", ":b", "/", "/", "v">>,
  <<"/", ":!", "/", ":a">>}

MCRequestPaths == {
  <<"/">>, <<"/", "u">>, <<"/", "w", "/">>, <<"/", "u", "/", "v">>,
  <<"/", "u", "/", "/", "w">>, <<"/", "w", "/", "v">>, <<"/", ":!", "/", "v">>, <<"/", "u", "/", "v", "/", "w">>}
============================================================================
