------------------------------ MODULE MCPubSub ------------------------------
(* Instances of PubSub for TLC.                                            *)
EXTENDS PubSub

\* Every connection on a worker of its own.
Spread == [w \in Sockets |-> w]

\* All connections on one worker.
Together == [w \in Sockets |-> "w"]
=============================================================================
