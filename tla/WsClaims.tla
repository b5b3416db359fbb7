------------------------------ MODULE WsClaims ------------------------------
(***************************************************************************)
(* What the comments of websocketpp say of a connection and its handlers,  *)
(* stated of WebSocket, whose use of it or whose code does less.           *)
(***************************************************************************)
EXTENDS WebSocket

\* A script that knows the rules: it opens first, and calls close() only
\* after onopen and while no onclose has come.
CarefulScript ==
    \/ Open \/ Send
    \/ fired.open = 1 /\ fired.close = 0 /\ Close

CarefulNext == IoThread \/ Clock \/ Network \/ Peer \/ CarefulScript
CarefulSpec == Init /\ [][CarefulNext]_vars /\ Fairness

\* Every session that was opened and is being closed gets its onclose
\* (FlintWebSocketAPI::closeImpl after a frame of the peer that closes).
CloseAnswered == state = "closing" ~> fired.close = 1
=============================================================================
