------------------------------ MODULE XhrClaims -----------------------------
(***************************************************************************)
(* What a comment of FlintXmlHttpRequestAPI says of a readyState and the   *)
(* code does not keep, stated of XhrSequential's sends.                    *)
(***************************************************************************)
EXTENDS XhrSequential

\* A script that sends once after each open(), and aborts only a load whose
\* answer has begun to arrive.
OpenAgain ==
    /\ opens = 0 \/ state \in {"HeadersReceived", "Loading", "Done"}
    /\ Open

OnceSpec == Init /\ [][System \/ OpenAgain \/ SendOnce]_vars

\* "The operation is complete": Done is not announced while the request of
\* this load is still under way.  The end of the stream of an aborted load,
\* queued before open(), announces it
\* (FlintXmlHttpRequestAPI::handleReadContent).
DoneWhenComplete ==
    opens > 0 /\ state = "Done" /\ HasSent => op[sends] = "end"
=============================================================================
