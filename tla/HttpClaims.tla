----------------------------- MODULE HttpClaims -----------------------------
(***************************************************************************)
(* A comment of FlintHttpRequestAPI that the code does not keep, stated of *)
(* HttpRequest.                                                            *)
(***************************************************************************)
EXTENDS HttpRequest

\* "Each endpoint will be tried until we successfully establish a connection"
\* (FlintHttpRequestAPI::handleResolve): a chain that ends has passed over no
\* endpoint, even for a script that waits for each chain to end.  Nothing
\* closes the socket of a completed load, and a connected socket refuses the
\* first connect of the next one.
EachEndpointTried ==
    ~overlapped => \A c \in Chains : op[c] = "end" => skipped[c] = 0
=============================================================================
