--------------------------- MODULE XhrSequential ----------------------------
(***************************************************************************)
(* The FlintXmlHttpRequestAPI object in the hands of a careful script: it  *)
(* sends once after each open(), takes the response text when the load is  *)
(* Done, and opens again only then.  (The object never tells it about an   *)
(* error: after a failed load such a script makes another object.)         *)
(* For this script the object keeps the promise of its header, XhrPromise. *)
(***************************************************************************)
EXTENDS XmlHttpRequest

\* A script that has a callback learns of Done there, not by polling before
\* the callback has run.
OpenNext ==
    /\ opens = 0 \/ (state = "Done" /\ call # "posted" /\ responseBuf = <<>>)
    /\ Open

SendOnce == opens > 0 /\ url = opens /\ state = "Opened" /\ ~HasSent /\ Send

TakeText == opens > 0 /\ state = "Done" /\ GetResponseText

ReadHeader ==
    opens > 0 /\ state \in {"HeadersReceived", "Done"} /\ GetResponseHeader

SeqNext ==
    \/ System \/ OpenNext \/ SendOnce \/ TakeText \/ ReadHeader
    \/ \E isSet \in BOOLEAN : SetCallback(isSet)

SeqSpec == Init /\ [][SeqNext]_vars

-----------------------------------------------------------------------------
\* What the script can see belongs to its own last request: the status and
\* the header from HeadersReceived on, and every byte of the text.
OwnResponse ==
    opens > 0 /\ state \in {"HeadersReceived", "Loading", "Done"} =>
        /\ HasSent /\ statusCode = sends /\ responseHeader = sends
        /\ \A i \in DOMAIN responseBuf :
              responseBuf[i] = [req |-> sends, part |-> "body"]

\* A request is written alone, and to the host it was written for.
RightHost ==
    \A s \in Sends : op[s] = "write" /\ result[s] = "pending" =>
        socket = "connected" /\ host = target[s] /\ outgoing[s] = <<s>>

\* When the main thread gets to run the callback the io thread posted, the
\* script still finds the readyState that was announced.
CallbackSeesItsState ==
    [][RunIoCallback =>
         state = IF op[io] = "headers" THEN "HeadersReceived" ELSE "Done"]_vars

Promise == INSTANCE XhrPromise WITH
    readyState <- IF opens = 0 THEN "New" ELSE state,
    load <- opens,
    sent <- HasSent,
    visible <- IF opens > 0 /\ state \in {"HeadersReceived", "Done"}
                  /\ statusCode = responseHeader
               THEN target[statusCode] ELSE 0,
    text <- IF opens > 0 /\ state = "Done"
            THEN {target[responseBuf[i].req] : i \in DOMAIN responseBuf}
            ELSE {}

KeepsPromise == Promise!Spec
=============================================================================
