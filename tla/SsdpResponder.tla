---------------------------- MODULE SsdpResponder ---------------------------
(***************************************************************************)
(* FlintSSDPResponderAPI on the io_service of its FlintPlugin.  Every      *)
(* search() multicasts a request and arms one receive.  The receives of an *)
(* object share receiveBuffer_ and senderEndpoint_: nothing commits what   *)
(* was received, so prepare() gives the same bytes each time, and data()   *)
(* is always empty: of an answer the handler prints bytes_transferred, and *)
(* nothing of what it says.                                                *)
(*                                                                         *)
(* Devices answer a search as often as they like, or never.  A datagram    *)
(* is the size that async_receive_from reports of it.                      *)
(***************************************************************************)
EXTENDS FlintPlugin

CONSTANTS
    MaxAnswers,  \* how many datagrams arrive at one socket
    Sizes        \* the sizes they have, up to the 1500 bytes prepared

\* No answer to a search is empty; a receive that fails reports no bytes.
ASSUME AnswersAssumption == MaxAnswers \in Nat /\ Sizes \subseteq Nat \ {0}

VARIABLES
    arrived,  \* the datagrams each socket got, in this order
    socket,   \* those in its queue
    buffer,   \* the one whose bytes are in the memory that prepare() gives
    results,  \* bytes_transferred of the receives whose handlers are to run
    printed   \* the byte counts that handleReceivedFrom printed

datagramVars == <<arrived, socket, buffer, results, printed>>
ssdpVars == <<vars, datagramVars>>

SsdpInit ==
    /\ Init
    /\ arrived = [o \in Responders |-> <<>>]
    /\ buffer = [o \in Responders |-> 0]
    /\ socket = [o \in Responders |-> <<>>]
    /\ results = [o \in Responders |-> <<>>]
    /\ printed = [o \in Responders |-> <<>>]

\* A datagram for the port from which search() sent.  One that is lost, or
\* finds the queue full, has not arrived.
Answer(o) ==
    /\ object[o] = "alive" /\ started[o] > 0 /\ Len(arrived[o]) < MaxAnswers
    /\ \E size \in Sizes :
         /\ arrived' = [arrived EXCEPT ![o] = Append(@, size)]
         /\ socket' = [socket EXCEPT ![o] = Append(@, size)]
    /\ UNCHANGED <<vars, buffer, results, printed>>

\* The receive armed first takes the datagram that came first.
Receive(o) ==
    /\ Completes(o) /\ socket[o] # <<>>
    /\ socket' = [socket EXCEPT ![o] = Tail(@)]
    /\ buffer' = [buffer EXCEPT ![o] = Head(socket[o])]
    /\ results' = [results EXCEPT ![o] = Append(@, Head(socket[o]))]
    /\ UNCHANGED <<arrived, printed>>

ReceiveFails(o) ==
    /\ Completes(o)
    /\ results' = [results EXCEPT ![o] = Append(@, 0)]
    /\ UNCHANGED <<arrived, socket, buffer, printed>>

\* Mutant of HandleReceivedFrom: it prints the size of what the buffer holds.
HandleReceivedFromBuffer(o) ==
    /\ results' = [results EXCEPT ![o] = Tail(@)]
    /\ printed' = [printed EXCEPT ![o] = Append(@, buffer[o])]
    /\ UNCHANGED <<arrived, socket, buffer>>

\* handleReceivedFrom does not look at the error and arms no receive.  The
\* line with data() is the same, an empty one, each time.
HandleReceivedFrom(o) ==
    /\ results' = [results EXCEPT ![o] = Tail(@)]
    /\ printed' = [printed EXCEPT ![o] = Append(@, Head(results[o]))]
    /\ UNCHANGED <<arrived, socket, buffer>>

\* Of an object that was freed nothing is left to say.
SsdpHandlerBegins ==
    /\ HandlerBegins
    /\ IF Head(ready) \in Responders /\ object[Head(ready)] = "alive"
       THEN HandleReceivedFrom(Head(ready))
       ELSE UNCHANGED datagramVars

SsdpHandlerEnds ==
    /\ HandlerEnds
    /\ running \in Responders => started' = started
    /\ UNCHANGED datagramVars

SsdpIoThread ==
    \/ SsdpHandlerBegins
    \/ SsdpHandlerEnds
    \/ RunReturns /\ UNCHANGED datagramVars

Network ==
    \/ \E o \in Objects \ Responders : Completes(o) /\ UNCHANGED datagramVars
    \/ \E o \in Responders : Answer(o) \/ Receive(o) \/ ReceiveFails(o)

SsdpNext ==
    \/ (Host \/ Page) /\ UNCHANGED datagramVars
    \/ SsdpIoThread \/ Network

\* The socket gives a receive what is in its queue.
SsdpFairness ==
    /\ WF_ssdpVars(SsdpIoThread)
    /\ \A o \in Objects \ Responders :
         WF_ssdpVars(Completes(o) /\ UNCHANGED datagramVars)
    /\ \A o \in Responders : WF_ssdpVars(Receive(o))

SsdpSpec == SsdpInit /\ [][SsdpNext]_ssdpVars /\ SsdpFairness

(***************************************************************************)
(* Properties                                                              *)
(***************************************************************************)
\* came is what line holds besides the zeros of receives that failed.
InOrder(line, came) ==
    \E at \in [DOMAIN came -> DOMAIN line] :
        /\ \A j, k \in DOMAIN came : j < k => at[j] < at[k]
        /\ \A k \in DOMAIN came : line[at[k]] = came[k]
        /\ \A i \in DOMAIN line : line[i] # 0 => \E k \in DOMAIN came : at[k] = i

\* The byte counts an object prints are those of the datagrams, in the order in
\* which they arrived and one for each, though receives that overlap share one
\* buffer: with what waits for a handler and what is in the socket they are
\* all that arrived, but for the 0 that a receive prints which failed.
SizesPrintedOnce ==
    \A o \in Responders : object[o] = "alive" =>
        InOrder(printed[o] \o results[o] \o socket[o], arrived[o])

\* The receive of each search is under way, waits for its handler or was
\* printed: answers beyond the searches stay in the socket, and no search
\* takes the receive of another.
ReceivePerSearch ==
    \A o \in Responders : object[o] = "alive" /\ plugin # "gone" =>
        /\ started[o] = pending[o] + Len(results[o]) + Len(printed[o])
        /\ Len(results[o]) = Entries(o, ready)

\* A search that waits while an answer is in the socket has a print to show for
\* it in the end, as long as plugin and object are there.
AnswerServed ==
    \A o \in Responders, n \in 0..MaxOps :
        pending[o] > 0 /\ socket[o] # <<>> /\ Len(printed[o]) = n
          /\ plugin = "ready" /\ object[o] = "alive"
        ~> Len(printed[o]) > n \/ plugin # "ready" \/ object[o] # "alive"
=============================================================================
