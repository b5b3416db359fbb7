----------------------------- MODULE XhrHeaders -----------------------------
(***************************************************************************)
(* The headers that the careful script of XhrSequential asks for: one      *)
(* header of requestHeaders_, which setRequestHeader() enters, open()      *)
(* clears and send() writes into the text of the request.                  *)
(***************************************************************************)
EXTENDS XhrSequential

CONSTANT MaxHeaders  \* how many times the script calls setRequestHeader()

ASSUME HeadersAssumption == MaxHeaders \in Nat

VARIABLES
    requestHeader,  \* the call that gave the header its value, or Absent
    carried,        \* the same in the text of each request
    asked,          \* history: the calls made so far
    first           \* history: the first of them for each load

headerVars == <<requestHeader, carried, asked, first>>
headersVars == <<vars, headerVars>>

HeadersInit ==
    /\ Init
    /\ requestHeader = Absent /\ carried = [s \in Sends |-> Absent]
    /\ asked = 0 /\ first = [load \in Loads |-> Absent]

\* Mutant of ClearHeaders: what the last load asked for stays.
ClearNothing == UNCHANGED requestHeader

\* requestHeaders_.clear() of jsOpen
ClearHeaders == requestHeader' = Absent

OpenClears ==
    /\ OpenNext /\ ClearHeaders
    /\ UNCHANGED <<carried, asked, first>>

\* insert() keeps the value that a name already has.
SetRequestHeader ==
    /\ JsRuns /\ opens > 0 /\ url = opens /\ state = "Opened" /\ ~HasSent
    /\ asked < MaxHeaders
    /\ asked' = asked + 1
    /\ requestHeader' = IF requestHeader = Absent THEN asked' ELSE requestHeader
    /\ first' = IF first[opens] = Absent
                THEN [first EXCEPT ![opens] = asked'] ELSE first
    /\ UNCHANGED <<vars, carried>>

SendWrites ==
    /\ SendOnce
    /\ carried' = [carried EXCEPT ![sends'] = requestHeader]
    /\ UNCHANGED <<requestHeader, asked, first>>

HeadersNext ==
    \/ OpenClears \/ SetRequestHeader \/ SendWrites
    \/ (System \/ TakeText \/ ReadHeader) /\ UNCHANGED headerVars
    \/ \E isSet \in BOOLEAN : SetCallback(isSet) /\ UNCHANGED headerVars

HeadersSpec == HeadersInit /\ [][HeadersNext]_headersVars

\* A request that is on its way to a server carries the header as its own load
\* asked for it first, and none that another load asked for.
OwnRequestHeaders ==
    \A s \in Sends : op[s] = "write" /\ result[s] = "pending" =>
        \A i \in DOMAIN outgoing[s] :
            LET r == outgoing[s][i] IN carried[r] = first[host]
=============================================================================
