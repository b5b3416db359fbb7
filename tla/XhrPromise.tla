----------------------------- MODULE XhrPromise -----------------------------
(***************************************************************************)
(* What the header of FlintXmlHttpRequestAPI promises a script that uses   *)
(* the object for one load after another (the comments on                  *)
(* XMLHttpRequestState): the readyState goes from Unsent to Opened, from   *)
(* there, once send() has been called, to HeadersReceived and to Done, and *)
(* what the script can see then is the response to its own last request.   *)
(***************************************************************************)
EXTENDS Naturals

VARIABLES
    readyState,  \* what getReadyState() returns
    load,        \* number of the last open()
    sent,        \* send() has been called since
    visible,     \* load whose status and headers the script can read, or 0
    text         \* loads whose body getResponseText() would return

vars == <<readyState, load, sent, visible, text>>

Init ==
    /\ readyState = "New"
    /\ load = 0 /\ sent = FALSE /\ visible = 0 /\ text = {}

Open ==
    /\ readyState \in {"New", "Done"}
    /\ readyState' = "Unsent"
    /\ load' = load + 1
    /\ sent' = FALSE /\ visible' = 0 /\ text' = {}

Opened ==
    /\ readyState = "Unsent"
    /\ readyState' = "Opened"
    /\ UNCHANGED <<load, sent, visible, text>>

Send ==
    /\ readyState = "Opened" /\ ~sent
    /\ sent' = TRUE
    /\ UNCHANGED <<readyState, load, visible, text>>

Headers ==
    /\ readyState = "Opened" /\ sent
    /\ readyState' = "HeadersReceived"
    /\ visible' = load
    /\ UNCHANGED <<load, sent, text>>

Finish ==
    /\ readyState = "HeadersReceived"
    /\ readyState' = "Done"
    /\ text' \in {{}, {load}}
    /\ UNCHANGED <<load, sent, visible>>

TakeText ==
    /\ readyState = "Done"
    /\ text' = {}
    /\ UNCHANGED <<readyState, load, sent, visible>>

Next == Open \/ Opened \/ Send \/ Headers \/ Finish \/ TakeText
Spec == Init /\ [][Next]_vars
=============================================================================
