----------------------------- MODULE WsSession ------------------------------
(***************************************************************************)
(* What websocketpp's connection.hpp promises the handlers of one          *)
(* connection attempt (the comments on open_handler, close_handler and     *)
(* fail_handler): either the open or the fail handler is called; the close *)
(* handler is called once and only after the open handler; messages come   *)
(* in between, in the order they were sent.                                *)
(***************************************************************************)
EXTENDS Naturals, Sequences

VARIABLES
    phase,    \* which handler was called last
    calls,    \* how many calls of these handlers there were
    messages  \* numbers of the messages handed to the message handler

vars == <<phase, calls, messages>>

Init == phase = "new" /\ calls = 0 /\ messages = <<>>

Handler(from, to) ==
    /\ phase = from
    /\ phase' = to
    /\ calls' = calls + 1
    /\ UNCHANGED messages

Message ==
    /\ phase = "open"
    /\ messages' = Append(messages, Len(messages) + 1)
    /\ UNCHANGED <<phase, calls>>

Next ==
    \/ Handler("new", "open") \/ Handler("new", "failed")
    \/ Handler("open", "closed") \/ Message

Spec == Init /\ [][Next]_vars
=============================================================================
