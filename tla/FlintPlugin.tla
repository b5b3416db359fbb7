----------------------------- MODULE FlintPlugin ----------------------------
(***************************************************************************)
(* The life of a FlintPlugin: its io_service, the detached thread that     *)
(* runs it, the root JSAPI object and the API objects a page creates on    *)
(* the io_service (FlintXmlHttpRequestAPI, FlintHttpRequestAPI and         *)
(* FlintSSDPResponderAPI; FlintWebSocketAPI has an io_service of its own). *)
(*                                                                         *)
(* Of an object only its life and the number of its operations on the      *)
(* io_service are kept: handlers are bound to a raw `this' and the object  *)
(* is reference-counted by the browser.  XmlHttpRequest, HttpRequest       *)
(* and SsdpResponder say what the operations are.                          *)
(***************************************************************************)
EXTENDS Naturals, Sequences, FiniteSets, SequencesExt

CONSTANTS
    Objects,  \* the API objects a page may create
    Responders, \* those that are FlintSSDPResponderAPI objects
    MaxOps,   \* how many operations each of them starts
    None      \* no object

ASSUME ObjectsAssumption ==
    /\ IsFiniteSet(Objects) /\ None \notin Objects
    /\ Responders \subseteq Objects /\ MaxOps \in Nat

VARIABLES
    plugin,   \* the FlintPlugin: from its construction to its destruction
    api,      \* the root JSAPI object
    work,     \* holderWork_ is set
    thread,   \* the detached io thread
    object,   \* the life of each API object
    started,  \* operations each object has started so far
    pending,  \* those of them that are under way
    ready,    \* objects whose handlers are to run, one entry an operation
    running,  \* the object whose handler runs on the io thread, or None
    misused   \* what was used after its destruction

vars == <<plugin, api, work, thread, object, started, pending, ready, running,
          misused>>

Init ==
    /\ plugin = "constructed" /\ api = "none" /\ work = FALSE
    /\ thread = "none"
    /\ object = [o \in Objects |-> "none"]
    /\ started = [o \in Objects |-> 0] /\ pending = [o \in Objects |-> 0]
    /\ ready = <<>> /\ running = None /\ misused = {}

(***************************************************************************)
(* The host                                                                *)
(***************************************************************************)
\* The host creates the root object before it says that the plugin is ready.
CreateJSAPI ==
    /\ plugin = "constructed" /\ api = "none"
    /\ api' = "alive"
    /\ UNCHANGED <<plugin, work, thread, object, started, pending, ready,
                   running, misused>>

\* Mutant: nothing holds the io_service open.
OnPluginReadyIdle ==
    /\ plugin = "constructed" /\ api = "alive"
    /\ plugin' = "ready" /\ thread' = "running"
    /\ UNCHANGED <<api, work, object, started, pending, ready, running,
                   misused>>

OnPluginReady ==
    /\ plugin = "constructed" /\ api = "alive"
    /\ plugin' = "ready"
    /\ work' = TRUE
    /\ thread' = "running"
    /\ UNCHANGED <<api, object, started, pending, ready, running, misused>>

\* Mutant: the work object is kept.
ShutdownHolds ==
    /\ plugin = "ready"
    /\ plugin' = "shut"
    /\ UNCHANGED <<api, work, thread, object, started, pending, ready,
                   running, misused>>

Shutdown ==
    /\ plugin = "ready"
    /\ plugin' = "shut"
    /\ work' = FALSE
    /\ UNCHANGED <<api, thread, object, started, pending, ready, running,
                   misused>>

\* Destroying an object closes its socket: what it has under way completes
\* with an error, in some order, and the handlers are still bound to it.
Free(freed) ==
    /\ object' = [o \in Objects |-> IF o \in freed THEN "freed" ELSE object[o]]
    /\ pending' = [o \in Objects |-> IF o \in freed THEN 0 ELSE pending[o]]
    /\ \E order \in SetToSeqs({p \in freed \X (1..MaxOps) :
                                 p[2] <= pending[p[1]]}) :
         ready' = ready \o [i \in DOMAIN order |-> order[i][1]]

\* ~FlintPlugin, the body: the root object and the objects that the host
\* retains are released.  A page may keep the root object.
ReleaseObjects ==
    /\ plugin = "shut"
    /\ plugin' = "dying"
    /\ api' \in {"alive", "released"}
    /\ Free({o \in Objects : object[o] = "alive"})
    /\ UNCHANGED <<work, thread, started, running, misused>>

\* ~FlintPlugin, the members: ~io_service destroys the operations under way and
\* the handlers that wait.
DestroyMembers ==
    /\ plugin = "dying"
    /\ plugin' = "gone"
    /\ ready' = <<>> /\ pending' = [o \in Objects |-> 0]
    /\ misused' = IF thread = "running" THEN misused \cup {"io_service"}
                  ELSE misused
    /\ UNCHANGED <<api, work, thread, object, started, running>>

(***************************************************************************)
(* The page                                                                *)
(***************************************************************************)
\* createHttpRequest, createXmlHttpRequest, createSSDPResponder: the socket of
\* the new object is made on ioService_, whatever became of the plugin.
Create(o) ==
    /\ api = "alive" /\ object[o] = "none"
    /\ IF plugin = "gone"
       THEN misused' = misused \cup {"io_service"} /\ UNCHANGED object
       ELSE object' = [object EXCEPT ![o] = "alive"] /\ UNCHANGED misused
    /\ UNCHANGED <<plugin, api, work, thread, started, pending, ready, running>>

Starts(o) ==
    /\ started[o] < MaxOps
    /\ started' = [started EXCEPT ![o] = @ + 1]
    /\ pending' = [pending EXCEPT ![o] = @ + 1]

\* Mutant: each call arms two receives.
StartOpTwice(o) ==
    /\ object[o] = "alive" /\ started[o] < MaxOps
    /\ started' = [started EXCEPT ![o] = @ + 1]
    /\ pending' = [pending EXCEPT ![o] = @ + 2]
    /\ UNCHANGED <<plugin, api, work, thread, object, ready, running, misused>>

\* open(), send() or search() starts an operation and does not wait for those
\* that the object started before.
StartOp(o) ==
    /\ object[o] = "alive" /\ Starts(o)
    /\ UNCHANGED <<plugin, api, work, thread, object, ready, running, misused>>

\* The page's last reference goes.
Release(o) ==
    /\ object[o] = "alive"
    /\ Free({o})
    /\ UNCHANGED <<plugin, api, work, thread, started, running, misused>>

(***************************************************************************)
(* The io thread and the network                                           *)
(***************************************************************************)
HandlerBegins ==
    /\ plugin # "gone" /\ thread = "running" /\ running = None /\ ready # <<>>
    /\ running' = Head(ready)
    /\ ready' = Tail(ready)
    /\ misused' = IF object[Head(ready)] = "freed"
                  THEN misused \cup {"object"} ELSE misused
    /\ UNCHANGED <<plugin, api, work, thread, object, started, pending>>

\* A handler may start the next operation of its chain.
HandlerEnds ==
    /\ running # None
    /\ running' = None
    /\ IF object[running] = "freed"
       THEN /\ misused' = misused \cup {"object"}
            /\ UNCHANGED <<started, pending>>
       ELSE /\ \/ Starts(running)
               \/ UNCHANGED <<started, pending>>
            /\ UNCHANGED misused
    /\ UNCHANGED <<plugin, api, work, thread, object, ready>>

\* io_service::run returns when there is neither work nor an operation.
RunReturns ==
    /\ plugin # "gone" /\ thread = "running" /\ running = None /\ ~work
    /\ ready = <<>> /\ \A o \in Objects : pending[o] = 0
    /\ thread' = "returned"
    /\ UNCHANGED <<plugin, api, work, object, started, pending, ready, running,
                   misused>>

Completes(o) ==
    /\ pending[o] > 0
    /\ pending' = [pending EXCEPT ![o] = @ - 1]
    /\ ready' = Append(ready, o)
    /\ UNCHANGED <<plugin, api, work, thread, object, started, running, misused>>

(***************************************************************************)
(* The specification                                                       *)
(***************************************************************************)
Host ==
    CreateJSAPI \/ OnPluginReady \/ Shutdown \/ ReleaseObjects \/ DestroyMembers

Page == \E o \in Objects : Create(o) \/ StartOp(o) \/ Release(o)
IoThread == HandlerBegins \/ HandlerEnds \/ RunReturns

Next == Host \/ Page \/ IoThread \/ \E o \in Objects : Completes(o)
Spec == Init /\ [][Next]_vars

\* A connection ends what is asked of it; a search may find no device.
Fairness ==
    WF_vars(IoThread) /\ \A o \in Objects \ Responders : WF_vars(Completes(o))
FairSpec == Spec /\ Fairness

(***************************************************************************)
(* Properties                                                              *)
(***************************************************************************)
\* How many handlers of an object a queue holds.
Entries(o, queue) == Cardinality({i \in DOMAIN queue : queue[i] = o})

Outstanding(o) ==
    pending[o] + Entries(o, ready) + (IF running = o THEN 1 ELSE 0)

\* Every variable keeps its type, and an object has an operation outstanding
\* only if it started it.
TypeOK ==
    /\ plugin \in {"constructed", "ready", "shut", "dying", "gone"}
    /\ api \in {"none", "alive", "released"} /\ work \in BOOLEAN
    /\ thread \in {"none", "running", "returned"}
    /\ object \in [Objects -> {"none", "alive", "freed"}]
    /\ started \in [Objects -> 0..MaxOps] /\ pending \in [Objects -> 0..MaxOps]
    /\ ready \in Seq(Objects) /\ running \in Objects \cup {None}
    /\ misused \subseteq {"io_service", "object"}
    /\ \A o \in Objects : Outstanding(o) <= started[o]

\* An idle io_service keeps its thread until shutdown(): run() does not return
\* in the pauses between a page's operations.
ThreadServes == plugin = "ready" => thread = "running"

\* While the plugin is up, what an object has started on its connection is
\* handled.
Served ==
    \A o \in Objects \ Responders :
        plugin = "ready" /\ pending[o] > 0 ~>
            Outstanding(o) = 0 \/ plugin # "ready"

\* After shutdown() the thread ends, if the plugin is given the time and no
\* search waits for an answer.
ThreadReturns ==
    plugin = "shut" ~>
        \/ thread = "returned" \/ plugin = "gone"
        \/ \E o \in Responders : pending[o] > 0
=============================================================================
