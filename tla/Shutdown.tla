------------------------------ MODULE Shutdown ------------------------------
(***************************************************************************)
(* How the process stops: Shutdown (init.cpp), StopNode (net.cpp), the     *)
(* message thread, the RPC listener and the threads it makes for its       *)
(* clients (rpcmain.cpp).  The counters vnThreadsRunning are all that      *)
(* Shutdown knows of the others when it closes the databases and deletes   *)
(* the wallet.                                                             *)
(*                                                                         *)
(* A thread that does not wait for a socket takes its next steps well      *)
(* within the seconds that StopNode allows; one that waits for a client    *)
(* may wait for ever.                                                      *)
(***************************************************************************)
EXTENDS Integers, FiniteSets

CONSTANT Clients      \* connections the RPC listener may accept

ShutdownAssumption == IsFiniteSet(Clients)

VARIABLES
    stop,        \* progress of Shutdown: "no", "all", "listener", "handlers", "closing", "exited"
    fShutdown,
    fRequestShutdown,
    running,     \* vnThreadsRunning
    msg,         \* the message thread
    listener,    \* the RPC listener
    handler,     \* the thread of each client
    fRun         \* per client: the connection is kept after this request

stopVars == <<stop, fShutdown, fRequestShutdown, running, msg, listener, handler, fRun>>

(* After AppInit2: the message thread and the listener run. *)
StopInit ==
    /\ stop = "no" /\ fShutdown = FALSE /\ fRequestShutdown = FALSE
    /\ running = [kind \in {"message", "listener", "handler"} |-> IF kind = "handler" THEN 0 ELSE 1]
    /\ msg = "working" /\ listener = "loop"
    /\ handler = [c \in Clients |-> "none"]
    /\ fRun = [c \in Clients |-> TRUE]

Count(kind, n) == running' = [running EXCEPT ![kind] = @ + n]

(* StartShutdown makes a thread for Shutdown; only the first one passes    *)
(* fTaken, and its first act is to set fShutdown.                          *)
StartShutdown ==
    IF stop = "no" THEN stop' = "all" /\ fShutdown' = TRUE ELSE UNCHANGED <<stop, fShutdown>>

-----------------------------------------------------------------------------
(* The message thread.                                                     *)

(* One pass over the nodes is done; sleeping does not count as running. *)
MessagePass ==
    /\ msg = "working"
    /\ msg' = "asleep"
    /\ Count("message", -1)
    /\ UNCHANGED <<stop, fShutdown, fRequestShutdown, listener, handler, fRun>>

(* HandleSIGTERM only sets a flag. *)
HandleSIGTERM ==
    /\ ~fRequestShutdown
    /\ fRequestShutdown' = TRUE
    /\ UNCHANGED <<stop, fShutdown, running, msg, listener, handler, fRun>>

(* The thread wakes, passes the signal on, and counts itself again. *)
MessageWakes ==
    /\ msg = "asleep"
    /\ msg' = "awake"
    /\ IF fRequestShutdown THEN StartShutdown ELSE UNCHANGED <<stop, fShutdown>>
    /\ Count("message", 1)
    /\ UNCHANGED <<fRequestShutdown, listener, handler, fRun>>

(* "We must always check fShutdown after doing this": another pass, or the end. *)
MessageGoesOn ==
    /\ msg = "awake"
    /\ IF fShutdown THEN msg' = "ended" /\ Count("message", -1)
                    ELSE msg' = "working" /\ UNCHANGED running
    /\ UNCHANGED <<stop, fShutdown, fRequestShutdown, listener, handler, fRun>>

(* The flag is looked at between the nodes too. *)
MessageStops ==
    /\ msg = "working" /\ fShutdown
    /\ msg' = "ended"
    /\ Count("message", -1)
    /\ UNCHANGED <<stop, fShutdown, fRequestShutdown, listener, handler, fRun>>

-----------------------------------------------------------------------------
(* The RPC server.                                                         *)

(* A connection completes while the listener is in run_one. *)
Accept(c) ==
    /\ listener = "loop" /\ ~fShutdown
    /\ handler[c] = "none"
    /\ handler' = [handler EXCEPT ![c] = "accepted"]
    /\ listener' = "accepting"
    /\ Count("listener", 1)
    /\ UNCHANGED <<stop, fShutdown, fRequestShutdown, msg, fRun>>

(* ClientAllowed says no: the answer is written to the client's socket. *)
Forbid(c) ==
    /\ listener = "accepting" /\ handler[c] = "accepted"
    /\ handler' = [handler EXCEPT ![c] = "ended"]
    /\ listener' = "replying"
    /\ UNCHANGED <<stop, fShutdown, fRequestShutdown, running, msg, fRun>>

(* The answer went out, or the connection broke. *)
Forbidden ==
    /\ listener = "replying"
    /\ listener' = "loop"
    /\ Count("listener", -1)
    /\ UNCHANGED <<stop, fShutdown, fRequestShutdown, msg, handler, fRun>>

(* The handler is counted before its thread exists. *)
CountHandler(c) ==
    /\ listener = "accepting" /\ handler[c] = "accepted"
    /\ listener' = "counted"
    /\ Count("handler", 1)
    /\ UNCHANGED <<stop, fShutdown, fRequestShutdown, msg, handler, fRun>>

(* NewThread makes the thread, or fails and the count is taken back. *)
Spawn(c) ==
    /\ listener = "counted" /\ handler[c] = "accepted"
    /\ listener' = "loop"
    /\ \/ /\ handler' = [handler EXCEPT ![c] = "top"]
          /\ Count("listener", -1)
       \/ /\ handler' = [handler EXCEPT ![c] = "ended"]
          /\ running' = [running EXCEPT !.listener = @ - 1, !.handler = @ - 1]
    /\ UNCHANGED <<stop, fShutdown, fRequestShutdown, msg, fRun>>

(* A timer wakes run_one, and the loop sees the flag. *)
ListenerStops ==
    /\ listener = "loop" /\ fShutdown
    /\ listener' = "ended"
    /\ Count("listener", -1)
    /\ UNCHANGED <<stop, fShutdown, fRequestShutdown, msg, handler, fRun>>

(* The top of the loop of ThreadRPCServer3. *)
HandlerTop(c) ==
    /\ handler[c] = "top"
    /\ IF fShutdown \/ ~fRun[c]
       THEN handler' = [handler EXCEPT ![c] = "ended"] /\ Count("handler", -1)
       ELSE handler' = [handler EXCEPT ![c] = "reading"] /\ UNCHANGED running
    /\ UNCHANGED <<stop, fShutdown, fRequestShutdown, msg, listener, fRun>>

(* ReadHTTP returned: a request with or without keep-alive, or one that is *)
(* refused (no header, wrong password, not JSON, a broken connection).     *)
ReadRequest(c) ==
    /\ handler[c] = "reading"
    /\ \/ \E keep \in BOOLEAN :
             /\ handler' = [handler EXCEPT ![c] = "executing"]
             /\ fRun' = [fRun EXCEPT ![c] = keep]
             /\ UNCHANGED running
       \/ /\ handler' = [handler EXCEPT ![c] = "ended"]
          /\ Count("handler", -1)
          /\ UNCHANGED fRun
    /\ UNCHANGED <<stop, fShutdown, fRequestShutdown, msg, listener>>

(* tableRPC.execute and the reply.  An error reply ends the connection;    *)
(* the command stop asks for the shutdown.                                 *)
Execute(c) ==
    /\ handler[c] = "executing"
    /\ \/ handler' = [handler EXCEPT ![c] = "top"] /\ UNCHANGED running
       \/ handler' = [handler EXCEPT ![c] = "ended"] /\ Count("handler", -1)
    /\ StartShutdown \/ UNCHANGED <<stop, fShutdown>>
    /\ UNCHANGED <<fRequestShutdown, msg, listener, fRun>>

-----------------------------------------------------------------------------
(* Shutdown and StopNode.                                                  *)

StopAfter(from, to, done) ==
    /\ stop = from /\ done
    /\ stop' = to
    /\ UNCHANGED <<fShutdown, fRequestShutdown, running, msg, listener, handler, fRun>>

(* All counters are zero, or twenty seconds are over. *)
WaitAll == StopAfter("all", "listener", TRUE)

(* The listener ended, or has been busy with a socket for five seconds. *)
WaitListener == StopAfter("listener", "handlers", running.listener = 0 \/ listener = "replying")

(* Message thread and handlers are waited for without a limit. *)
WaitHandlers == StopAfter("handlers", "closing", running.message = 0 /\ running.handler = 0)

(* The databases are closed and the wallet is deleted. *)
CloseAll == StopAfter("closing", "exited", TRUE)

Thread ==
    \/ MessagePass \/ MessageWakes \/ MessageGoesOn \/ MessageStops
    \/ ListenerStops
    \/ \E c \in Clients : CountHandler(c) \/ Spawn(c) \/ HandlerTop(c) \/ Execute(c)
    \/ WaitAll \/ WaitListener \/ WaitHandlers \/ CloseAll

Outside ==
    \/ HandleSIGTERM \/ Forbidden
    \/ \E c \in Clients : Accept(c) \/ Forbid(c) \/ ReadRequest(c)

StopNext == Thread \/ Outside

(* Threads that do not wait for a client run on. *)
MessageThread == MessagePass \/ MessageWakes \/ MessageGoesOn \/ MessageStops
ListenerThread == ListenerStops \/ (\E c \in Clients : CountHandler(c) \/ Spawn(c))
HandlerThread(c) == HandlerTop(c) \/ Execute(c)
ShutdownThread == WaitAll \/ WaitListener \/ WaitHandlers \/ CloseAll

StopFairness ==
    /\ WF_stopVars(MessageThread) /\ WF_stopVars(ListenerThread) /\ WF_stopVars(ShutdownThread)
    /\ \A c \in Clients : WF_stopVars(HandlerThread(c))

StopSpec == StopInit /\ [][StopNext]_stopVars /\ StopFairness

-----------------------------------------------------------------------------

(* When Shutdown closes the databases and deletes the wallet, no thread is *)
(* in the middle of a message or a command, and none can begin: "shutdown  *)
(* can never miss it" (rpcmain.cpp:1303), whatever was being accepted,     *)
(* spawned or woken when the counters were read.                           *)
QuietAfterStop ==
    stop \in {"closing", "exited"} =>
        /\ msg # "working"
        /\ \A c \in Clients : handler[c] \notin {"reading", "executing"}

(* A shutdown comes to its end, unless a client keeps its connection open  *)
(* and silent: its handler waits in ReadHTTP and sees no flag.             *)
ShutdownEnds == fShutdown ~> (stop = "exited" \/ \E c \in Clients : handler[c] = "reading")
=============================================================================
