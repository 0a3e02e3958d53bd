--------------------------- MODULE StorageProofs ---------------------------
(***************************************************************************)
(* Theorems about the layers of MCStorage other than the environment: the  *)
(* handles on the wallet database and the shutdown, for any number of      *)
(* threads and RPC clients, and the files, for any number of commits,      *)
(* stops and failing calls.                                                *)
(***************************************************************************)
EXTENDS MCStorage, FiniteSetTheorems, SequenceTheorems, TLAPS

-----------------------------------------------------------------------------
(* Shutdown: the counters and what they count.                             *)

(* A client that is counted in running.handler: its thread runs, or is about *)
(* to be made.                                                               *)
Counted == {c \in Clients : \/ handler[c] \in {"top", "reading", "executing"}
                            \/ listener = "counted" /\ handler[c] = "accepted"}

Counters == {"message", "listener", "handler"}

StopTypeOK ==
    /\ stop \in {"no", "all", "listener", "handlers", "closing", "exited"}
    /\ fShutdown \in BOOLEAN /\ fRequestShutdown \in BOOLEAN
    /\ running \in [Counters -> Int]
    /\ msg \in {"working", "asleep", "awake", "ended"}
    /\ listener \in {"loop", "accepting", "replying", "counted", "ended"}
    /\ handler \in [Clients -> {"none", "accepted", "top", "reading", "executing", "ended"}]
    /\ fRun \in [Clients -> BOOLEAN]

(* Each counter has the number of threads at work. *)
CountersInv ==
    /\ running.message = IF msg \in {"working", "awake"} THEN 1 ELSE 0
    /\ running.listener =
         IF listener = "ended" THEN 0 ELSE IF listener = "loop" THEN 1 ELSE 2
    /\ running.handler = Cardinality(Counted)

(* The listener has a client of its own exactly while it accepts one. *)
AcceptInv ==
    /\ \A c \in Clients : handler[c] = "accepted" => listener \in {"accepting", "counted"}
    /\ \A c, d \in Clients : handler[c] = "accepted" /\ handler[d] = "accepted" => c = d

(* From the wait for the handlers on nobody new is accepted, and from the     *)
(* closing on nobody is at work.                                              *)
StagesInv ==
    /\ stop # "no" <=> fShutdown
    /\ listener = "ended" => fShutdown
    /\ stop \in {"handlers", "closing", "exited"} => listener \in {"loop", "replying", "ended"}
    /\ stop \in {"closing", "exited"} => msg # "working" /\ Counted = {}

StopInv == StopTypeOK /\ CountersInv /\ AcceptInv /\ StagesInv

(* The initial state satisfies the invariant. *)
LEMMA StopInitInv == Stopping!StopInit => StopInv
<1> SUFFICES ASSUME Stopping!StopInit PROVE StopInv
  OBVIOUS
<1> USE DEF Stopping!StopInit, Counters
<1>1. Counted = {}
  BY DEF Counted
<1>2. fShutdown \in BOOLEAN /\ fRequestShutdown \in BOOLEAN
  BY Zenon
<1>3. running \in [Counters -> Int]
  BY SMT
<1>4. fRun \in [Clients -> BOOLEAN]
  BY SMT
<1>5. StopTypeOK /\ AcceptInv
  BY <1>2, <1>3, <1>4 DEF StopTypeOK, AcceptInv
<1>6. CountersInv /\ StagesInv
  BY <1>1, FS_EmptySet DEF CountersInv, StagesInv
<1>7. QED
  BY <1>5, <1>6 DEF StopInv

(* A step that leaves handlers and listener alone leaves the counted ones. *)
LEMMA CountedSame == listener' = listener /\ handler' = handler => Counted' = Counted
BY DEF Counted

(* There are finitely many counted clients. *)
LEMMA CountedFinite == IsFiniteSet(Counted) /\ Cardinality(Counted) \in Nat
<1>1. Counted \subseteq Clients
  BY DEF Counted
<1>2. IsFiniteSet(Clients)
  BY StorageAssumption DEF StorageAssumption, Stopping!ShutdownAssumption, Stopping!IsFiniteSet,
                            IsFiniteSet
<1>3. QED
  BY <1>1, <1>2, FS_Subset, FS_CardinalityType

(* Steps of the message thread and of the shutdown: the listener and its       *)
(* clients stay as they are.                                                   *)
LEMMA StopMessageInv ==
    StopInv /\ (Stopping!MessageThread \/ Stopping!HandleSIGTERM \/ Stopping!ShutdownThread)
        => StopInv'
<1> SUFFICES ASSUME StopInv,
                    Stopping!MessageThread \/ Stopping!HandleSIGTERM \/ Stopping!ShutdownThread
             PROVE  StopInv'
  OBVIOUS
<1>1. listener' = listener /\ handler' = handler /\ fRun' = fRun
  BY DEF Stopping!MessageThread, Stopping!HandleSIGTERM, Stopping!ShutdownThread,
         Stopping!MessagePass, Stopping!MessageWakes, Stopping!MessageGoesOn, Stopping!MessageStops,
         Stopping!WaitAll, Stopping!WaitListener, Stopping!WaitHandlers, Stopping!CloseAll,
         Stopping!StopAfter
<1>2. Counted' = Counted
  BY <1>1, CountedSame
<1>3. ASSUME Stopping!MessageThread
      PROVE  StopInv'
  <2>1. \/ stop' = stop /\ fShutdown' = fShutdown
        \/ stop = "no" /\ stop' = "all" /\ fShutdown' = TRUE
    BY <1>3, Zenon DEF Stopping!MessageThread, Stopping!MessagePass, Stopping!MessageWakes,
         Stopping!MessageGoesOn, Stopping!MessageStops, Stopping!StartShutdown
  <2>2. fRequestShutdown' = fRequestShutdown
    BY <1>3 DEF Stopping!MessageThread, Stopping!MessagePass, Stopping!MessageWakes,
         Stopping!MessageGoesOn, Stopping!MessageStops
  <2>3. /\ msg' \in {"working", "asleep", "awake", "ended"}
        /\ fShutdown /\ msg # "working" => msg' # "working"
    BY <1>3 DEF Stopping!MessageThread, Stopping!MessagePass, Stopping!MessageWakes,
         Stopping!MessageGoesOn, Stopping!MessageStops
  <2>4. /\ running' \in [Counters -> Int]
        /\ running'.message = IF msg' \in {"working", "awake"} THEN 1 ELSE 0
        /\ running'.listener = running.listener /\ running'.handler = running.handler
    BY <1>3 DEF StopInv, StopTypeOK, Counters, CountersInv, Stopping!MessageThread, Stopping!MessagePass,
         Stopping!MessageWakes, Stopping!MessageGoesOn, Stopping!MessageStops, Stopping!Count
  <2>5. StopTypeOK'
    BY <1>1, <2>1, <2>2, <2>3, <2>4 DEF StopInv, StopTypeOK
  <2>6. CountersInv'
    BY <1>1, <1>2, <2>4 DEF StopInv, CountersInv
  <2>7. AcceptInv' /\ StagesInv'
    BY <1>1, <1>2, <2>1, <2>3 DEF StopInv, AcceptInv, StagesInv
  <2>8. QED
    BY <2>5, <2>6, <2>7 DEF StopInv
<1>4. CASE Stopping!HandleSIGTERM
  BY <1>1, <1>2, <1>4 DEF StopInv, StopTypeOK, CountersInv, AcceptInv, StagesInv,
     Stopping!HandleSIGTERM
<1>5. CASE Stopping!ShutdownThread
  <2>1. UNCHANGED <<fShutdown, fRequestShutdown, running, msg>>
    BY <1>5 DEF Stopping!ShutdownThread, Stopping!WaitAll, Stopping!WaitListener,
         Stopping!WaitHandlers, Stopping!CloseAll, Stopping!StopAfter
  <2>2. /\ stop # "no" /\ stop' \in {"listener", "handlers", "closing", "exited"}
        /\ stop' = "handlers" => running.listener = 0 \/ listener = "replying"
        /\ stop' = "closing" => /\ stop = "handlers"
                                /\ running.message = 0 /\ running.handler = 0
        /\ stop' = "exited" => stop = "closing"
    BY <1>5 DEF Stopping!ShutdownThread, Stopping!WaitAll, Stopping!WaitListener,
         Stopping!WaitHandlers, Stopping!CloseAll, Stopping!StopAfter
  <2>3. StopTypeOK' /\ CountersInv' /\ AcceptInv'
    BY <1>1, <1>2, <2>1, <2>2 DEF StopInv, StopTypeOK, CountersInv, AcceptInv
  <2>4. stop' \in {"handlers", "closing", "exited"} => listener \in {"loop", "replying", "ended"}
    BY <2>2 DEF StopInv, CountersInv, StagesInv, StopTypeOK
  <2>5. stop' \in {"closing", "exited"} => msg # "working" /\ Counted = {}
    BY <2>2, CountedFinite, FS_EmptySet DEF StopInv, CountersInv, StagesInv
  <2>6. StagesInv'
    BY <1>1, <1>2, <2>1, <2>2, <2>4, <2>5 DEF StopInv, StagesInv
  <2>7. QED
    BY <2>3, <2>6 DEF StopInv
<1>6. QED
  BY <1>3, <1>4, <1>5

(* A client that starts or ends to be counted changes the number by one. *)
LEMMA CountedOneMore ==
    ASSUME StopTypeOK, CountersInv, NEW c \in Clients, c \notin Counted,
           Counted' = Counted \union {c}, running'.handler = running.handler + 1
    PROVE  running'.handler = Cardinality(Counted')
BY CountedFinite, FS_AddElement DEF CountersInv

LEMMA CountedOneLess ==
    ASSUME StopTypeOK, CountersInv, NEW c \in Counted,
           Counted' = Counted \ {c}, running'.handler = running.handler - 1
    PROVE  running'.handler = Cardinality(Counted')
BY CountedFinite, FS_RemoveElement DEF CountersInv

(* The listener accepts a connection and refuses it, counts its handler and  *)
(* makes the handler's thread.                                               *)
LEMMA StopListenerInv ==
    ASSUME StopInv, NEW c \in Clients,
           \/ Stopping!Accept(c) \/ Stopping!Forbid(c) \/ Stopping!CountHandler(c) \/ Stopping!Spawn(c)
    PROVE  StopInv'
<1> USE DEF StopInv, Counters
<1>1. UNCHANGED <<stop, fShutdown, fRequestShutdown, msg, fRun>>
  BY DEF Stopping!Accept, Stopping!Forbid, Stopping!CountHandler, Stopping!Spawn
<1>a. running \in [Counters -> Int]
  BY DEF StopTypeOK
<1>b. ASSUME Stopping!Spawn(c)
      PROVE  /\ running' \in [Counters -> Int]
             /\ running'.message = running.message
             /\ running'.listener = running.listener - 1
  <2>1. CASE running' = [running EXCEPT !.listener = @ - 1]
    BY <1>a, <2>1
  <2>2. running.listener - 1 \in Int /\ running.handler - 1 \in Int
    BY <1>a
  <2>3. CASE running' = [running EXCEPT !.listener = running.listener - 1,
                                       !.handler = running.handler - 1]
    BY <1>a, <2>2, <2>3
  <2>4. QED
    BY <1>b, <2>1, <2>3 DEF Stopping!Spawn, Stopping!Count
<1>2. /\ running' \in [Counters -> Int]
      /\ running'.message = running.message
  BY <1>a, <1>b DEF Stopping!Accept, Stopping!Forbid, Stopping!CountHandler, Stopping!Count
<1>3. StopTypeOK'
  BY <1>1, <1>2 DEF Stopping!Accept, Stopping!Forbid, Stopping!CountHandler, Stopping!Spawn,
     StopTypeOK
<1>4. AcceptInv'
  BY DEF Stopping!Accept, Stopping!Forbid, Stopping!CountHandler, Stopping!Spawn,
     AcceptInv, StopTypeOK
<1>5. running'.listener =
         IF listener' = "ended" THEN 0 ELSE IF listener' = "loop" THEN 1 ELSE 2
  <2>1. CASE Stopping!CountHandler(c) \/ Stopping!Forbid(c)
    BY <2>1 DEF Stopping!Forbid, Stopping!CountHandler, CountersInv, StopTypeOK, Stopping!Count
  <2>2. CASE Stopping!Accept(c)
    BY <2>2 DEF Stopping!Accept, CountersInv, StopTypeOK, Stopping!Count
  <2>3. CASE Stopping!Spawn(c)
    BY <1>b, <2>3 DEF Stopping!Spawn, CountersInv
  <2>4. QED
    BY <2>1, <2>2, <2>3
<1>6. \/ Counted' = Counted /\ running'.handler = running.handler
      \/ /\ c \notin Counted /\ Counted' = Counted \union {c} /\ Stopping!CountHandler(c)
         /\ running'.handler = running.handler + 1
      \/ /\ c \in Counted /\ Counted' = Counted \ {c}
         /\ running'.handler = running.handler - 1
  <2>1. CASE Stopping!CountHandler(c)
    BY <2>1 DEF Stopping!CountHandler, Counted, Stopping!Count, StopTypeOK, AcceptInv
  <2>2. CASE Stopping!Spawn(c)
    BY <2>2 DEF Stopping!Spawn, Counted, Stopping!Count, StopTypeOK, AcceptInv
  <2>3. CASE Stopping!Accept(c)
    BY <2>3 DEF Stopping!Accept, Counted, Stopping!Count, StopTypeOK, AcceptInv
  <2>4. CASE Stopping!Forbid(c)
    BY <2>4 DEF Stopping!Forbid, Counted, Stopping!Count, StopTypeOK, AcceptInv
  <2>5. QED
    BY <2>1, <2>2, <2>3, <2>4
<1>7. CountersInv'
  BY <1>1, <1>2, <1>5, <1>6, CountedOneMore, CountedOneLess DEF CountersInv
<1>8. /\ listener' = "ended" => fShutdown
      /\ stop \in {"handlers", "closing", "exited"} =>
            /\ listener' \in {"loop", "replying", "ended"}
            /\ ~Stopping!CountHandler(c)
  BY DEF Stopping!Accept, Stopping!Forbid, Stopping!CountHandler, Stopping!Spawn,
     StagesInv
<1>9. StagesInv'
  BY <1>1, <1>6, <1>8 DEF StagesInv
<1>10. QED
  BY <1>3, <1>4, <1>7, <1>9

(* The listener finishes a refusal, or its loop ends. *)
LEMMA StopNoClient ==
    StopInv /\ (Stopping!Forbidden \/ Stopping!ListenerStops) => StopInv'
<1> SUFFICES ASSUME StopInv, Stopping!Forbidden \/ Stopping!ListenerStops PROVE StopInv'
  OBVIOUS
<1> USE DEF StopInv, Counters
<1>1. /\ UNCHANGED <<stop, fShutdown, fRequestShutdown, msg, fRun, handler>>
      /\ running' = [running EXCEPT !.listener = @ - 1]
      /\ \/ listener = "replying" /\ listener' = "loop"
         \/ listener = "loop" /\ listener' = "ended" /\ fShutdown
  BY DEF Stopping!Forbidden, Stopping!ListenerStops, Stopping!Count
<1>2. Counted' = Counted
  BY <1>1 DEF Counted
<1>3. /\ running' \in [Counters -> Int]
      /\ running'.message = running.message /\ running'.handler = running.handler
      /\ running'.listener = running.listener - 1
  BY <1>1 DEF StopTypeOK
<1>4. StopTypeOK' /\ AcceptInv'
  BY <1>1, <1>3 DEF StopTypeOK, AcceptInv
<1>5. CountersInv' /\ StagesInv'
  BY <1>1, <1>2, <1>3 DEF CountersInv, StagesInv
<1>6. QED
  BY <1>4, <1>5

(* A handler looks at the flag, reads a request and executes it. *)
LEMMA StopHandlerInv ==
    ASSUME StopInv, NEW c \in Clients,
           Stopping!HandlerTop(c) \/ Stopping!ReadRequest(c) \/ Stopping!Execute(c)
    PROVE  StopInv'
<1> USE DEF StopInv, Counters
<1>1. UNCHANGED <<fRequestShutdown, msg, listener>>
  BY DEF Stopping!HandlerTop, Stopping!ReadRequest, Stopping!Execute
<1>2. \/ stop' = stop /\ fShutdown' = fShutdown
      \/ stop = "no" /\ stop' = "all" /\ fShutdown' = TRUE
  BY Zenon DEF Stopping!HandlerTop, Stopping!ReadRequest, Stopping!Execute,
     Stopping!StartShutdown
<1>3. fRun' \in [Clients -> BOOLEAN]
  BY DEF Stopping!HandlerTop, Stopping!ReadRequest, Stopping!Execute, StopTypeOK
<1>4. /\ c \in Counted
      /\ \/ /\ handler' = [handler EXCEPT ![c] = "ended"]
            /\ running' = [running EXCEPT !.handler = @ - 1]
         \/ /\ \E h \in {"top", "reading", "executing"} : handler' = [handler EXCEPT ![c] = h]
            /\ running' = running
  BY DEF Stopping!HandlerTop, Stopping!ReadRequest, Stopping!Execute, Stopping!Count, Counted
<1>5. /\ handler' \in [Clients -> {"none", "accepted", "top", "reading", "executing", "ended"}]
      /\ \A d \in Clients : handler'[d] = "accepted" => handler[d] = "accepted"
  BY <1>4 DEF StopTypeOK
<1>6. /\ running' \in [Counters -> Int]
      /\ running'.message = running.message /\ running'.listener = running.listener
  BY <1>4 DEF StopTypeOK
<1>7. StopTypeOK'
  BY <1>1, <1>2, <1>3, <1>5, <1>6 DEF StopTypeOK
<1>8. AcceptInv'
  BY <1>1, <1>5 DEF AcceptInv
<1>9. \/ Counted' = Counted /\ running'.handler = running.handler
      \/ Counted' = Counted \ {c} /\ running'.handler = running.handler - 1
  BY <1>1, <1>4 DEF Counted, StopTypeOK, AcceptInv
<1>10. CountersInv'
  BY <1>1, <1>4, <1>6, <1>9, CountedOneLess DEF CountersInv
<1>11. StagesInv'
  BY <1>1, <1>2, <1>4 DEF StagesInv
<1>12. QED
  BY <1>7, <1>8, <1>10, <1>11

(* Every step of the process keeps the invariant. *)
LEMMA StopStepInv == StopInv /\ [Stopping!StopNext]_stopVars => StopInv'
<1> SUFFICES ASSUME StopInv, [Stopping!StopNext]_stopVars PROVE StopInv'
  OBVIOUS
<1>1. CASE UNCHANGED stopVars
  BY <1>1, CountedSame DEF stopVars, StopInv, StopTypeOK, CountersInv, AcceptInv, StagesInv
<1>2. CASE Stopping!StopNext
  <2>1. CASE Stopping!MessageThread \/ Stopping!HandleSIGTERM \/ Stopping!ShutdownThread
    BY <2>1, StopMessageInv
  <2>2. CASE Stopping!Forbidden \/ Stopping!ListenerStops
    BY <2>2, StopNoClient
  <2>3. ASSUME NEW c \in Clients,
               \/ Stopping!Accept(c) \/ Stopping!Forbid(c) \/ Stopping!CountHandler(c)
               \/ Stopping!Spawn(c)
        PROVE  StopInv'
    BY <2>3, StopListenerInv
  <2>4. ASSUME NEW c \in Clients,
               Stopping!HandlerTop(c) \/ Stopping!ReadRequest(c) \/ Stopping!Execute(c)
        PROVE  StopInv'
    BY <2>4, StopHandlerInv
  <2>5. QED
    BY <1>2, <2>1, <2>2, <2>3, <2>4, Zenon
       DEF Stopping!StopNext, Stopping!Thread, Stopping!Outside, Stopping!MessageThread,
           Stopping!ShutdownThread
<1>3. QED
  BY <1>1, <1>2

(* No thread is at work when the databases are closed. *)
LEMMA StopQuiet == StopInv => Stopping!QuietAfterStop
BY DEF StopInv, StagesInv, Counted, Stopping!QuietAfterStop

-----------------------------------------------------------------------------
(* The handles on the wallet database.                                     *)

(* How many handles a call has open before each of its operations, and at    *)
(* its end.                                                                  *)
HeldBefore ==
    [SetBestChain |-> <<0, 1, 0>>, KeepKey |-> <<0, 1, 0>>,
     GetAccountAddress |-> <<0, 0, 1, 2, 1, 0, 0>>,
     ReserveKeyFromKeyPool |-> <<0, 0, 1, 0, 0>>, GetAllReserveKeys |-> <<0, 1, 1, 1, 0>>,
     CloneWallet |-> <<0, 0, 0, 0>>, BackupWallet |-> <<0, 0, 0, 0, 0, 0>>,
     EncryptWallet |-> <<0, 0, 1, 0, 1, 0, 0, 0, 0, 0, 0, 0>>]

Commands == {"SetBestChain", "KeepKey", "GetAccountAddress", "ReserveKeyFromKeyPool",
             "GetAllReserveKeys", "CloneWallet", "BackupWallet", "EncryptWallet"}
Operations == {"lock", "unlock", "open", "close", "drain", "copy", "shut", "reopen", "release"}

(* The operations that need the wallet for oneself. *)
Alone == {"copy", "shut", "reopen", "release"}

(* t has done k operations of the call c. *)
Within(t, c, k) ==
    /\ todo[t] = SubSeq(Handles!Script[c], k + 1, Len(Handles!Script[c]))
    /\ nHandles[t] = HeldBefore[c][k + 1]

(* The threads are somewhere in their calls, and one that has the wallet for  *)
(* itself holds the lock, with no handle open.                                *)
HandlesInv ==
    /\ todo \in [WalletThreads -> Seq(Operations)]
    /\ nHandles \in [WalletThreads -> Int]
    /\ \A t \in WalletThreads :
         \E c \in Commands, k \in Nat : k <= Len(Handles!Script[c]) /\ Within(t, c, k)
    /\ \A t \in WalletThreads :
         todo[t] # <<>> /\ Head(todo[t]) \in Alone => mutexKV = {t} /\ Handles!NoHandle

(* The scripts are sequences of operations. *)
LEMMA ScriptType ==
    /\ DOMAIN Handles!Script = Commands
    /\ \A c \in Commands : Handles!Script[c] \in Seq(Operations)
BY DEF Handles!Script, Commands, Operations, Handles!SetBestChain, Handles!KeepKey,
   Handles!GetAccountAddress, Handles!ReserveKeyFromKeyPool, Handles!GetAllReserveKeys,
   Handles!CloneWallet, Handles!BackupWallet, Handles!EncryptWallet

(* What the operations of a script, with the handles it has open, must be     *)
(* like: nothing is open at the ends and where the script waits for the        *)
(* handles, and the wallet is had for oneself only after such a wait.          *)
Balanced(s, h) ==
    /\ h[1] = 0 /\ h[Len(s) + 1] = 0 /\ s[1] \notin Alone
    /\ \A k \in 1 .. Len(s) :
         /\ h[k] \in Int
         /\ h[k + 1] = IF s[k] = "open" THEN h[k] + 1
                       ELSE IF s[k] = "close" THEN h[k] - 1 ELSE h[k]
         /\ s[k] = "close" => h[k] > 0
         /\ s[k] = "drain" => h[k] = 0
         /\ k < Len(s) /\ s[k] \notin {"drain", "copy", "shut", "reopen"} => s[k + 1] \notin Alone

(* All the scripts are. *)
LEMMA ScriptsBalanced == \A c \in Commands : Balanced(Handles!Script[c], HeldBefore[c])
<1>1. Balanced(Handles!Script["SetBestChain"], HeldBefore["SetBestChain"])
  <2>1. Handles!Script["SetBestChain"] =
          <<"open", "close">>
    BY DEF Handles!Script, Handles!SetBestChain
  <2>2. HeldBefore["SetBestChain"] = <<0, 1, 0>>
    BY DEF HeldBefore
  <2>3. QED
    BY <2>1, <2>2 DEF Balanced, Alone
<1>2. Balanced(Handles!Script["KeepKey"], HeldBefore["KeepKey"])
  <2>1. Handles!Script["KeepKey"] =
          <<"open", "close">>
    BY DEF Handles!Script, Handles!KeepKey
  <2>2. HeldBefore["KeepKey"] = <<0, 1, 0>>
    BY DEF HeldBefore
  <2>3. QED
    BY <2>1, <2>2 DEF Balanced, Alone
<1>3. Balanced(Handles!Script["GetAccountAddress"], HeldBefore["GetAccountAddress"])
  <2>1. Handles!Script["GetAccountAddress"] =
          <<"lock", "open", "open", "close", "close", "unlock">>
    BY DEF Handles!Script, Handles!GetAccountAddress
  <2>2. HeldBefore["GetAccountAddress"] = <<0, 0, 1, 2, 1, 0, 0>>
    BY DEF HeldBefore
  <2>3. QED
    BY <2>1, <2>2 DEF Balanced, Alone
<1>4. Balanced(Handles!Script["ReserveKeyFromKeyPool"], HeldBefore["ReserveKeyFromKeyPool"])
  <2>1. Handles!Script["ReserveKeyFromKeyPool"] =
          <<"lock", "open", "close", "unlock">>
    BY DEF Handles!Script, Handles!ReserveKeyFromKeyPool
  <2>2. HeldBefore["ReserveKeyFromKeyPool"] = <<0, 0, 1, 0, 0>>
    BY DEF HeldBefore
  <2>3. QED
    BY <2>1, <2>2 DEF Balanced, Alone
<1>5. Balanced(Handles!Script["GetAllReserveKeys"], HeldBefore["GetAllReserveKeys"])
  <2>1. Handles!Script["GetAllReserveKeys"] =
          <<"open", "lock", "unlock", "close">>
    BY DEF Handles!Script, Handles!GetAllReserveKeys
  <2>2. HeldBefore["GetAllReserveKeys"] = <<0, 1, 1, 1, 0>>
    BY DEF HeldBefore
  <2>3. QED
    BY <2>1, <2>2 DEF Balanced, Alone
<1>6. Balanced(Handles!Script["CloneWallet"], HeldBefore["CloneWallet"])
  <2>1. Handles!Script["CloneWallet"] =
          <<"drain", "copy", "release">>
    BY DEF Handles!Script, Handles!CloneWallet
  <2>2. HeldBefore["CloneWallet"] = <<0, 0, 0, 0>>
    BY DEF HeldBefore
  <2>3. QED
    BY <2>1, <2>2 DEF Balanced, Alone
<1>7. Balanced(Handles!Script["BackupWallet"], HeldBefore["BackupWallet"])
  <2>1. Handles!Script["BackupWallet"] =
          <<"lock", "drain", "copy", "release", "unlock">>
    <3> DEFINE lock == <<"lock">>
               copy == <<"drain", "copy", "release">>
               unlock == <<"unlock">>
               whole == <<"lock", "drain", "copy", "release", "unlock">>
    <3>1. lock \in Seq(Operations) /\ copy \in Seq(Operations) /\ unlock \in Seq(Operations)
      BY DEF Operations
    <3>2. /\ Len(lock \o copy) = 4 /\ lock \o copy \in Seq(Operations)
          /\ \A i \in 1 .. 4 : (lock \o copy)[i] = IF i <= 1 THEN lock[i] ELSE copy[i - 1]
      BY <3>1, ConcatProperties
    <3>3. /\ Len((lock \o copy) \o unlock) = 5
          /\ (lock \o copy) \o unlock \in Seq(Operations)
          /\ \A i \in 1 .. 5 : ((lock \o copy) \o unlock)[i] =
                 IF i <= 4 THEN (lock \o copy)[i] ELSE unlock[i - 4]
      BY <3>1, <3>2, ConcatProperties
    <3>4. whole \in Seq(Operations) /\ Len(whole) = 5
      BY DEF Operations
    <3>5. (lock \o copy) \o unlock = whole
      <4>1. \A i \in 1 .. 5 : ((lock \o copy) \o unlock)[i] = whole[i]
        BY <3>2, <3>3
      <4>2. QED
        BY <3>3, <3>4, <4>1, SeqEqual
    <3>6. QED
      BY <3>5 DEF Handles!Script, Handles!BackupWallet, Handles!CloneWallet
  <2>2. HeldBefore["BackupWallet"] = <<0, 0, 0, 0, 0, 0>>
    BY DEF HeldBefore
  <2>3. QED
    BY <2>1, <2>2 DEF Balanced, Alone
<1>8. Balanced(Handles!Script["EncryptWallet"], HeldBefore["EncryptWallet"])
  <2>1. Handles!Script["EncryptWallet"] =
          <<"lock", "open", "close", "open", "close", 
              "drain", "copy", "shut", "reopen", "release", "unlock">>
    BY DEF Handles!Script, Handles!EncryptWallet
  <2>2. HeldBefore["EncryptWallet"] = <<0, 0, 1, 0, 1, 0, 0, 0, 0, 0, 0, 0>>
    BY DEF HeldBefore
  <2>3. QED
    BY <2>1, <2>2 DEF Balanced, Alone
<1>9. QED
  BY <1>1, <1>2, <1>3, <1>4, <1>5, <1>6, <1>7, <1>8 DEF Commands

(* What is left of a sequence after its first k elements. *)
LEMMA RestOf ==
    ASSUME NEW S, NEW s \in Seq(S), NEW k \in Nat, k < Len(s)
    PROVE  /\ SubSeq(s, k + 1, Len(s)) # <<>>
           /\ Head(SubSeq(s, k + 1, Len(s))) = s[k + 1]
           /\ Tail(SubSeq(s, k + 1, Len(s))) = SubSeq(s, k + 2, Len(s))
<1>1. Len(s) \in Nat /\ k + 1 \in 1 .. Len(s) /\ Len(s) \in k + 1 .. Len(s)
  BY LenProperties
<1>2. /\ Head(SubSeq(s, k + 1, Len(s))) = s[k + 1]
      /\ Tail(SubSeq(s, k + 1, Len(s))) = SubSeq(s, (k + 1) + 1, Len(s))
  BY <1>1, HeadTailOfSubSeq
<1>3. Len(SubSeq(s, k + 1, Len(s))) = Len(s) - k
  BY <1>1
<1>4. SubSeq(s, k + 1, Len(s)) # <<>>
  <2>1. Len(<<>>) = 0
    BY EmptySeq
  <2>2. Len(s) - k # 0
    BY <1>1
  <2>3. QED
    BY <1>3, <2>1, <2>2
<1>5. (k + 1) + 1 = k + 2
  OBVIOUS
<1>6. QED
  BY <1>2, <1>4, <1>5

(* A thread's next operation, and what is left after it. *)
LEMMA ScriptStep ==
    ASSUME NEW t \in WalletThreads, NEW c \in Commands, NEW k \in Nat,
           k <= Len(Handles!Script[c]), Within(t, c, k), todo[t] # <<>>
    PROVE  /\ k + 1 \in 1 .. Len(Handles!Script[c])
           /\ Head(todo[t]) = Handles!Script[c][k + 1]
           /\ Tail(todo[t]) = SubSeq(Handles!Script[c], k + 2, Len(Handles!Script[c]))
           /\ Tail(todo[t]) # <<>> =>
                /\ k + 1 < Len(Handles!Script[c])
                /\ Head(Tail(todo[t])) = Handles!Script[c][k + 2]
<1> DEFINE s == Handles!Script[c]
<1>1. s \in Seq(Operations)
  BY ScriptType
<1>2. todo[t] = SubSeq(s, k + 1, Len(s))
  BY DEF Within
<1> HIDE DEF s
<1>3. k < Len(s)
  BY <1>1, <1>2
<1>4. Len(s) \in Nat /\ k + 1 \in 1 .. Len(s)
  BY <1>1, <1>3
<1>5. Head(todo[t]) = s[k + 1] /\ Tail(todo[t]) = SubSeq(s, k + 2, Len(s))
  BY <1>1, <1>2, <1>3, RestOf
<1>6. ASSUME Tail(todo[t]) # <<>>
      PROVE  k + 1 < Len(s) /\ Head(Tail(todo[t])) = s[k + 2]
  <2>1. k + 1 < Len(s)
    BY <1>4, <1>5, <1>6, SubSeqEmpty
  <2>2. /\ Head(SubSeq(s, (k + 1) + 1, Len(s))) = s[(k + 1) + 1]
    BY <1>1, <2>1, RestOf
  <2>3. (k + 1) + 1 = k + 2
    OBVIOUS
  <2>4. QED
    BY <1>5, <2>1, <2>2, <2>3
<1>7. QED
  BY <1>4, <1>5, <1>6 DEF s

(* A thread that does its next operation goes on in its call.  It has a      *)
(* handle when it closes one and none when it waits for the others', and it  *)
(* gets to where it needs the wallet for itself from a wait or from there.   *)
LEMMA Advance ==
    ASSUME HandlesInv, NEW t \in WalletThreads, NEW o, todo[t] # <<>>, Head(todo[t]) = o,
           todo' = [todo EXCEPT ![t] = Tail(@)],
           nHandles' = [nHandles EXCEPT ![t] =
               IF o = "open" THEN nHandles[t] + 1
               ELSE IF o = "close" THEN nHandles[t] - 1 ELSE nHandles[t]]
    PROVE  /\ todo' \in [WalletThreads -> Seq(Operations)]
           /\ nHandles' \in [WalletThreads -> Int]
           /\ \A u \in WalletThreads : \E c \in Commands, k \in Nat :
                 k <= Len(Handles!Script[c]) /\ Within(u, c, k)'
           /\ o = "close" => nHandles[t] > 0
           /\ o = "drain" => nHandles[t] = 0
           /\ todo'[t] = Tail(todo[t])
           /\ todo'[t] # <<>> /\ Head(todo'[t]) \in Alone => o \in {"drain", "copy", "shut", "reopen"}
<1>1. PICK c \in Commands, k \in Nat : k <= Len(Handles!Script[c]) /\ Within(t, c, k)
  BY DEF HandlesInv
<1> DEFINE s == Handles!Script[c]
           h == HeldBefore[c]
<1>2. s \in Seq(Operations) /\ Balanced(s, h)
  BY ScriptType, ScriptsBalanced
<1>3. /\ k + 1 \in 1 .. Len(s) /\ o = s[k + 1]
      /\ Tail(todo[t]) = SubSeq(s, k + 2, Len(s))
      /\ Tail(todo[t]) # <<>> => k + 1 < Len(s) /\ Head(Tail(todo[t])) = s[k + 2]
  BY <1>1, ScriptStep
<1>4. nHandles[t] = h[k + 1]
  BY <1>1 DEF Within
<1> HIDE DEF s, h
<1>5. /\ h[k + 1] \in Int
      /\ h[(k + 1) + 1] = IF s[k + 1] = "open" THEN h[k + 1] + 1
                        ELSE IF s[k + 1] = "close" THEN h[k + 1] - 1 ELSE h[k + 1]
      /\ s[k + 1] = "close" => h[k + 1] > 0
      /\ s[k + 1] = "drain" => h[k + 1] = 0
      /\ k + 1 < Len(s) /\ s[k + 1] \notin {"drain", "copy", "shut", "reopen"} => s[(k + 1) + 1] \notin Alone
  BY <1>2, <1>3 DEF Balanced
<1>6. (k + 1) + 1 = k + 2 /\ k + 1 \in Nat
  OBVIOUS
<1>7. todo \in [WalletThreads -> Seq(Operations)] /\ nHandles \in [WalletThreads -> Int]
  BY DEF HandlesInv
<1>8. Tail(todo[t]) \in Seq(Operations)
  BY <1>7, HeadTailProperties
<1>9. /\ todo' \in [WalletThreads -> Seq(Operations)] /\ todo'[t] = Tail(todo[t])
      /\ \A u \in WalletThreads : u # t => todo'[u] = todo[u]
  BY <1>7, <1>8
<1>10. /\ nHandles' \in [WalletThreads -> Int]
       /\ nHandles'[t] = h[k + 2]
       /\ \A u \in WalletThreads : u # t => nHandles'[u] = nHandles[u]
  BY <1>3, <1>4, <1>5, <1>6, <1>7
<1>11. k + 1 <= Len(s) /\ Within(t, c, k + 1)'
  BY <1>2, <1>3, <1>6, <1>9, <1>10 DEF Within, s, h
<1>12. ASSUME NEW u \in WalletThreads
       PROVE  \E d \in Commands, j \in Nat : j <= Len(Handles!Script[d]) /\ Within(u, d, j)'
  <2>1. CASE u = t
    BY <1>6, <1>11, <2>1 DEF s
  <2>2. CASE u # t
    <3>1. PICK d \in Commands, j \in Nat : j <= Len(Handles!Script[d]) /\ Within(u, d, j)
      BY DEF HandlesInv
    <3>2. Within(u, d, j)'
      BY <1>9, <1>10, <2>2, <3>1 DEF Within
    <3>3. QED
      BY <3>1, <3>2
  <2>3. QED
    BY <2>1, <2>2
<1>13. todo'[t] # <<>> /\ Head(todo'[t]) \in Alone => o \in {"drain", "copy", "shut", "reopen"}
  BY <1>3, <1>5, <1>6, <1>9
<1>14. (o = "close" => nHandles[t] > 0) /\ (o = "drain" => nHandles[t] = 0)
  BY <1>3, <1>4, <1>5
<1>15. QED
  BY <1>9, <1>10, <1>12, <1>13, <1>14

(* A thread that is through its call has no handle; one at its wait has none. *)
LEMMA AtRest ==
    ASSUME HandlesInv, NEW t \in WalletThreads,
           todo[t] = <<>> \/ Head(todo[t]) = "drain"
    PROVE  nHandles[t] = 0
<1>1. PICK c \in Commands, k \in Nat : k <= Len(Handles!Script[c]) /\ Within(t, c, k)
  BY DEF HandlesInv
<1> DEFINE s == Handles!Script[c]
           h == HeldBefore[c]
<1>2. s \in Seq(Operations) /\ Balanced(s, h)
  BY ScriptType, ScriptsBalanced
<1>3. nHandles[t] = h[k + 1] /\ todo[t] = SubSeq(s, k + 1, Len(s))
  BY <1>1 DEF Within
<1>4. CASE todo[t] = <<>>
  <2>1. ~(k < Len(s))
    BY <1>2, <1>3, <1>4, RestOf
  <2>2. k = Len(s)
    BY <1>1, <1>2, <2>1, LenProperties
  <2>3. QED
    BY <1>2, <1>3, <2>2 DEF Balanced
<1>5. CASE todo[t] # <<>> /\ Head(todo[t]) = "drain"
  <2>1. k + 1 \in 1 .. Len(s) /\ s[k + 1] = "drain"
    BY <1>1, <1>5, ScriptStep
  <2> HIDE DEF s, h
  <2>2. QED
    BY <1>2, <1>3, <2>1 DEF Balanced
<1>6. QED
  BY <1>4, <1>5

(* A thread that begins or ends a call: its operations are those of a script, *)
(* or none, and nothing is open.                                              *)
LEMMA StartOrEnd ==
    ASSUME HandlesInv, NEW t \in WalletThreads, NEW c \in Commands, NEW e \in {TRUE, FALSE},
           todo[t] = <<>> \/ Head(todo[t]) = "drain",
           todo' = [todo EXCEPT ![t] = IF e THEN <<>> ELSE Handles!Script[c]],
           nHandles' = nHandles
    PROVE  /\ todo' \in [WalletThreads -> Seq(Operations)]
           /\ nHandles' \in [WalletThreads -> Int]
           /\ \A u \in WalletThreads : \E d \in Commands, k \in Nat :
                 k <= Len(Handles!Script[d]) /\ Within(u, d, k)'
           /\ todo'[t] # <<>> => Head(todo'[t]) \notin Alone
           /\ \A u \in WalletThreads : u # t => todo'[u] = todo[u]
<1> DEFINE s == Handles!Script[c]
           h == HeldBefore[c]
<1>1. s \in Seq(Operations) /\ Balanced(s, h)
  BY ScriptType, ScriptsBalanced
<1>2. nHandles[t] = 0
  BY AtRest
<1>3. todo \in [WalletThreads -> Seq(Operations)] /\ nHandles \in [WalletThreads -> Int]
  BY DEF HandlesInv
<1> HIDE DEF h
<1>4. /\ todo' \in [WalletThreads -> Seq(Operations)]
      /\ todo'[t] = IF e THEN <<>> ELSE s
      /\ \A u \in WalletThreads : u # t => todo'[u] = todo[u]
  BY <1>1, <1>3, EmptySeq
<1> HIDE DEF s
<1>5. Len(s) \in Nat
  BY <1>1, LenProperties
<1>6. h[0 + 1] = 0 /\ h[Len(s) + 1] = 0
  BY <1>1 DEF Balanced
<1>7. Within(t, c, IF e THEN Len(s) ELSE 0)'
  <2>1. CASE e
    <3>1. SubSeq(s, Len(s) + 1, Len(s)) = <<>>
      BY <1>5, SubSeqEmpty
    <3>2. QED
      BY <1>2, <1>4, <1>6, <2>1, <3>1 DEF Within, s, h
  <2>2. CASE ~e
    <3>1. SubSeq(s, 0 + 1, Len(s)) = s
      BY <1>1
    <3>2. QED
      BY <1>2, <1>4, <1>6, <2>2, <3>1 DEF Within, s, h
  <2>3. QED
    BY <2>1, <2>2
<1>8. ASSUME NEW u \in WalletThreads
      PROVE  \E d \in Commands, j \in Nat : j <= Len(Handles!Script[d]) /\ Within(u, d, j)'
  <2>1. CASE u = t
    <3>1. (IF e THEN Len(s) ELSE 0) \in Nat /\ (IF e THEN Len(s) ELSE 0) <= Len(s)
      BY <1>5
    <3>2. QED
      BY <1>7, <2>1, <3>1 DEF s
  <2>2. CASE u # t
    <3>1. PICK d \in Commands, j \in Nat : j <= Len(Handles!Script[d]) /\ Within(u, d, j)
      BY DEF HandlesInv
    <3>2. Within(u, d, j)'
      BY <1>4, <2>2, <3>1 DEF Within
    <3>3. QED
      BY <3>1, <3>2
  <2>3. QED
    BY <2>1, <2>2
<1>9. todo'[t] # <<>> => Head(todo'[t]) \notin Alone
  BY <1>1, <1>4 DEF Balanced
<1>10. QED
  BY <1>3, <1>4, <1>8, <1>9

(* The handles start with no call made. *)
LEMMA HandlesInitInv == Handles!Init => HandlesInv
<1> SUFFICES ASSUME Handles!Init PROVE HandlesInv
  OBVIOUS
<1>1. todo = [t \in WalletThreads |-> <<>>] /\ nHandles = [t \in WalletThreads |-> 0]
  BY DEF Handles!Init
<1>2. todo \in [WalletThreads -> Seq(Operations)] /\ nHandles \in [WalletThreads -> Int]
  BY <1>1, EmptySeq
<1> DEFINE s == Handles!Script["KeepKey"]
<1>3. "KeepKey" \in Commands
  BY DEF Commands
<1>4. s \in Seq(Operations) /\ Balanced(s, HeldBefore["KeepKey"])
  BY <1>3, ScriptType, ScriptsBalanced
<1> HIDE DEF s
<1>5. Len(s) \in Nat /\ SubSeq(s, Len(s) + 1, Len(s)) = <<>>
  BY <1>4, LenProperties, SubSeqEmpty
<1>6. \A t \in WalletThreads : Within(t, "KeepKey", Len(s))
  BY <1>1, <1>4, <1>5 DEF Within, Balanced, s
<1>7. QED
  BY <1>1, <1>2, <1>3, <1>5, <1>6 DEF HandlesInv, s

(* The steps of a thread that has the wallet for itself, or begins to. *)
LEMMA AloneSteps ==
    ASSUME HandlesInv, NEW t \in WalletThreads,
           \/ Handles!Drained(t) \/ Handles!Copy(t) \/ Handles!Shut(t) \/ Handles!Reopen(t)
           \/ Handles!Release(t)
    PROVE  HandlesInv'
<1> DEFINE o == Head(todo[t])
<1>1. /\ todo[t] # <<>> /\ o \in {"drain", "copy", "shut", "reopen", "release"}
      /\ todo' = [todo EXCEPT ![t] = Tail(@)] /\ nHandles' = nHandles
      /\ mutexKV' = IF o = "release" THEN mutexKV \ {t} ELSE mutexKV
      /\ o = "drain" => mutexKV = {t} /\ Handles!NoHandle
  BY DEF Handles!Drained, Handles!Copy, Handles!Shut, Handles!Reopen, Handles!Release, Handles!Does
<1>2. mutexKV = {t} /\ Handles!NoHandle
  BY <1>1 DEF HandlesInv, Alone
<1>3. nHandles' = [nHandles EXCEPT ![t] =
               IF o = "open" THEN nHandles[t] + 1
               ELSE IF o = "close" THEN nHandles[t] - 1 ELSE nHandles[t]]
  BY <1>1 DEF HandlesInv
<1> HIDE DEF o
<1>4. /\ todo' \in [WalletThreads -> Seq(Operations)]
      /\ nHandles' \in [WalletThreads -> Int]
      /\ \A u \in WalletThreads : \E c \in Commands, k \in Nat :
            k <= Len(Handles!Script[c]) /\ Within(u, c, k)'
      /\ todo'[t] # <<>> /\ Head(todo'[t]) \in Alone => o \in {"drain", "copy", "shut", "reopen"}
  BY <1>1, <1>3, Advance DEF o
<1>5. ASSUME NEW u \in WalletThreads, todo'[u] # <<>>, Head(todo'[u]) \in Alone
      PROVE  mutexKV' = {u} /\ Handles!NoHandle'
  <2>1. CASE u = t
    BY <1>1, <1>2, <1>4, <1>5, <2>1 DEF Handles!NoHandle
  <2>2. CASE u # t
    <3>1. todo'[u] = todo[u]
      BY <1>1, <2>2 DEF HandlesInv
    <3>2. mutexKV = {u}
      BY <1>5, <3>1 DEF HandlesInv
    <3>3. QED
      BY <1>2, <2>2, <3>2
  <2>3. QED
    BY <2>1, <2>2
<1>6. QED
  BY <1>4, <1>5 DEF HandlesInv

(* A thread takes or gives back cs_wallet, opens or closes a handle. *)
LEMMA SharedSteps ==
    ASSUME HandlesInv, NEW t \in WalletThreads,
           \/ Handles!Lock(t) \/ Handles!Unlock(t) \/ Handles!OpenHandle(t)
           \/ Handles!CloseHandle(t)
    PROVE  HandlesInv'
<1> DEFINE o == Head(todo[t])
<1>1. /\ todo[t] # <<>> /\ o \in {"lock", "unlock", "open", "close"}
      /\ todo' = [todo EXCEPT ![t] = Tail(@)] /\ mutexKV' = mutexKV
      /\ o \in {"lock", "unlock"} => nHandles' = nHandles
      /\ o = "open" => mutexKV = {}
  BY DEF Handles!Lock, Handles!Unlock, Handles!OpenHandle, Handles!CloseHandle, Handles!Does
<1>2. nHandles' = [nHandles EXCEPT ![t] =
               IF o = "open" THEN nHandles[t] + 1
               ELSE IF o = "close" THEN nHandles[t] - 1 ELSE nHandles[t]]
  <2>1. nHandles \in [WalletThreads -> Int]
    BY DEF HandlesInv
  <2>2. CASE Handles!OpenHandle(t)
    BY <2>1, <2>2 DEF Handles!OpenHandle, Handles!Does
  <2>3. CASE Handles!CloseHandle(t)
    BY <2>1, <2>3 DEF Handles!CloseHandle, Handles!Does
  <2>4. CASE Handles!Lock(t) \/ Handles!Unlock(t)
    BY <2>1, <2>4 DEF Handles!Lock, Handles!Unlock, Handles!Does
  <2>5. QED
    BY <2>2, <2>3, <2>4
<1> HIDE DEF o
<1>3. /\ todo' \in [WalletThreads -> Seq(Operations)]
      /\ nHandles' \in [WalletThreads -> Int]
      /\ \A u \in WalletThreads : \E c \in Commands, k \in Nat :
            k <= Len(Handles!Script[c]) /\ Within(u, c, k)'
      /\ o = "close" => nHandles[t] > 0
      /\ todo'[t] # <<>> /\ Head(todo'[t]) \in Alone => o \in {"drain", "copy", "shut", "reopen"}
  BY <1>1, <1>2, Advance DEF o
<1>4. ASSUME NEW u \in WalletThreads, todo'[u] # <<>>, Head(todo'[u]) \in Alone
      PROVE  mutexKV' = {u} /\ Handles!NoHandle'
  <2>1. u # t
    BY <1>1, <1>3, <1>4
  <2>2. todo'[u] = todo[u]
    BY <1>1, <2>1 DEF HandlesInv
  <2>3. mutexKV = {u} /\ Handles!NoHandle
    BY <1>4, <2>2 DEF HandlesInv
  <2>4. o \notin {"open", "close"}
    BY <1>1, <1>3, <2>3 DEF Handles!NoHandle
  <2>5. QED
    BY <1>1, <2>3, <2>4 DEF Handles!NoHandle
<1>5. QED
  BY <1>3, <1>4 DEF HandlesInv

(* A thread begins a call, or gives up its wait because the user quits. *)
LEMMA CallSteps ==
    ASSUME HandlesInv, NEW t \in WalletThreads, NEW c \in Commands,
           Handles!Call(t, c) \/ Handles!GiveUp(t)
    PROVE  HandlesInv'
<1> DEFINE e == IF Handles!GiveUp(t) THEN TRUE ELSE FALSE
<1>1. /\ e \in {TRUE, FALSE}
      /\ todo[t] = <<>> \/ Head(todo[t]) = "drain"
      /\ todo' = [todo EXCEPT ![t] = IF e THEN <<>> ELSE Handles!Script[c]]
      /\ nHandles' = nHandles
      /\ mutexKV' = mutexKV \/ mutexKV' = mutexKV \ {t}
  BY DEF Handles!Call, Handles!GiveUp
<1> HIDE DEF e
<1>2. /\ todo' \in [WalletThreads -> Seq(Operations)]
      /\ nHandles' \in [WalletThreads -> Int]
      /\ \A u \in WalletThreads : \E d \in Commands, k \in Nat :
            k <= Len(Handles!Script[d]) /\ Within(u, d, k)'
      /\ todo'[t] # <<>> => Head(todo'[t]) \notin Alone
      /\ \A u \in WalletThreads : u # t => todo'[u] = todo[u]
  BY <1>1, StartOrEnd
<1>3. ASSUME NEW u \in WalletThreads, todo'[u] # <<>>, Head(todo'[u]) \in Alone
      PROVE  mutexKV' = {u} /\ Handles!NoHandle'
  <2>1. u # t /\ todo'[u] = todo[u]
    BY <1>2, <1>3
  <2>2. mutexKV = {u} /\ Handles!NoHandle
    BY <1>3, <2>1 DEF HandlesInv
  <2>3. QED
    BY <1>1, <2>1, <2>2 DEF Handles!NoHandle
<1>4. QED
  BY <1>2, <1>3 DEF HandlesInv

(* Every step of the threads keeps the invariant. *)
LEMMA HandlesStepInv == HandlesInv /\ [Handles!Next]_handlesVars => HandlesInv'
<1> SUFFICES ASSUME HandlesInv, [Handles!Next]_handlesVars PROVE HandlesInv'
  OBVIOUS
<1>1. ASSUME todo' = todo, nHandles' = nHandles,
             mutexKV' = mutexKV \/ mutexKV = {}
      PROVE  HandlesInv'
  <2>1. \A t \in WalletThreads : todo[t] # <<>> /\ Head(todo[t]) \in Alone => mutexKV # {}
    BY DEF HandlesInv
  <2>2. QED
    BY <1>1, <2>1 DEF HandlesInv, Within, Handles!NoHandle
<1>2. CASE UNCHANGED handlesVars
  BY <1>1, <1>2 DEF handlesVars
<1>3. CASE Handles!StartShutdown
  BY <1>1, <1>3 DEF Handles!StartShutdown
<1>4. ASSUME NEW t \in WalletThreads, Handles!TakeLifecycleLock(t)
      PROVE  HandlesInv'
  BY <1>1, <1>4 DEF Handles!TakeLifecycleLock
<1>5. ASSUME NEW t \in WalletThreads, NEW c \in Callers, Handles!Call(t, c)
      PROVE  HandlesInv'
  <2>1. c \in Commands
    BY ScriptType, StorageAssumption DEF StorageAssumption, Handles!HandlesAssumption
  <2>2. QED
    BY <1>5, <2>1, CallSteps
<1>6. ASSUME NEW t \in WalletThreads, Handles!GiveUp(t)
      PROVE  HandlesInv'
  <2>1. "KeepKey" \in Commands
    BY DEF Commands
  <2>2. QED
    BY <1>6, <2>1, CallSteps
<1>7. QED
  BY <1>2, <1>3, <1>4, <1>5, <1>6, AloneSteps, SharedSteps DEF Handles!Next, Handles!Step

(* Whoever copies, closes or replaces the environment is alone. *)
LEMMA HandlesAlone == HandlesInv => Handles!CopiedAlone
BY DEF HandlesInv, Handles!CopiedAlone, Alone

-----------------------------------------------------------------------------
(* The files of a database.                                                *)

Has(d) == Files!IsEnv(dir[d]) /\ dir[d].n = committed

(* Steps of the start, in the order of db.cpp, and those of the rewrite. *)
StartPcs == {"off", "recover", "clean", "inspect", "open", "choose", "mark", "rename", "load",
             "running"}
RewritePcs == {"stage", "copy", "aside", "install", "reopen", "restore", "discard", "dispose"}

FilesTypeOK ==
    /\ dir \in [Files!Names -> Files!Dir]
    /\ bdb \in 0 .. MaxCommits /\ committed \in 0 .. MaxCommits
    /\ marker \in {"none", "lmdb"}
    /\ stage \in StartPcs \union RewritePcs
    /\ backend \in {"lmdb", "bdb"}
    /\ encrypted \in BOOLEAN /\ compacted \in BOOLEAN
    /\ \A d \in Files!Names : Files!IsEnv(dir[d]) => dir[d].ok

(* Before the encryption there is the main directory alone, which has the     *)
(* records or none, and then they are in the Berkeley DB file; once the       *)
(* marker is written, or the database chosen, it has them.                    *)
PlainInv ==
    ~encrypted =>
        /\ dir["rewrite"] = Files!Absent /\ dir["old"] = Files!Absent
        /\ bdb <= committed /\ (Has("main") \/ bdb = committed)
        /\ Files!IsEnv(dir["main"]) /\ dir["main"].n > 0 => Has("main")
        /\ marker = "lmdb" => Has("main")
        /\ stage \in {"mark", "rename"} => Has("main")
        /\ stage \in {"load", "running"} /\ backend = "lmdb" => Has("main")

(* After it the records are in the main directory or, before recovery and     *)
(* between the renames, in the one it puts back; then the marker is there.    *)
EncryptedInv ==
    encrypted =>
        /\ store = "wallet" /\ committed > 0
        /\ \/ Has("main")
           \/ /\ dir["main"] = Files!Absent /\ marker = "lmdb"
              /\ stage \in {"off", "recover", "clean", "inspect", "install", "restore"}
              /\ \/ Has("rewrite")
                 \/ dir["rewrite"] = Files!Absent /\ Has("old")
        /\ compacted => /\ Has("main") /\ ~dir["main"].plain
                        /\ dir["rewrite"] = Files!Absent /\ dir["old"] = Files!Absent

(* Where the rewrite is: the copy is whole before anything is renamed, and    *)
(* the old environment is there until the copy has been opened.               *)
RewriteInv ==
    /\ stage \in RewritePcs => encrypted /\ ~compacted /\ marker = "lmdb"
    /\ compacted => encrypted
    /\ stage = "aside" => Has("rewrite") /\ ~dir["rewrite"].plain
    /\ stage = "install" => Has("rewrite") /\ ~dir["rewrite"].plain /\ Has("old")
    /\ stage = "restore" => Has("old")
    /\ stage = "reopen" => Has("old")
    /\ stage \in {"reopen", "dispose"} => ~dir["main"].plain /\ dir["rewrite"] = Files!Absent

(* The Berkeley DB backend runs only where there is no environment, and a     *)
(* refusal is that of a process that is not running.                          *)
BackendInv ==
    /\ backend = "bdb" /\ stage # "off" =>
          stage \in {"load", "running"} /\ marker = "none" /\ dir["main"] = Files!Absent
    /\ stage \in {"open", "choose"} => dir["main"] # Files!Absent
    /\ stage \in {"choose", "mark", "rename"} => Files!IsEnv(dir["main"])
    /\ backend = "lmdb" /\ stage \in {"load", "running"} => marker = "lmdb"
    /\ stage # "off" => refusal # "missing"
    /\ Files!NeverDeclaredMissing

FilesInv == FilesTypeOK /\ PlainInv /\ EncryptedInv /\ RewriteInv /\ BackendInv

(* The directories there can be. *)
LEMMA DirValues ==
    /\ \A d \in Files!Dir : d.n \in 0 .. MaxCommits /\ d.plain \in BOOLEAN
    /\ Files!Absent \in Files!Dir /\ Files!Absent.kind = "absent"
    /\ Files!Partial \in Files!Dir /\ Files!Partial.kind = "partial"
<1>1. MaxCommits \in Nat \ {0}
  BY StorageAssumption DEF StorageAssumption, Files!BackendAssumption
<1>2. \A d \in Files!Dir : d.n \in 0 .. MaxCommits /\ d.plain \in BOOLEAN
  BY DEF Files!Dir
<1>3. Files!Absent \in Files!Dir /\ Files!Absent.kind = "absent"
  BY <1>1 DEF Files!Dir, Files!Absent
<1>4. Files!Partial \in Files!Dir /\ Files!Partial.kind = "partial"
  BY <1>1 DEF Files!Dir, Files!Partial
<1>5. QED
  BY <1>2, <1>3, <1>4

(* An environment that is filled. *)
LEMMA FilledValues ==
    ASSUME NEW n \in 0 .. MaxCommits, NEW plain \in BOOLEAN, NEW ok \in BOOLEAN
    PROVE  LET d == Files!Filled(n, plain, ok)
           IN  /\ d \in Files!Dir /\ Files!IsEnv(d) /\ d # Files!Absent
               /\ d.n = n /\ d.plain = plain /\ d.ok = ok
<1>1. Files!Filled(n, plain, ok) = [kind |-> "env", n |-> n, plain |-> plain, ok |-> ok]
  BY DEF Files!Filled
<1>2. QED
  BY <1>1 DEF Files!Dir, Files!IsEnv, Files!Absent

(* What a removal leaves: nothing, or what was there, in part or whole. *)
LEMMA RemoveAllValues ==
    ASSUME FilesTypeOK, NEW d \in Files!Names, NEW r \in Files!RemoveAll(d)
    PROVE  /\ r \in Files!Dir
           /\ r = Files!Absent \/ r = Files!Partial \/ r = dir[d]
           /\ dir[d] = Files!Absent => r = Files!Absent
           /\ Files!IsEnv(r) => r.ok
<1>1. dir[d] \in Files!Dir /\ (Files!IsEnv(dir[d]) => dir[d].ok)
  BY DEF FilesTypeOK
<1>2. r = Files!Absent \/ (dir[d] # Files!Absent /\ (r = dir[d] \/ r = Files!Partial))
  BY DEF Files!RemoveAll
<1>3. ~Files!IsEnv(Files!Absent) /\ ~Files!IsEnv(Files!Partial)
  BY DirValues DEF Files!IsEnv
<1>4. QED
  BY <1>1, <1>2, <1>3, DirValues

(* A change of the main directory and one of the others. *)
LEMMA TwoDirs ==
    ASSUME FilesTypeOK, NEW d \in Files!Names, NEW e \in Files!Names, d # e,
           NEW x \in Files!Dir, NEW y \in Files!Dir,
           Files!IsEnv(x) => x.ok, Files!IsEnv(y) => y.ok,
           dir' = [dir EXCEPT ![d] = x, ![e] = y]
    PROVE  /\ dir' \in [Files!Names -> Files!Dir] /\ dir'[d] = x /\ dir'[e] = y
           /\ \A f \in Files!Names : f # d /\ f # e => dir'[f] = dir[f]
           /\ \A f \in Files!Names : Files!IsEnv(dir'[f]) => dir'[f].ok
<1>1. /\ dir' \in [Files!Names -> Files!Dir] /\ dir'[d] = x /\ dir'[e] = y
      /\ \A f \in Files!Names : f # d /\ f # e => dir'[f] = dir[f]
  BY DEF FilesTypeOK
<1>2. QED
  BY <1>1 DEF FilesTypeOK

(* The renames that finish an interrupted rewrite. *)
LEMMA RecoverInv == FilesInv /\ Files!Recover => FilesInv'
<1> SUFFICES ASSUME FilesInv, Files!Recover PROVE FilesInv'
  OBVIOUS
<1>0. FilesTypeOK /\ PlainInv /\ EncryptedInv /\ RewriteInv /\ BackendInv
  BY DEF FilesInv
<1>1. /\ stage = "recover" /\ stage' = "clean"
      /\ UNCHANGED <<bdb, marker, backend, refusal, store, committed, encrypted, compacted>>
  BY DEF Files!Recover, Files!Goto, Files!truth
<1>2. \/ dir' = dir
      \/ /\ dir["main"] = Files!Absent
         /\ \E d \in {"rewrite", "old"} :
               /\ d = "rewrite" <=> dir["rewrite"] # Files!Absent
               /\ dir' = [dir EXCEPT !["main"] = dir[d], ![d] = Files!Absent]
  BY DEF Files!Recover, Files!Rename, Files!Staged
<1>3. BackendInv'
  <2>1. refusal' # "missing"
    BY <1>0, <1>1 DEF BackendInv
  <2>2. QED
    BY <1>0, <1>1, <2>1 DEF BackendInv, Files!NeverDeclaredMissing
<1>4. CASE dir' = dir
  BY <1>0, <1>1, <1>3, <1>4 DEF FilesInv, FilesTypeOK, PlainInv, EncryptedInv, RewriteInv, Has,
     StartPcs, RewritePcs
<1>5. ASSUME NEW d \in {"rewrite", "old"}, dir["main"] = Files!Absent,
             d = "rewrite" <=> dir["rewrite"] # Files!Absent,
             dir' = [dir EXCEPT !["main"] = dir[d], ![d] = Files!Absent]
      PROVE  FilesInv'
  <2>1. "main" \in Files!Names /\ d \in Files!Names /\ d # "main"
    BY DEF Files!Names
  <2>2. /\ dir[d] \in Files!Dir /\ Files!Absent \in Files!Dir /\ ~Files!IsEnv(Files!Absent)
        /\ Files!IsEnv(dir[d]) => dir[d].ok
    BY <1>0, <2>1, DirValues DEF FilesTypeOK, Files!IsEnv
  <2>3. /\ dir' \in [Files!Names -> Files!Dir] /\ dir'["main"] = dir[d] /\ dir'[d] = Files!Absent
        /\ \A f \in Files!Names : f # "main" /\ f # d => dir'[f] = dir[f]
        /\ \A f \in Files!Names : Files!IsEnv(dir'[f]) => dir'[f].ok
    BY <1>0, <1>5, <2>1, <2>2, TwoDirs
  <2>4. dir'["rewrite"] = Files!Absent
    BY <1>5, <2>3 DEF Files!Names
  <2>5. d = "rewrite" => dir'["old"] = dir["old"]
    BY <2>3 DEF Files!Names
  <2>6. FilesTypeOK'
    BY <1>0, <1>1, <2>3 DEF FilesTypeOK, StartPcs
  <2>7. ~Has("main")
    BY <1>5, <2>2 DEF Has
  <2>8. PlainInv'
    BY <1>0, <1>1, <1>5, <2>3, <2>4, <2>7 DEF PlainInv, Has
  <2>9. ~compacted
    BY <1>0, <2>7 DEF EncryptedInv, RewriteInv
  <2>10. RewriteInv'
    BY <1>0, <1>1, <2>9 DEF RewriteInv, RewritePcs
  <2>11. encrypted => Has(d)
    BY <1>0, <1>5, <2>7, <2>2 DEF EncryptedInv, Has
  <2>12. EncryptedInv'
    BY <1>0, <1>1, <2>3, <2>9, <2>11 DEF EncryptedInv, Has
  <2>13. QED
    BY <1>3, <2>6, <2>8, <2>10, <2>12 DEF FilesInv
<1>6. QED
  BY <1>2, <1>4, <1>5

(* The removal of what an interrupted rewrite left. *)
LEMMA RemoveStagingInv == FilesInv /\ Files!RemoveStaging => FilesInv'
<1> SUFFICES ASSUME FilesInv, Files!RemoveStaging PROVE FilesInv'
  OBVIOUS
<1>0. FilesTypeOK /\ PlainInv /\ EncryptedInv /\ RewriteInv /\ BackendInv
  BY DEF FilesInv
<1>1. /\ stage = "clean" /\ stage' = "inspect"
      /\ UNCHANGED <<bdb, marker, backend, refusal, store, committed, encrypted, compacted>>
  BY DEF Files!RemoveStaging, Files!Goto, Files!truth
<1>2. BackendInv'
  <2>1. refusal' # "missing"
    BY <1>0, <1>1 DEF BackendInv
  <2>2. QED
    BY <1>0, <1>1, <2>1 DEF BackendInv, Files!NeverDeclaredMissing
<1>3. CASE dir' = dir
  BY <1>0, <1>1, <1>2, <1>3 DEF FilesInv, FilesTypeOK, PlainInv, EncryptedInv, RewriteInv, Has,
     StartPcs, RewritePcs
<1>4. ASSUME dir["main"] # Files!Absent,
             NEW r \in Files!RemoveAll("rewrite"), NEW o \in Files!RemoveAll("old"),
             dir' = [dir EXCEPT !["rewrite"] = r, !["old"] = o]
      PROVE  FilesInv'
  <2>1. "main" \in Files!Names /\ "rewrite" \in Files!Names /\ "old" \in Files!Names
    BY DEF Files!Names
  <2>2. /\ r \in Files!Dir
        /\ r = Files!Absent \/ r = Files!Partial \/ r = dir["rewrite"]
        /\ dir["rewrite"] = Files!Absent => r = Files!Absent
        /\ Files!IsEnv(r) => r.ok
    BY <1>0, <2>1, RemoveAllValues
  <2>3. /\ o \in Files!Dir
        /\ o = Files!Absent \/ o = Files!Partial \/ o = dir["old"]
        /\ dir["old"] = Files!Absent => o = Files!Absent
        /\ Files!IsEnv(o) => o.ok
    BY <1>0, <2>1, RemoveAllValues
  <2>5. /\ dir' \in [Files!Names -> Files!Dir] /\ dir'["rewrite"] = r /\ dir'["old"] = o
        /\ dir'["main"] = dir["main"]
        /\ \A f \in Files!Names : Files!IsEnv(dir'[f]) => dir'[f].ok
    <3>1. "rewrite" # "old" /\ "main" # "rewrite" /\ "main" # "old"
      OBVIOUS
    <3>2. r \in Files!Dir /\ o \in Files!Dir /\ (Files!IsEnv(r) => r.ok) /\ (Files!IsEnv(o) => o.ok)
      BY <2>2, <2>3
    <3>3. /\ dir' \in [Files!Names -> Files!Dir] /\ dir'["rewrite"] = r /\ dir'["old"] = o
          /\ \A f \in Files!Names : f # "rewrite" /\ f # "old" => dir'[f] = dir[f]
          /\ \A f \in Files!Names : Files!IsEnv(dir'[f]) => dir'[f].ok
      BY <1>0, <1>4, <2>1, <3>1, <3>2, TwoDirs
    <3> QED BY <2>1, <3>1, <3>3
  <2>6. FilesTypeOK'
    BY <1>0, <1>1, <2>5 DEF FilesTypeOK, StartPcs
  <2>7. PlainInv'
    BY <1>0, <1>1, <2>2, <2>3, <2>5 DEF PlainInv, Has
  <2>8. EncryptedInv'
    BY <1>0, <1>1, <1>4, <2>2, <2>3, <2>5 DEF EncryptedInv, Has
  <2>9. RewriteInv'
    BY <1>0, <1>1 DEF RewriteInv, RewritePcs
  <2>10. QED
    BY <1>2, <2>6, <2>7, <2>8, <2>9 DEF FilesInv
<1>5. QED
  BY <1>3, <1>4 DEF Files!RemoveStaging

(* The start: the backend is chosen, and the renames of a rewrite finished. *)
LEMMA FilesStartInv ==
    ASSUME FilesInv,
           \/ \E b \in {"lmdb", "bdb"} : Files!Start(b) \/ Files!StartRefused(b)
           \/ Files!Recover \/ Files!RemoveStaging \/ Files!MarkedButMissing
           \/ Files!CreateDirectory
    PROVE  FilesInv'
<1> USE DirValues DEF Files!Goto, Files!Exit, Files!disk, Files!truth, Files!Names, Has, Files!IsEnv,
        FilesInv, StartPcs, RewritePcs
<1>1. ASSUME NEW b \in {"lmdb", "bdb"}, Files!Start(b)
      PROVE  FilesInv'
  BY <1>1 DEF Files!Start, Files!CheckBackendCompatibility, FilesTypeOK, PlainInv, EncryptedInv,
     RewriteInv, BackendInv, Files!NeverDeclaredMissing, Files!Staged
<1>2. ASSUME NEW b \in {"lmdb", "bdb"}, Files!StartRefused(b)
      PROVE  FilesInv'
  BY <1>2 DEF Files!StartRefused, FilesTypeOK, PlainInv, EncryptedInv,
     RewriteInv, BackendInv, Files!NeverDeclaredMissing, Files!Staged
<1>3. CASE Files!Recover
  BY <1>3, RecoverInv
<1>4. CASE Files!RemoveStaging
  BY <1>4, RemoveStagingInv
<1>5. CASE Files!MarkedButMissing
  BY <1>5 DEF Files!MarkedButMissing, FilesTypeOK, PlainInv, EncryptedInv,
     RewriteInv, BackendInv, Files!NeverDeclaredMissing, Files!Staged, Files!HasLMDB
<1>6. CASE Files!CreateDirectory
  BY <1>6 DEF Files!CreateDirectory, FilesTypeOK, PlainInv, EncryptedInv,
     RewriteInv, BackendInv, Files!NeverDeclaredMissing, Files!Staged, Files!HasLMDB
<1>7. QED
  BY <1>1, <1>2, <1>3, <1>4, <1>5, <1>6

(* A change of one directory. *)
LEMMA OneDir ==
    ASSUME FilesTypeOK, NEW d \in Files!Names, NEW x \in Files!Dir, Files!IsEnv(x) => x.ok,
           dir' = [dir EXCEPT ![d] = x]
    PROVE  /\ dir' \in [Files!Names -> Files!Dir] /\ dir'[d] = x
           /\ \A f \in Files!Names : f # d => dir'[f] = dir[f]
           /\ \A f \in Files!Names : Files!IsEnv(dir'[f]) => dir'[f].ok
<1>1. /\ dir' \in [Files!Names -> Files!Dir] /\ dir'[d] = x
      /\ \A f \in Files!Names : f # d => dir'[f] = dir[f]
  BY DEF FilesTypeOK
<1>2. QED
  BY <1>1 DEF FilesTypeOK

(* The start goes on in the environment as it is, or ends. *)
LEMMA FilesUseInv ==
    ASSUME FilesInv,
           \/ Files!OpenFails \/ Files!EmptyButMarked \/ Files!UseExisting
           \/ Files!WriteMarker \/ Files!RenameMarker \/ Files!MarkerFails \/ Files!Stop
           \/ Files!Reopen
    PROVE  FilesInv'
<1> USE DEF Files!Goto, Files!Exit, Files!disk, Files!truth, FilesInv, StartPcs, RewritePcs
<1>0. FilesTypeOK /\ PlainInv /\ EncryptedInv /\ RewriteInv /\ BackendInv
  OBVIOUS
<1>1. UNCHANGED <<dir, bdb, store, committed, encrypted, compacted, backend>>
  BY DEF Files!OpenFails, Files!EmptyButMarked, Files!UseExisting, Files!WriteMarker,
     Files!RenameMarker, Files!MarkerFails, Files!Stop, Files!Reopen
<1>2. /\ "main" \in Files!Names /\ dir["main"].n \in 0 .. MaxCommits
      /\ \A d \in Files!Names : Has(d)' <=> Has(d)
  BY <1>1, DirValues DEF Files!Names, FilesTypeOK, Has
<1>3. ASSUME Files!UseExisting
      PROVE  Has("main")
  BY <1>0, <1>2, <1>3 DEF Files!UseExisting, Files!StartupAction, PlainInv, EncryptedInv, BackendInv,
     Has, FilesTypeOK
<1>4. ASSUME Files!EmptyButMarked
      PROVE  committed = 0
  BY <1>0, <1>2, <1>4 DEF Files!EmptyButMarked, Files!StartupAction, PlainInv, EncryptedInv,
     BackendInv, Has, FilesTypeOK
<1>5. /\ stage' \in {"off", "mark", "rename", "load", "dispose"} /\ marker' \in {"none", "lmdb"}
      /\ stage' = "mark" => stage = "choose" /\ Has("main") /\ backend = "lmdb"
      /\ stage' = "rename" => stage = "mark"
      /\ stage' = "load" => stage = "rename" /\ marker' = "lmdb"
      /\ stage' = "dispose" => stage = "reopen"
      /\ marker' = marker \/ stage = "rename"
      /\ stage' # "off" => refusal' = refusal
      /\ refusal' = "missing" => committed = 0 \/ refusal = "missing"
      /\ stage # "off"
  BY <1>0, <1>3, <1>4 DEF Files!OpenFails, Files!EmptyButMarked, Files!UseExisting, Files!WriteMarker,
     Files!RenameMarker, Files!MarkerFails, Files!Stop, Files!Reopen, BackendInv, FilesTypeOK
<1>6. FilesTypeOK'
  BY <1>0, <1>1, <1>5 DEF FilesTypeOK
<1>7. PlainInv'
  BY <1>0, <1>1, <1>2, <1>5 DEF PlainInv, Files!Names
<1>8. EncryptedInv'
  <2>1. encrypted /\ stage = "rename" => Has("main")
    BY <1>0, <1>2 DEF EncryptedInv
  <2>2. QED
    BY <1>0, <1>1, <1>2, <1>5, <2>1 DEF EncryptedInv, Files!Names
<1>9. RewriteInv'
  BY <1>0, <1>1, <1>2, <1>5 DEF RewriteInv, Files!Names
<1>10. BackendInv'
  BY <1>0, <1>1, <1>5 DEF BackendInv, Files!NeverDeclaredMissing
<1>11. QED
  BY <1>6, <1>7, <1>8, <1>9, <1>10

(* The environment is created, or filled from the Berkeley DB file. *)
LEMMA FilesFillInv ==
    ASSUME FilesInv, Files!OpenEnvironment \/ Files!Migrate \/ Files!MigrateFails
    PROVE  FilesInv'
<1> USE DEF Files!Goto, Files!Exit, Files!truth, FilesInv, StartPcs, RewritePcs
<1>0. FilesTypeOK /\ PlainInv /\ EncryptedInv /\ RewriteInv /\ BackendInv
  OBVIOUS
<1>1. /\ UNCHANGED <<bdb, marker, backend, store, committed, encrypted, compacted>>
      /\ stage \in {"open", "choose"} /\ stage' \in {"choose", "mark", "off"}
      /\ stage' # "off" => refusal' = refusal
      /\ refusal' = "missing" => refusal = "missing"
  BY DEF Files!OpenEnvironment, Files!Migrate, Files!MigrateFails
<1>2. "main" \in Files!Names /\ dir["main"].n \in 0 .. MaxCommits /\ dir["main"] \in Files!Dir
  BY DirValues DEF Files!Names, FilesTypeOK
<1>3. CASE dir' = dir /\ stage' \in {"choose", "off"} /\ (stage' = "choose" => Files!IsEnv(dir["main"]))
  BY <1>0, <1>1, <1>3 DEF FilesTypeOK, PlainInv, EncryptedInv, RewriteInv, BackendInv, Has,
     Files!NeverDeclaredMissing
<1>4. ASSUME NEW x \in Files!Dir, dir' = [dir EXCEPT !["main"] = x], Files!IsEnv(x) => x.ok,
             ~encrypted, marker = "none", bdb = committed,
             Files!IsEnv(x) => x.n = committed \/ x.n = 0, stage' # "off" => Files!IsEnv(x),
             stage' = "mark" => x.n = committed
      PROVE  FilesInv'
  <2>1. /\ dir' \in [Files!Names -> Files!Dir] /\ dir'["main"] = x
        /\ dir'["rewrite"] = dir["rewrite"] /\ dir'["old"] = dir["old"]
        /\ \A f \in Files!Names : Files!IsEnv(dir'[f]) => dir'[f].ok
    BY <1>0, <1>2, <1>4, OneDir DEF Files!Names
  <2>2. FilesTypeOK'
    BY <1>0, <1>1, <2>1 DEF FilesTypeOK
  <2>3. committed \in Nat
    BY <1>0 DEF FilesTypeOK
  <2>4. PlainInv'
    BY <1>0, <1>1, <1>4, <2>1, <2>3 DEF PlainInv, Has
  <2>5. EncryptedInv' /\ RewriteInv'
    BY <1>0, <1>1, <1>4 DEF EncryptedInv, RewriteInv
  <2>6. dir'["main"] # Files!Absent \/ stage' = "off"
    BY <1>4, <2>1, DirValues DEF Files!IsEnv
  <2>7. BackendInv'
    BY <1>0, <1>1, <1>4, <2>1, <2>6 DEF BackendInv, Files!NeverDeclaredMissing
  <2>8. QED
    BY <2>2, <2>4, <2>5, <2>7
<1>5. CASE Files!OpenEnvironment
  <2>1. dir' = [dir EXCEPT !["main"] = IF Files!HasLMDB THEN @ ELSE Files!Filled(0, FALSE, TRUE)]
        /\ stage = "open" /\ stage' = "choose"
    BY <1>5 DEF Files!OpenEnvironment
  <2>2. CASE Files!HasLMDB
    <3>1. dir' = dir
      BY <1>0, <2>1, <2>2 DEF FilesTypeOK
    <3>2. QED
      BY <1>3, <2>1, <2>2, <3>1 DEF Files!HasLMDB
  <2>3. CASE ~Files!HasLMDB
    <3> DEFINE x == Files!Filled(0, FALSE, TRUE)
    <3>a. 0 \in 0 .. MaxCommits
      BY StorageAssumption DEF StorageAssumption, Files!BackendAssumption
    <3>1. x \in Files!Dir /\ Files!IsEnv(x) /\ x.n = 0 /\ x.ok
      BY <3>a, FilledValues
    <3>2. dir' = [dir EXCEPT !["main"] = x]
      BY <2>1, <2>3
    <3>3. ~encrypted /\ marker = "none" /\ bdb = committed
      BY <1>0, <2>1, <2>3 DEF PlainInv, EncryptedInv, Has, Files!HasLMDB, FilesTypeOK
    <3> HIDE DEF x
    <3>4. QED
      BY <1>4, <2>1, <3>1, <3>2, <3>3
  <2>4. QED
    BY <2>2, <2>3
<1>6. CASE Files!Migrate \/ Files!MigrateFails
  <2>1. stage = "choose" /\ Files!StartupAction = "migrate"
    BY <1>6 DEF Files!Migrate, Files!MigrateFails
  <2>2. marker = "none" /\ bdb > 0 /\ dir["main"].n = 0
    BY <1>0, <1>2, <2>1 DEF Files!StartupAction, FilesTypeOK
  <2>3. ~encrypted /\ bdb = committed
    BY <1>0, <2>1, <2>2 DEF PlainInv, EncryptedInv, Has, FilesTypeOK
  <2>4. CASE Files!Migrate
    <3> DEFINE x == Files!Filled(bdb, Files!IsWallet, TRUE)
    <3>1. x \in Files!Dir /\ Files!IsEnv(x) /\ x.n = bdb /\ x.ok
      <4>1. bdb \in 0 .. MaxCommits /\ Files!IsWallet \in BOOLEAN
        BY <1>0, Zenon DEF FilesTypeOK, Files!IsWallet
      <4>2. QED
        BY <4>1, FilledValues
    <3>2. dir' = [dir EXCEPT !["main"] = x] /\ stage' = "mark"
      BY <2>4 DEF Files!Migrate
    <3> HIDE DEF x
    <3>3. QED
      BY <1>4, <2>2, <2>3, <3>1, <3>2
  <2>5. CASE Files!MigrateFails
    <3>1. PICK x \in IF Files!IsWallet THEN Files!RemoveAll("main") ELSE {dir["main"]} :
              dir' = [dir EXCEPT !["main"] = x]
      BY <2>5 DEF Files!MigrateFails
    <3>2. x \in Files!Dir /\ (Files!IsEnv(x) => x.ok)
          /\ (x = Files!Absent \/ x = Files!Partial \/ x = dir["main"])
      BY <1>0, <1>2, <3>1, RemoveAllValues DEF FilesTypeOK
    <3>3. Files!IsEnv(x) => x.n = 0
      BY <2>2, <3>2, DirValues DEF Files!IsEnv
    <3>4. stage' = "off"
      BY <2>5 DEF Files!MigrateFails
    <3>5. QED
      BY <1>4, <2>2, <2>3, <3>1, <3>2, <3>3, <3>4
  <2>6. QED
    BY <1>6, <2>4, <2>5
<1>7. QED
  BY <1>5, <1>6

(* A commit to the environment in use, that of the encryption among them. *)
LEMMA RecordsAdded ==
    ASSUME FilesInv, stage \in {"load", "running"}, backend = "lmdb", committed < MaxCommits,
           NEW p \in BOOLEAN,
           dir' = [dir EXCEPT !["main"] = Files!Filled(@.n + 1, p, @.ok)],
           committed' = committed + 1,
           UNCHANGED <<bdb, marker, backend, refusal, store, compacted>>,
           \/ encrypted' = encrypted /\ stage' = "running" /\ (encrypted => p = dir["main"].plain)
           \/ encrypted' = TRUE /\ ~encrypted /\ stage' = "stage" /\ store = "wallet"
    PROVE  FilesInv'
<1>0. FilesTypeOK /\ PlainInv /\ EncryptedInv /\ RewriteInv /\ BackendInv
  BY DEF FilesInv
<1>1. MaxCommits \in Nat /\ committed \in 0 .. MaxCommits /\ bdb \in 0 .. MaxCommits
  BY <1>0, StorageAssumption DEF StorageAssumption, Files!BackendAssumption, FilesTypeOK
<1>2. "main" \in Files!Names /\ Has("main")
  BY <1>0 DEF Files!Names, PlainInv, EncryptedInv
<1> DEFINE x == Files!Filled(committed + 1, p, TRUE)
<1>3. dir' = [dir EXCEPT !["main"] = x]
  BY <1>0, <1>2 DEF Has, FilesTypeOK, Files!IsEnv, Files!Filled
<1>a. committed + 1 \in 0 .. MaxCommits /\ committed + 1 > 0
  BY <1>1
<1>4. x \in Files!Dir /\ Files!IsEnv(x) /\ x # Files!Absent /\ x.n = committed + 1 /\ x.plain = p /\ x.ok
  BY <1>a, FilledValues
<1> HIDE DEF x
<1>5. /\ dir' \in [Files!Names -> Files!Dir] /\ dir'["main"] = x
      /\ dir'["rewrite"] = dir["rewrite"] /\ dir'["old"] = dir["old"]
      /\ \A f \in Files!Names : Files!IsEnv(dir'[f]) => dir'[f].ok
  BY <1>0, <1>2, <1>3, <1>4, OneDir DEF Files!Names
<1>6. Has("main")'
  BY <1>4, <1>5 DEF Has
<1>b. /\ encrypted' \in BOOLEAN /\ compacted' \in BOOLEAN
      /\ stage' \in StartPcs \union RewritePcs
  BY <1>0, Zenon DEF FilesTypeOK, StartPcs, RewritePcs
<1>7. FilesTypeOK'
  BY <1>0, <1>1, <1>a, <1>b, <1>5 DEF FilesTypeOK
<1>8. PlainInv'
  BY <1>0, <1>1, <1>5, <1>6 DEF PlainInv
<1>9. EncryptedInv'
  <2>1. store' = "wallet" \/ ~encrypted'
    BY <1>0 DEF EncryptedInv
  <2>2. ASSUME compacted'
        PROVE  /\ ~dir'["main"].plain
               /\ dir'["rewrite"] = Files!Absent /\ dir'["old"] = Files!Absent
    <3>1. compacted /\ encrypted
      BY <1>0, <2>2 DEF RewriteInv
    <3>2. QED
      BY <1>0, <1>4, <1>5, <3>1 DEF EncryptedInv
  <2>3. QED
    BY <1>a, <1>6, <2>1, <2>2 DEF EncryptedInv
<1>10. RewriteInv'
  BY <1>0 DEF RewriteInv, BackendInv, RewritePcs
<1>11. BackendInv'
  BY <1>0, <1>4, <1>5 DEF BackendInv, Files!NeverDeclaredMissing
<1>12. QED
  BY <1>7, <1>8, <1>9, <1>10, <1>11 DEF FilesInv

(* A commit to the Berkeley DB file. *)
LEMMA FileAdded ==
    ASSUME FilesInv, stage \in {"load", "running"}, backend = "bdb", committed < MaxCommits,
           bdb' = bdb + 1, committed' = committed + 1, stage' = "running",
           UNCHANGED <<dir, marker, backend, refusal, store, compacted, encrypted>>
    PROVE  FilesInv'
<1>0. FilesTypeOK /\ PlainInv /\ EncryptedInv /\ RewriteInv /\ BackendInv
  BY DEF FilesInv
<1>1. MaxCommits \in Nat /\ committed \in 0 .. MaxCommits /\ bdb \in 0 .. MaxCommits
  BY <1>0, StorageAssumption DEF StorageAssumption, Files!BackendAssumption, FilesTypeOK
<1>2. marker = "none" /\ dir["main"] = Files!Absent
  BY <1>0 DEF BackendInv
<1>3. ~Files!IsEnv(dir["main"])
  BY <1>2, DirValues DEF Files!IsEnv
<1>4. ~encrypted /\ bdb = committed
  BY <1>0, <1>2, <1>3 DEF PlainInv, EncryptedInv, Has
<1>a. bdb + 1 \in 0 .. MaxCommits /\ stage' \in StartPcs \union RewritePcs
  BY <1>1, <1>4 DEF StartPcs
<1>5. FilesTypeOK'
  BY <1>0, <1>1, <1>4, <1>a DEF FilesTypeOK
<1>6. PlainInv'
  BY <1>0, <1>1, <1>2, <1>3, <1>4 DEF PlainInv
<1>7. EncryptedInv' /\ RewriteInv' /\ BackendInv'
  BY <1>0, <1>2, <1>4 DEF EncryptedInv, RewriteInv, RewritePcs, BackendInv, Files!NeverDeclaredMissing
<1>8. QED
  BY <1>5, <1>6, <1>7 DEF FilesInv

(* Records are stored, when the database is new and afterwards. *)
LEMMA FilesStoreInv ==
    FilesInv /\ (Files!Load \/ Files!Commit \/ Files!EncryptWallet) => FilesInv'
<1> SUFFICES ASSUME FilesInv, Files!Load \/ Files!Commit \/ Files!EncryptWallet PROVE FilesInv'
  OBVIOUS
<1>0. FilesTypeOK /\ PlainInv /\ EncryptedInv /\ RewriteInv /\ BackendInv
  BY DEF FilesInv
<1>1. "main" \in Files!Names /\ dir["main"].plain \in BOOLEAN /\ dir["main"] \in Files!Dir
  BY <1>0, DirValues DEF FilesTypeOK, Files!Names
<1>2. ASSUME Files!Store, stage \in {"load", "running"}, stage' = "running",
             UNCHANGED <<backend, refusal, store, encrypted, compacted>>
      PROVE  FilesInv'
  <2>1. CASE backend = "bdb"
    BY <1>2, <2>1, FileAdded DEF Files!Store, Files!Active
  <2>2. CASE backend = "lmdb"
    <3> DEFINE p == dir["main"].plain \/ (Files!IsWallet /\ ~encrypted)
    <3>1. p \in BOOLEAN
      BY Zenon
    <3>2. encrypted => p = dir["main"].plain
      BY <1>1
    <3>3. /\ dir' = [dir EXCEPT !["main"] = Files!Filled(@.n + 1, p, @.ok)]
          /\ committed < MaxCommits /\ committed' = committed + 1
          /\ UNCHANGED <<bdb, marker>>
      BY <1>0, <1>2, <2>2 DEF Files!Store, FilesTypeOK
    <3> HIDE DEF p
    <3>4. QED
      BY <1>2, <2>2, <3>1, <3>2, <3>3, RecordsAdded
  <2>3. QED
    BY <1>0, <2>1, <2>2 DEF FilesTypeOK
<1>3. CASE Files!Commit
  BY <1>2, <1>3 DEF Files!Commit
<1>4. CASE Files!Load
  <2>1. CASE Files!Active = 0
    BY <1>2, <1>4, <2>1 DEF Files!Load, Files!Goto
  <2>2. CASE Files!Active # 0
    <3>1. /\ stage = "load" /\ stage' = "running"
          /\ UNCHANGED <<dir, bdb, marker, backend, refusal, store, committed, encrypted, compacted>>
      BY <1>4, <2>2 DEF Files!Load, Files!Goto, Files!disk
    <3>2. QED
      BY <1>0, <3>1 DEF FilesInv, FilesTypeOK, StartPcs, RewritePcs, PlainInv, EncryptedInv,
         RewriteInv, BackendInv, Has, Files!NeverDeclaredMissing
  <2>3. QED
    BY <2>1, <2>2
<1>5. CASE Files!EncryptWallet
  <2> DEFINE p == dir["main"].plain
  <2>1. /\ dir' = [dir EXCEPT !["main"] = Files!Filled(@.n + 1, p, @.ok)]
        /\ stage = "running" /\ backend = "lmdb" /\ committed < MaxCommits
        /\ committed' = committed + 1 /\ encrypted' = TRUE /\ ~encrypted /\ stage' = "stage"
        /\ store = "wallet"
        /\ UNCHANGED <<bdb, marker, backend, refusal, store, compacted>>
    BY <1>0, <1>5 DEF Files!EncryptWallet, Files!Goto, Files!IsWallet, FilesTypeOK
  <2>2. p \in BOOLEAN
    BY <1>1
  <2> HIDE DEF p
  <2>3. QED
    BY <2>1, <2>2, RecordsAdded
<1>6. QED
  BY <1>3, <1>4, <1>5

(* What the steps of a rewrite have in common: the directories go from one    *)
(* of the arrangements of EncryptedInv and RewriteInv to another.             *)
LEMMA RewriteStep ==
    ASSUME FilesInv, stage \in RewritePcs, stage' \in RewritePcs \union {"off", "running"},
           UNCHANGED <<bdb, marker, backend, store, committed, encrypted>>,
           refusal' \in {refusal, "error"},
           dir' \in [Files!Names -> Files!Dir],
           \A f \in Files!Names : Files!IsEnv(dir'[f]) => dir'[f].ok,
           \/ Has("main")'
           \/ /\ dir'["main"] = Files!Absent /\ stage' \in {"off", "install", "restore"}
              /\ Has("rewrite")' \/ (dir'["rewrite"] = Files!Absent /\ Has("old")'),
           \/ compacted' = compacted /\ stage' # "running"
           \/ /\ compacted' = TRUE /\ stage' = "running" /\ Has("main")'
              /\ ~dir'["main"].plain /\ dir'["rewrite"] = Files!Absent /\ dir'["old"] = Files!Absent,
           stage' \in {"aside", "install"} => Has("rewrite")' /\ ~dir'["rewrite"].plain,
           stage' \in {"install", "restore", "reopen"} => Has("old")',
           stage' \in {"reopen", "dispose"} => ~dir'["main"].plain /\ dir'["rewrite"] = Files!Absent
    PROVE  FilesInv'
<1>0. FilesTypeOK /\ PlainInv /\ EncryptedInv /\ RewriteInv /\ BackendInv
  BY DEF FilesInv
<1>1. encrypted /\ ~compacted /\ marker = "lmdb" /\ backend = "lmdb" /\ refusal # "missing"
  BY <1>0 DEF RewriteInv, BackendInv, RewritePcs, FilesTypeOK
<1>2. FilesTypeOK'
  <2>1. stage' \in StartPcs \union RewritePcs
    BY DEF StartPcs
  <2>2. compacted' \in BOOLEAN
    BY <1>0, Zenon DEF FilesTypeOK
  <2>3. QED
    BY <1>0, <2>1, <2>2 DEF FilesTypeOK
<1>3. PlainInv'
  BY <1>1 DEF PlainInv
<1>4. EncryptedInv'
  BY <1>0, <1>1 DEF EncryptedInv
<1>5. RewriteInv'
  <2>1. stage' \in RewritePcs => ~compacted'
    BY <1>1 DEF RewritePcs
  <2>2. QED
    BY <1>1, <2>1 DEF RewriteInv
<1>6. BackendInv'
  BY <1>1 DEF BackendInv, RewritePcs, Files!NeverDeclaredMissing
<1>7. QED
  BY <1>2, <1>3, <1>4, <1>5, <1>6 DEF FilesInv

(* The copy is made beside the environment. *)
LEMMA FilesCopyInv ==
    ASSUME ~UnusableCopies, FilesInv,
           \/ Files!Stage \/ Files!Copy \/ Files!CopyFails \/ Files!MoveAsideFails \/ Files!Discard
    PROVE  FilesInv'
<1> USE DEF Files!Goto, Files!Exit, Files!truth
<1>0. FilesTypeOK /\ PlainInv /\ EncryptedInv /\ RewriteInv /\ BackendInv
  BY DEF FilesInv
<1>1. /\ stage \in {"stage", "copy", "aside", "discard"} /\ stage \in RewritePcs
      /\ UNCHANGED <<bdb, marker, backend, store, committed, encrypted, compacted>>
      /\ stage' \in {"copy", "aside", "off"}
      /\ refusal' \in {refusal, "error"}
  BY DEF Files!Stage, Files!Copy, Files!CopyFails, Files!MoveAsideFails, Files!Discard, RewritePcs
<1>2. "main" \in Files!Names /\ "rewrite" \in Files!Names /\ "old" \in Files!Names
  BY DEF Files!Names
<1>3. Has("main")
  BY <1>0, <1>1 DEF RewriteInv, EncryptedInv
<1>4. ASSUME NEW r \in Files!Dir, NEW o \in Files!Dir, Files!IsEnv(r) => r.ok, Files!IsEnv(o) => o.ok,
             dir' = [dir EXCEPT !["rewrite"] = r, !["old"] = o],
             stage' = "aside" => Files!IsEnv(r) /\ r.n = committed /\ ~r.plain
      PROVE  FilesInv'
  <2>1. /\ dir' \in [Files!Names -> Files!Dir] /\ dir'["rewrite"] = r /\ dir'["main"] = dir["main"]
        /\ \A f \in Files!Names : Files!IsEnv(dir'[f]) => dir'[f].ok
    BY <1>0, <1>2, <1>4, TwoDirs
  <2>2. Has("main")' /\ (stage' = "aside" => Has("rewrite")' /\ ~dir'["rewrite"].plain)
    BY <1>1, <1>3, <1>4, <2>1 DEF Has
  <2>3. QED
    BY <1>1, <2>1, <2>2, RewriteStep DEF RewritePcs
<1>5. CASE Files!Stage
  <2>1. PICK r \in Files!RemoveAll("rewrite"), o \in Files!RemoveAll("old") :
            dir' = [dir EXCEPT !["rewrite"] = IF r = Files!Absent THEN Files!Partial ELSE r,
                               !["old"] = o]
    BY <1>5 DEF Files!Stage
  <2>2. r \in Files!Dir /\ (Files!IsEnv(r) => r.ok)
    BY <1>0, <1>2, RemoveAllValues
  <2>3. o \in Files!Dir /\ (Files!IsEnv(o) => o.ok)
    BY <1>0, <1>2, RemoveAllValues
  <2>4. Files!Partial \in Files!Dir /\ ~Files!IsEnv(Files!Partial)
    BY DirValues DEF Files!IsEnv
  <2>5. stage' = "copy"
    BY <1>5 DEF Files!Stage
  <2>6. QED
    BY <1>4, <2>1, <2>2, <2>3, <2>4, <2>5
<1>6. dir["old"] \in Files!Dir /\ (Files!IsEnv(dir["old"]) => dir["old"].ok)
  BY <1>0, <1>2 DEF FilesTypeOK
<1>7. ASSUME NEW r \in Files!Dir, Files!IsEnv(r) => r.ok, dir' = [dir EXCEPT !["rewrite"] = r],
             stage' = "aside" => Files!IsEnv(r) /\ r.n = committed /\ ~r.plain
      PROVE  FilesInv'
  <2>1. dir' = [dir EXCEPT !["rewrite"] = r, !["old"] = dir["old"]]
    BY <1>0, <1>7 DEF FilesTypeOK
  <2>2. QED
    BY <1>4, <1>6, <1>7, <2>1
<1>8. CASE Files!Copy
  <2> DEFINE x == Files!Filled(dir["main"].n, FALSE, TRUE)
  <2>1. dir' = [dir EXCEPT !["rewrite"] = x]
    BY <1>8 DEF Files!Copy
  <2>2. dir["main"].n \in 0 .. MaxCommits /\ dir["main"].n = committed
    BY <1>0, <1>2, <1>3, DirValues DEF FilesTypeOK, Has
  <2>3. x \in Files!Dir /\ Files!IsEnv(x) /\ x.n = committed /\ x.plain = FALSE /\ x.ok = TRUE
    BY <2>2, FilledValues
  <2> HIDE DEF x
  <2>4. QED
    BY <1>7, <2>1, <2>3
<1>9. CASE Files!CopyFails \/ Files!MoveAsideFails \/ Files!Discard
  <2>1. PICK r \in Files!RemoveAll("rewrite") : dir' = [dir EXCEPT !["rewrite"] = r]
    BY <1>9 DEF Files!CopyFails, Files!MoveAsideFails, Files!Discard
  <2>2. r \in Files!Dir /\ (Files!IsEnv(r) => r.ok)
    BY <1>0, <1>2, RemoveAllValues
  <2>3. stage' = "off"
    BY <1>9 DEF Files!CopyFails, Files!MoveAsideFails, Files!Discard
  <2>4. QED
    BY <1>7, <2>1, <2>2, <2>3
<1>10. QED
  BY <1>5, <1>8, <1>9

(* The old environment makes place for the copy, or comes back. *)
LEMMA FilesRenameInv ==
    ASSUME FilesInv,
           \/ Files!MoveAside \/ Files!Install \/ Files!InstallFails \/ Files!Park
           \/ Files!Restore
    PROVE  FilesInv'
<1> USE DEF Files!Goto, Files!Exit, Files!truth
<1>0. FilesTypeOK /\ PlainInv /\ EncryptedInv /\ RewriteInv /\ BackendInv
  BY DEF FilesInv
<1>1. /\ stage \in {"aside", "install", "reopen", "restore"} /\ stage \in RewritePcs
      /\ UNCHANGED <<bdb, marker, backend, store, committed, encrypted, compacted>>
      /\ stage' \in {"install", "reopen", "discard", "restore", "off"}
      /\ refusal' \in {refusal, "error"}
  BY DEF Files!MoveAside, Files!Install, Files!InstallFails, Files!Park, Files!Restore, RewritePcs
<1>2. "main" \in Files!Names /\ "rewrite" \in Files!Names /\ "old" \in Files!Names
  BY DEF Files!Names
<1>3. Files!Absent \in Files!Dir /\ ~Files!IsEnv(Files!Absent)
  BY DirValues DEF Files!IsEnv
<1>4. /\ encrypted
      /\ \/ Has("main")
         \/ /\ dir["main"] = Files!Absent
            /\ stage \in {"install", "restore"}
            /\ Has("rewrite") \/ (dir["rewrite"] = Files!Absent /\ Has("old"))
  BY <1>0, <1>1 DEF EncryptedInv, RewriteInv
<1>5. CASE dir' = dir /\ stage' = "off"
  BY <1>0, <1>1, <1>4, <1>5, RewriteStep DEF FilesTypeOK, Has, RewritePcs
<1>6. ASSUME NEW from \in Files!Names, NEW to \in Files!Names, Files!Rename(from, to), from # to
      PROVE  /\ dir' \in [Files!Names -> Files!Dir]
             /\ dir'[to] = dir[from] /\ dir'[from] = Files!Absent
             /\ \A f \in Files!Names : f # to /\ f # from => dir'[f] = dir[f]
             /\ \A f \in Files!Names : Files!IsEnv(dir'[f]) => dir'[f].ok
             /\ dir[to] = Files!Absent
             /\ Has(from) => Has(to)'
             /\ \A f \in Files!Names : f # to /\ f # from /\ Has(f) => Has(f)'
  <2>1. /\ dir' = [dir EXCEPT ![to] = dir[from], ![from] = Files!Absent] /\ dir[to] = Files!Absent
        /\ dir[from] \in Files!Dir /\ (Files!IsEnv(dir[from]) => dir[from].ok)
    BY <1>0, <1>6 DEF Files!Rename, FilesTypeOK
  <2>2. /\ dir' \in [Files!Names -> Files!Dir]
        /\ dir'[to] = dir[from] /\ dir'[from] = Files!Absent
        /\ \A f \in Files!Names : f # to /\ f # from => dir'[f] = dir[f]
        /\ \A f \in Files!Names : Files!IsEnv(dir'[f]) => dir'[f].ok
    BY <1>0, <1>3, <1>6, <2>1, TwoDirs
  <2>3. QED
    BY <1>1, <2>1, <2>2 DEF Has
<1>7. CASE Files!MoveAside
  <2>1. Files!Rename("main", "old") /\ stage = "aside" /\ stage' = "install"
    BY <1>7 DEF Files!MoveAside
  <2>2. Has("main") /\ Has("rewrite") /\ ~dir["rewrite"].plain
    BY <1>0, <1>4, <2>1 DEF RewriteInv
  <2>3. /\ dir' \in [Files!Names -> Files!Dir] /\ dir'["main"] = Files!Absent
        /\ dir'["rewrite"] = dir["rewrite"]
        /\ \A f \in Files!Names : Files!IsEnv(dir'[f]) => dir'[f].ok
        /\ Has("old")' /\ Has("rewrite")'
    BY <1>2, <1>6, <2>1, <2>2
  <2>4. QED
    BY <1>1, <2>1, <2>2, <2>3, RewriteStep DEF RewritePcs
<1>8. CASE Files!Install
  <2>1. Files!Rename("rewrite", "main") /\ stage = "install" /\ stage' = "reopen"
    BY <1>8 DEF Files!Install
  <2>2. Has("rewrite") /\ ~dir["rewrite"].plain /\ Has("old")
    BY <1>0, <2>1 DEF RewriteInv
  <2>3. /\ dir' \in [Files!Names -> Files!Dir] /\ dir'["rewrite"] = Files!Absent
        /\ dir'["main"] = dir["rewrite"]
        /\ \A f \in Files!Names : Files!IsEnv(dir'[f]) => dir'[f].ok
        /\ Has("old")' /\ Has("main")'
    BY <1>2, <1>6, <2>1, <2>2
  <2>4. QED
    BY <1>1, <2>1, <2>2, <2>3, RewriteStep DEF RewritePcs
<1>9. ASSUME Files!Rename("old", "main"), stage \in {"install", "restore"}, stage' = "discard"
      PROVE  FilesInv'
  <2>1. Has("old")
    BY <1>0, <1>9 DEF RewriteInv
  <2>2. /\ dir' \in [Files!Names -> Files!Dir]
        /\ \A f \in Files!Names : Files!IsEnv(dir'[f]) => dir'[f].ok
        /\ Has("main")'
    BY <1>2, <1>6, <1>9, <2>1
  <2>3. QED
    BY <1>1, <1>9, <2>2, RewriteStep DEF RewritePcs
<1>10. ASSUME Files!Rename("main", "rewrite"), stage = "reopen", stage' = "restore"
       PROVE  FilesInv'
  <2>1. Has("old") /\ Has("main")
    BY <1>0, <1>4, <1>10 DEF RewriteInv
  <2>2. /\ dir' \in [Files!Names -> Files!Dir] /\ dir'["main"] = Files!Absent
        /\ \A f \in Files!Names : Files!IsEnv(dir'[f]) => dir'[f].ok
        /\ Has("old")' /\ Has("rewrite")'
    BY <1>2, <1>6, <1>10, <2>1
  <2>3. QED
    BY <1>1, <1>10, <2>2, RewriteStep DEF RewritePcs
<1>11. QED
  BY <1>5, <1>7, <1>8, <1>9, <1>10
     DEF Files!MoveAside, Files!Install, Files!InstallFails, Files!Park, Files!Restore

(* The old environment goes, and the rewrite has succeeded when it is gone. *)
LEMMA FilesDisposeInv == FilesInv /\ Files!Dispose => FilesInv'
<1> SUFFICES ASSUME FilesInv, Files!Dispose PROVE FilesInv'
  OBVIOUS
<1> USE DEF Files!Goto, Files!Exit
<1>0. FilesTypeOK /\ PlainInv /\ EncryptedInv /\ RewriteInv /\ BackendInv
  BY DEF FilesInv
<1>1. PICK o \in Files!RemoveAll("old") :
        /\ dir' = [dir EXCEPT !["old"] = o]
        /\ \/ o = Files!Absent /\ compacted' = TRUE /\ stage' = "running" /\ refusal' = refusal
           \/ o # Files!Absent /\ stage' = "off" /\ refusal' = "error" /\ compacted' = compacted
  BY DEF Files!Dispose
<1>2. /\ stage = "dispose" /\ stage \in RewritePcs
      /\ UNCHANGED <<bdb, marker, backend, store, committed, encrypted>>
  BY DEF Files!Dispose, RewritePcs
<1>3. "old" \in Files!Names /\ "main" \in Files!Names /\ "rewrite" \in Files!Names
  BY DEF Files!Names
<1>4. o \in Files!Dir /\ (Files!IsEnv(o) => o.ok)
  BY <1>0, <1>3, RemoveAllValues
<1>5. /\ dir' \in [Files!Names -> Files!Dir] /\ dir'["old"] = o
      /\ dir'["main"] = dir["main"] /\ dir'["rewrite"] = dir["rewrite"]
      /\ \A f \in Files!Names : Files!IsEnv(dir'[f]) => dir'[f].ok
  BY <1>0, <1>1, <1>3, <1>4, OneDir
<1>6. Has("main") /\ ~dir["main"].plain /\ dir["rewrite"] = Files!Absent
  BY <1>0, <1>2 DEF RewriteInv, EncryptedInv
<1>7. Has("main")' /\ ~dir'["main"].plain /\ dir'["rewrite"] = Files!Absent
  BY <1>2, <1>5, <1>6 DEF Has
<1>8. QED
  BY <1>1, <1>2, <1>5, <1>7, RewriteStep DEF RewritePcs

(* A new data directory, or one of a Berkeley DB release. *)
LEMMA FilesInitInv == Files!Init => FilesInv
<1> SUFFICES ASSUME Files!Init PROVE FilesInv
  OBVIOUS
<1>1. MaxCommits \in Nat \ {0}
  BY StorageAssumption DEF StorageAssumption, Files!BackendAssumption
<1>2. dir = [d \in Files!Names |-> Files!Absent] /\ bdb \in 0 .. 1 /\ committed = bdb
      /\ marker = "none" /\ stage = "off" /\ backend = "lmdb" /\ refusal = "none"
      /\ encrypted = FALSE /\ compacted = FALSE
  BY DEF Files!Init
<1>3. \A d \in Files!Names : dir[d] = Files!Absent
  BY <1>2
<1>4. ~Files!IsEnv(Files!Absent) /\ Files!Absent \in Files!Dir
  BY DirValues DEF Files!IsEnv
<1>5. FilesTypeOK
  <2>1. dir \in [Files!Names -> Files!Dir] /\ bdb \in 0 .. MaxCommits
    BY <1>1, <1>2, <1>4
  <2>2. encrypted \in BOOLEAN /\ compacted \in BOOLEAN
    BY <1>2, Zenon
  <2>3. QED
    BY <1>2, <1>3, <1>4, <2>1, <2>2 DEF FilesTypeOK, StartPcs
<1>6. PlainInv
  BY <1>2, <1>3, <1>4 DEF PlainInv, Files!Names
<1>7. EncryptedInv /\ RewriteInv /\ BackendInv
  BY <1>2 DEF EncryptedInv, RewriteInv, BackendInv, RewritePcs, Files!NeverDeclaredMissing
<1>8. QED
  BY <1>5, <1>6, <1>7 DEF FilesInv

(* Every step of the process that has the files keeps the invariant, if the   *)
(* copies it makes can be opened.                                             *)
LEMMA FilesStepInv ==
    ASSUME ~UnusableCopies
    PROVE  FilesInv /\ [Files!Next]_filesVars => FilesInv'
<1> SUFFICES ASSUME FilesInv, [Files!Next]_filesVars PROVE FilesInv'
  OBVIOUS
<1>1. CASE UNCHANGED filesVars
  BY <1>1 DEF filesVars, FilesInv, FilesTypeOK, PlainInv, EncryptedInv, RewriteInv, BackendInv, Has,
     Files!NeverDeclaredMissing, Files!Staged
<1>2. CASE Files!Next
  BY <1>2, FilesStartInv, FilesUseInv, FilesFillInv, FilesStoreInv, FilesCopyInv, FilesRenameInv,
     FilesDisposeInv, Zenon DEF Files!Next, Files!Startup, Files!RewriteWalletLMDB
<1>3. QED
  BY <1>1, <1>2

(* What the invariant means for the process and the next one. *)
LEMMA FilesInvSafe == FilesInv => FilesRecoverable
<1> SUFFICES ASSUME FilesInv PROVE FilesRecoverable
  OBVIOUS
<1>0. FilesTypeOK /\ PlainInv /\ EncryptedInv /\ RewriteInv /\ BackendInv
  BY DEF FilesInv
<1>1. "main" \in Files!Names /\ "rewrite" \in Files!Names /\ "old" \in Files!Names
      /\ Files!Names = {"main", "rewrite", "old"}
  BY DEF Files!Names
<1>2. ~Files!IsEnv(Files!Absent)
  BY DirValues DEF Files!IsEnv
<1>3. Files!Recoverable
  <2> DEFINE next == IF dir["main"] # Files!Absent THEN "main" ELSE Files!Staged
  <2>1. next \in Files!Names
    BY <1>1 DEF Files!Staged
  <2>2. CASE encrypted
    <3>1. Has(next) /\ committed > 0
      BY <1>0, <1>1, <1>2, <2>2 DEF EncryptedInv, Has, Files!Staged
    <3>2. QED
      BY <1>0, <2>1, <3>1 DEF Files!Recoverable, Has, FilesTypeOK
  <2>3. CASE ~encrypted
    <3>1. Files!IsEnv(dir[next]) => next = "main"
      BY <1>0, <1>2, <2>3 DEF PlainInv, Files!Staged
    <3> HIDE DEF next
    <3>2. Files!IsEnv(dir[next]) /\ dir[next].n > 0 => dir[next].n = committed /\ dir[next].ok
      BY <1>0, <1>1, <2>3, <3>1 DEF PlainInv, Has, FilesTypeOK
    <3>3. ~(Files!IsEnv(dir[next]) /\ dir[next].n > 0) => bdb = committed
      <4>1. Has("main") => next = "main"
        BY <1>2 DEF Has, next
      <4>2. Has("main") /\ ~(dir["main"].n > 0) => bdb = committed
        BY <1>0, <2>3 DEF PlainInv, Has, FilesTypeOK
      <4>3. QED
        BY <1>0, <2>3, <4>1, <4>2 DEF PlainInv, Has
    <3>4. QED
      BY <3>2, <3>3 DEF Files!Recoverable, next
  <2>4. QED
    BY <2>2, <2>3
<1>4. Files!NothingLost
  <2>1. CASE backend = "lmdb"
    BY <1>0, <2>1 DEF Files!NothingLost, Files!Active, PlainInv, EncryptedInv, Has
  <2>2. CASE backend = "bdb" /\ stage = "running"
    <3>1. marker = "none" /\ dir["main"] = Files!Absent /\ ~Has("main")
      BY <1>0, <1>2, <2>2 DEF BackendInv, Has
    <3>2. ~encrypted /\ bdb = committed
      BY <1>0, <3>1, <2>2 DEF PlainInv, EncryptedInv
    <3>3. QED
      BY <2>2, <3>2 DEF Files!NothingLost, Files!Active
  <2>3. QED
    BY <1>0, <2>1, <2>2 DEF Files!NothingLost, FilesTypeOK
<1>5. Files!CompactionLasts
  <2>1. ASSUME compacted, NEW d \in Files!Names, Files!IsEnv(dir[d])
        PROVE  ~dir[d].plain
    BY <1>0, <1>1, <1>2, <2>1 DEF EncryptedInv, RewriteInv
  <2>2. QED
    BY <2>1 DEF Files!CompactionLasts
<1>6. Files!NeverDeclaredMissing
  BY <1>0 DEF BackendInv
<1>7. QED
  BY <1>3, <1>4, <1>5, <1>6 DEF FilesRecoverable

-----------------------------------------------------------------------------
(* The layers together: a step is one of a single layer. *)

LEMMA StorageSteps ==
    [Next]_vars => /\ [Handles!Next]_handlesVars
                   /\ [Stopping!StopNext]_stopVars
                   /\ [Files!Next]_filesVars
BY DEF Next, vars, EnvStep, FilesStep, HandlesStep, ShutdownStep, Terminated

(* In every behaviour nobody has a handle while the wallet is copied, closed  *)
(* or replaced, and no thread works when Shutdown closes the databases.       *)
THEOREM QuietStorage == Spec => []QuietWhenClosed
<1>1. Init => HandlesInv /\ StopInv
  BY HandlesInitInv, StopInitInv DEF Init
<1>2. HandlesInv /\ StopInv /\ [Next]_vars => (HandlesInv /\ StopInv)'
  BY StorageSteps, HandlesStepInv, StopStepInv
<1>3. HandlesInv /\ StopInv => QuietWhenClosed
  BY HandlesAlone, StopQuiet DEF QuietWhenClosed
<1>4. QED
  BY <1>1, <1>2, <1>3, PTL DEF Spec

(* However the process is stopped or a file system call fails, in migration,  *)
(* rewrite and start, the records of a database are where the next start      *)
(* looks, a process that runs has all of them, and a rewrite that succeeded   *)
(* leaves no clear key.  The copies of mdb_env_copy2 are taken to open: one   *)
(* that does not, and a crash before it is found out, is the exception.       *)
THEOREM FilesSafe ==
    ASSUME ~UnusableCopies
    PROVE  Spec => []FilesRecoverable
<1>1. Init => FilesInv
  BY FilesInitInv DEF Init
<1>2. FilesInv /\ [Next]_vars => FilesInv'
  BY StorageSteps, FilesStepInv
<1>3. FilesInv => FilesRecoverable
  BY FilesInvSafe
<1>4. QED
  BY <1>1, <1>2, <1>3, PTL DEF Spec

=============================================================================
