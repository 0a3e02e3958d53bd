----------------------------- MODULE MCStorage -----------------------------
(***************************************************************************)
(* The layers below the wallet and the block index, for TLC: the LMDB      *)
(* environment (LmdbEnv), the files a database is kept in (BackendFiles),  *)
(* the handles on the wallet (WalletHandles), and the shutdown that closes *)
(* them (Shutdown).  Each is examined by itself: part says which one moves *)
(* in a behaviour, the others stay as they start.  The environment's       *)
(* property, GrowthSafe, is that of LmdbEnv.                               *)
(***************************************************************************)
EXTENDS LmdbEnv

CONSTANTS Stores, MaxCommits, Faults, UnusableCopies,
          WalletThreads, Callers, MaxCalls, Clients

VARIABLES
    part,
    store, dir, bdb, marker, tmp, stage, backend, refusal, committed, encrypted, compacted,
    todo, calls, csWallet, mutexKV, nHandles, isOpen, quitting,
    stop, fShutdown, fRequestShutdown, running, msg, listener, handler, fRun

Files == INSTANCE BackendFiles WITH pc <- stage
Handles == INSTANCE WalletHandles WITH Threads <- WalletThreads, fShutdown <- quitting
Stopping == INSTANCE Shutdown

\* The constants are such as the modules expect.
ASSUME StorageAssumption ==
    Files!BackendAssumption /\ Handles!HandlesAssumption /\ Stopping!ShutdownAssumption

filesVars == <<store, dir, bdb, marker, tmp, stage, backend, refusal, committed, encrypted,
               compacted>>
handlesVars == <<todo, calls, csWallet, mutexKV, nHandles, isOpen, quitting>>
stopVars == <<stop, fShutdown, fRequestShutdown, running, msg, listener, handler, fRun>>
vars == <<part, envVars, filesVars, handlesVars, stopVars>>

Init ==
    /\ part \in {"env", "files", "handles", "shutdown"}
    /\ EnvInit /\ Files!Init /\ Handles!Init /\ Stopping!StopInit
    /\ part # "files" => store = "wallet" /\ bdb = 0

EnvStep(A) == part = "env" /\ A /\ UNCHANGED <<part, filesVars, handlesVars, stopVars>>
FilesStep == part = "files" /\ Files!Next /\ UNCHANGED <<part, envVars, handlesVars, stopVars>>
HandlesStep(A) == part = "handles" /\ A /\ UNCHANGED <<part, envVars, filesVars, stopVars>>
ShutdownStep(A) == part = "shutdown" /\ A /\ UNCHANGED <<part, envVars, filesVars, handlesVars>>

\* Every call has been made and every thread is done; the process has exited.
Terminated ==
    \/ HandlesStep((\A t \in WalletThreads : todo[t] = <<>>) /\ UNCHANGED handlesVars)
    \/ ShutdownStep(stop = "exited" /\ UNCHANGED stopVars)

Next ==
    \/ EnvStep(EnvNext) \/ FilesStep \/ HandlesStep(Handles!Next) \/ ShutdownStep(Stopping!StopNext)
    \/ Terminated

\* The fairness of the layers' own specifications.
Spec ==
    /\ Init /\ [][Next]_vars
    /\ \A t \in Threads : WF_vars(EnvStep(Progress(t))) /\ SF_vars(EnvStep(Drained(t)))
    /\ \A t \in WalletThreads : SF_vars(HandlesStep(Handles!Step(t)))
    /\ WF_vars(ShutdownStep(Stopping!MessageThread)) /\ WF_vars(ShutdownStep(Stopping!ListenerThread))
    /\ \A c \in Clients : WF_vars(ShutdownStep(Stopping!HandlerThread(c)))
    /\ WF_vars(ShutdownStep(Stopping!ShutdownThread))

-----------------------------------------------------------------------------
(* Properties *)

(* Through migration, rewrite, failing file system calls and crashes the      *)
(* records are where the next start looks, a process that runs has all of     *)
(* them, and a rewrite that succeeded leaves no clear key (db.cpp).           *)
FilesRecoverable ==
    Files!Recoverable /\ Files!NothingLost /\ Files!NeverDeclaredMissing /\ Files!CompactionLasts

(* Nobody has a handle while the wallet is copied, closed or replaced, and    *)
(* when Shutdown closes the databases and deletes the wallet no thread is in  *)
(* the middle of a message or a command, and none can begin (db.cpp:1597,     *)
(* rpcmain.cpp:1303).                                                         *)
QuietWhenClosed == Handles!CopiedAlone /\ Stopping!QuietAfterStop

(* Whoever waits for the others gets on: a writer for the transactions to     *)
(* end, to resize the map; a backup or an encryption for the handles to       *)
(* drain, if the user does not quit; the shutdown for every thread, unless a  *)
(* client keeps its connection open and silent (lmdbdb.cpp, db.cpp,           *)
(* init.cpp).                                                                 *)
WaitsEnd == GrowthEnds /\ Handles!HandlesDrain /\ Stopping!ShutdownEnds
=============================================================================
