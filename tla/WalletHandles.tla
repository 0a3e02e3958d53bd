--------------------------- MODULE WalletHandles ---------------------------
(***************************************************************************)
(* Who may use the wallet database while it is copied or replaced: the     *)
(* handles of CDB, counted, the lock backup and rewrite hold, and          *)
(* cs_wallet (db.cpp CDB::CDB, CDB::Close, BackupLMDBWallet,               *)
(* RewriteWalletLMDB, CDB::Rewrite; the callers in wallet.cpp, walletdb.cpp, *)
(* rpcwallet.cpp and qt/walletmodel.cpp).  A caller is the sequence of its *)
(* operations on these; what it reads and writes is left out.              *)
(***************************************************************************)
EXTENDS Integers, Sequences, FiniteSets

CONSTANTS
    Threads,
    Callers,   \* the callers that may run, a subset of DOMAIN Script
    MaxCalls   \* bound on the calls of a thread

(* The calls that use the wallet database, each the operations it performs.  *)
(*   lock, unlock    cs_wallet (with cs_main where the caller takes both)     *)
(*   open, close     a CDB handle                                            *)
(*   drain, release  the lifecycle lock, once no handle is open              *)
(*   copy            mdb_env_copy2 of the open environment                   *)
(*   shut, reopen    the environment is closed, replaced and opened again    *)
SetBestChain == <<"open", "close">>
KeepKey == <<"open", "close">>
(* Locked by the RPC dispatcher.  A second handle is opened in the pool.     *)
GetAccountAddress == <<"lock", "open", "open", "close", "close", "unlock">>
ReserveKeyFromKeyPool == <<"lock", "open", "close", "unlock">>
(* The handle is opened before the locks are taken. *)
GetAllReserveKeys == <<"open", "lock", "unlock", "close">>
(* From the GUI, with no lock, and from backupwallet. *)
CloneWallet == <<"drain", "copy", "release">>
BackupWallet == <<"lock">> \o CloneWallet \o <<"unlock">>
(* The transaction, the new key pool, and the rewrite, all under cs_wallet.  *)
EncryptWallet ==
    <<"lock", "open", "close", "open", "close", "drain", "copy", "shut", "reopen", "release",
      "unlock">>

Script == [SetBestChain |-> SetBestChain, KeepKey |-> KeepKey,
           GetAccountAddress |-> GetAccountAddress,
           ReserveKeyFromKeyPool |-> ReserveKeyFromKeyPool,
           GetAllReserveKeys |-> GetAllReserveKeys, CloneWallet |-> CloneWallet,
           BackupWallet |-> BackupWallet, EncryptWallet |-> EncryptWallet]

HandlesAssumption ==
    /\ IsFiniteSet(Threads)
    /\ Callers \subseteq DOMAIN Script
    /\ MaxCalls \in Nat

VARIABLES
    todo,      \* what is left of each thread's call
    calls,     \* how many calls each thread has made
    csWallet,  \* the threads inside cs_wallet
    mutexKV,   \* the threads inside g_mutexWalletKV
    nHandles,  \* the handles each thread has open
    isOpen,    \* the environment is open
    fShutdown

vars == <<todo, calls, csWallet, mutexKV, nHandles, isOpen, fShutdown>>

Init ==
    /\ todo = [t \in Threads |-> <<>>]
    /\ calls = [t \in Threads |-> 0]
    /\ csWallet = {} /\ mutexKV = {}
    /\ nHandles = [t \in Threads |-> 0]
    /\ isOpen = TRUE
    /\ fShutdown = FALSE

NoHandle == \A t \in Threads : nHandles[t] = 0

Call(t, c) ==
    /\ todo[t] = <<>>
    /\ calls[t] < MaxCalls
    /\ ~fShutdown
    /\ todo' = [todo EXCEPT ![t] = Script[c]]
    /\ calls' = [calls EXCEPT ![t] = @ + 1]
    /\ UNCHANGED <<csWallet, mutexKV, nHandles, isOpen, fShutdown>>

Does(t, o) ==
    /\ todo[t] # <<>> /\ Head(todo[t]) = o
    /\ todo' = [todo EXCEPT ![t] = Tail(@)]
    /\ UNCHANGED <<calls, fShutdown>>

Lock(t) ==
    /\ Does(t, "lock")
    /\ csWallet = {} /\ csWallet' = {t}
    /\ UNCHANGED <<mutexKV, nHandles, isOpen>>

Unlock(t) ==
    /\ Does(t, "unlock")
    /\ csWallet' = csWallet \ {t}
    /\ UNCHANGED <<mutexKV, nHandles, isOpen>>

(* Mutant: the count is raised without the lock. *)
OpenHandle_Unlocked(t) ==
    /\ Does(t, "open")
    /\ nHandles' = [nHandles EXCEPT ![t] = @ + 1]
    /\ UNCHANGED <<csWallet, mutexKV, isOpen>>

(* CDB::CDB *)
OpenHandle(t) ==
    /\ Does(t, "open")
    /\ mutexKV = {}
    /\ nHandles' = [nHandles EXCEPT ![t] = @ + 1]
    /\ UNCHANGED <<csWallet, mutexKV, isOpen>>

(* Mutant: a handle that is closed is not counted down. *)
CloseHandle_Uncounted(t) ==
    /\ Does(t, "close")
    /\ UNCHANGED <<csWallet, mutexKV, isOpen, nHandles>>

(* CDB::Close *)
CloseHandle(t) ==
    /\ Does(t, "close")
    /\ nHandles' = [nHandles EXCEPT ![t] = @ - 1]
    /\ UNCHANGED <<csWallet, mutexKV, isOpen>>

(* The lock is taken and kept through the wait for the handles. *)
TakeLifecycleLock(t) ==
    /\ todo[t] # <<>> /\ Head(todo[t]) = "drain"
    /\ mutexKV = {} /\ mutexKV' = {t}
    /\ UNCHANGED <<todo, calls, csWallet, nHandles, isOpen, fShutdown>>

(* No handle is open any more. *)
Drained(t) ==
    /\ Does(t, "drain")
    /\ mutexKV = {t}
    /\ NoHandle
    /\ UNCHANGED <<csWallet, mutexKV, nHandles, isOpen>>

(* The waiting call sees fShutdown, fails, and leaves with its locks. *)
GiveUp(t) ==
    /\ todo[t] # <<>> /\ Head(todo[t]) = "drain"
    /\ fShutdown
    /\ todo' = [todo EXCEPT ![t] = <<>>]
    /\ csWallet' = csWallet \ {t}
    /\ mutexKV' = mutexKV \ {t}
    /\ UNCHANGED <<calls, nHandles, isOpen, fShutdown>>

Copy(t) ==
    /\ Does(t, "copy")
    /\ UNCHANGED <<csWallet, mutexKV, nHandles, isOpen>>

Shut(t) ==
    /\ Does(t, "shut")
    /\ isOpen' = FALSE
    /\ UNCHANGED <<csWallet, mutexKV, nHandles>>

Reopen(t) ==
    /\ Does(t, "reopen")
    /\ isOpen' = TRUE
    /\ UNCHANGED <<csWallet, mutexKV, nHandles>>

Release(t) ==
    /\ Does(t, "release")
    /\ mutexKV' = mutexKV \ {t}
    /\ UNCHANGED <<csWallet, nHandles, isOpen>>

StartShutdown ==
    /\ ~fShutdown
    /\ fShutdown' = TRUE
    /\ UNCHANGED <<todo, calls, csWallet, mutexKV, nHandles, isOpen>>

Step(t) ==
    \/ Lock(t) \/ Unlock(t) \/ OpenHandle(t) \/ CloseHandle(t) \/ TakeLifecycleLock(t)
    \/ Drained(t) \/ GiveUp(t) \/ Copy(t) \/ Shut(t) \/ Reopen(t) \/ Release(t)

Next ==
    \/ StartShutdown
    \/ \E t \in Threads : Step(t) \/ \E c \in Callers : Call(t, c)

Spec == Init /\ [][Next]_vars

(* The operating system runs every thread; a lock that is given back again    *)
(* and again is got by each who waits for it.  Nothing makes the user quit.    *)
FairSpec == Spec /\ \A t \in Threads : SF_vars(Step(t))

-----------------------------------------------------------------------------
(* Properties *)

(* The variables have their types: handle count, lock holders and positions of    *)
(* the callers in their code.                                                     *)
TypeOK ==
    /\ todo \in [Threads -> Seq({"lock", "unlock", "open", "close", "drain", "copy", "shut",
                                 "reopen", "release"})]
    /\ calls \in [Threads -> 0 .. MaxCalls]
    /\ csWallet \subseteq Threads /\ mutexKV \subseteq Threads
    /\ nHandles \in [Threads -> 0 .. 2]
    /\ isOpen \in BOOLEAN /\ fShutdown \in BOOLEAN

(* While the environment is copied, closed or replaced nobody has a handle:   *)
(* no transaction can reach a closed environment or be missed by the copy.    *)
CopiedAlone ==
    \A t \in Threads :
        todo[t] # <<>> /\ Head(todo[t]) \in {"copy", "shut", "reopen"} => NoHandle

(* A call that waits for the handles to drain gets on, if the user does not   *)
(* quit: backup and encryption end, and so does everyone who waits for them.  *)
HandlesDrain ==
    \A t \in Threads : (todo[t] # <<>> /\ Head(todo[t]) = "drain") ~> todo[t] = <<>>
=============================================================================
