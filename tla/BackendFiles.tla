---------------------------- MODULE BackendFiles ----------------------------
(***************************************************************************)
(* Which database holds the wallet, or the chain index, across crashes,    *)
(* failures and changes of -walletbackend / -dbbackend: the backend marker *)
(* file, the migration from Berkeley DB, the compaction that follows       *)
(* wallet encryption and its recovery at startup (db.cpp, wallet.cpp       *)
(* EncryptWallet).  The contents of a database are the number of commits   *)
(* it holds; `committed` counts the commits that were ever acknowledged.   *)
(* A process that exits may be started again; every step may be its last.  *)
(***************************************************************************)
EXTENDS Integers

CONSTANTS
    Stores,         \* the databases looked at: "wallet", "chain" (the block index)
    MaxCommits,     \* bound on the commits of a behaviour
    Faults,         \* file system calls and transactions may fail
    UnusableCopies  \* mdb_env_copy2 may leave a copy that does not open

BackendAssumption ==
    /\ Stores \subseteq {"wallet", "chain"} /\ Faults \in BOOLEAN /\ UnusableCopies \in BOOLEAN
    /\ MaxCommits \in Nat \ {0}

VARIABLES
    store,     \* which database this is
    dir,       \* LMDB directories: wallet/ (or blkindex/), wallet.rewrite/, wallet.old/
    bdb,       \* wallet.dat (blkindex.dat): the commits it holds, 0 when there is no file
    marker,    \* wallet.backend
    tmp,       \* wallet.backend.tmp exists
    pc,
    backend,   \* of the running process
    refusal,   \* why the last start was refused
    committed,
    encrypted, \* EncryptWallet committed
    compacted  \* RewriteWalletLMDB returned true since

disk == <<dir, bdb, marker, tmp>>
truth == <<store, committed, encrypted, compacted>>
vars == <<disk, pc, backend, refusal, truth>>

IsWallet == store = "wallet"

Names == {"main", "rewrite", "old"}
(* plain: pages of the file, free ones included, hold private keys in clear *)
Dir == [kind : {"absent", "partial", "env"}, n : 0 .. MaxCommits, plain : BOOLEAN, ok : BOOLEAN]
Absent == [kind |-> "absent", n |-> 0, plain |-> FALSE, ok |-> FALSE]
\* A directory without a whole data.mdb.
Partial == [kind |-> "partial", n |-> 0, plain |-> FALSE, ok |-> FALSE]
Filled(n, plain, ok) == [kind |-> "env", n |-> n, plain |-> plain, ok |-> ok]
IsEnv(d) == d.kind = "env"

(* A new data directory, or one of a Berkeley DB release. *)
Init ==
    /\ store \in Stores
    /\ dir = [d \in Names |-> Absent]
    /\ bdb \in 0 .. 1
    /\ marker = "none" /\ tmp = FALSE
    /\ pc = "off" /\ backend = "lmdb" /\ refusal = "none"
    /\ committed = bdb
    /\ encrypted = FALSE /\ compacted = FALSE

Goto(l) == pc' = l
(* The start fails, or the process leaves with exit(1). *)
Exit(why) == pc' = "off" /\ refusal' = why

-----------------------------------------------------------------------------
(* File system *)

HasLMDB == IsEnv(dir["main"])

(* What remove_all may leave behind. *)
RemoveAll(d) == {Absent} \cup IF Faults /\ dir[d] # Absent THEN {dir[d], Partial} ELSE {}

Rename(from, to) ==
    /\ dir[from] # Absent /\ dir[to] = Absent
    /\ dir' = [dir EXCEPT ![to] = dir[from], ![from] = Absent]

(* rename() fails when it does, and when the target is in the way. *)
RenameFails(to) == Faults \/ dir[to] # Absent

-----------------------------------------------------------------------------
(* Start *)

CheckBackendCompatibility(b) ==
    IF marker = "lmdb" THEN b = "lmdb"
    ELSE dir["main"] = Absent \/ (IsEnv(dir["main"]) /\ b = "lmdb")

Start(b) ==
    /\ pc = "off"
    /\ CheckBackendCompatibility(b)
    /\ backend' = b
    /\ refusal' = "none"
    /\ Goto(IF b = "bdb" THEN "load" ELSE IF IsWallet THEN "recover" ELSE "inspect")
    /\ UNCHANGED <<disk, truth>>

StartRefused(b) ==
    /\ pc = "off"
    /\ ~CheckBackendCompatibility(b)
    /\ Exit(IF marker = "none" /\ dir["main"] = Partial THEN "incomplete" ELSE "backend")
    /\ UNCHANGED <<disk, backend, truth>>

(* The directory recovery puts back: the compacted copy if there is one. *)
Staged == IF dir["rewrite"] # Absent THEN "rewrite" ELSE "old"

(* RecoverInterruptedWalletRewrite: the renames *)
Recover ==
    /\ pc = "recover"
    /\ tmp' = FALSE
    /\ \/ /\ dir["main"] = Absent /\ dir[Staged] # Absent
          /\ Rename(Staged, "main")
       \/ /\ dir["main"] # Absent \/ dir[Staged] = Absent \/ Faults
          /\ UNCHANGED dir
    /\ Goto("clean")
    /\ UNCHANGED <<bdb, marker, backend, refusal, truth>>

(* Mutant: the staging directories go even when nothing was put in place. *)
RemoveStaging_Always ==
    /\ pc = "clean"
    /\ \E r \in RemoveAll("rewrite"), o \in RemoveAll("old") :
           dir' = [dir EXCEPT !["rewrite"] = r, !["old"] = o]
    /\ Goto("inspect")
    /\ UNCHANGED <<bdb, marker, tmp, backend, refusal, truth>>

(* RecoverInterruptedWalletRewrite: what is left of a rewrite is superseded. *)
RemoveStaging ==
    /\ pc = "clean"
    /\ IF dir["main"] # Absent
         THEN \E r \in RemoveAll("rewrite"), o \in RemoveAll("old") :
                  dir' = [dir EXCEPT !["rewrite"] = r, !["old"] = o]
         ELSE UNCHANGED dir
    /\ Goto("inspect")
    /\ UNCHANGED <<bdb, marker, tmp, backend, refusal, truth>>

(* A marker without an environment: the start ends here. *)
MarkedButMissing ==
    /\ pc = "inspect"
    /\ marker = "lmdb" /\ ~HasLMDB
    /\ Exit("missing")
    /\ UNCHANGED <<disk, backend, truth>>

(* CLMDBEnv::Open creates the directory ... *)
CreateDirectory ==
    /\ pc = "inspect"
    /\ ~(marker = "lmdb" /\ ~HasLMDB)
    /\ dir' = [dir EXCEPT !["main"] = IF @ = Absent THEN Partial ELSE @]
    /\ Goto("open")
    /\ UNCHANGED <<bdb, marker, tmp, backend, refusal, truth>>

(* ... and then data.mdb in it. *)
OpenEnvironment ==
    /\ pc = "open"
    /\ HasLMDB => dir["main"].ok
    /\ dir' = [dir EXCEPT !["main"] = IF HasLMDB THEN @ ELSE Filled(0, FALSE, TRUE)]
    /\ Goto("choose")
    /\ UNCHANGED <<bdb, marker, tmp, backend, refusal, truth>>

(* mdb_env_open, OpenDbi or the inspection for emptiness fails. *)
OpenFails ==
    /\ pc = "open"
    /\ Faults \/ (HasLMDB /\ ~dir["main"].ok)
    /\ Exit("error")
    /\ UNCHANGED <<disk, backend, truth>>

(* GetWalletStartupAction, GetChainIndexStartupAction *)
StartupAction ==
    IF dir["main"].n > 0 THEN "use"
    ELSE IF marker = "lmdb" THEN "missing"
    ELSE IF bdb > 0 THEN "migrate" ELSE "use"

EmptyButMarked ==
    /\ pc = "choose"
    /\ StartupAction = "missing"
    /\ Exit("missing")
    /\ UNCHANGED <<disk, backend, truth>>

UseExisting ==
    /\ pc = "choose"
    /\ StartupAction = "use"
    /\ Goto("mark")
    /\ UNCHANGED <<disk, backend, refusal, truth>>

(* MigrateWalletToLMDB, MigrateToLMDB: one transaction for all the records. *)
Migrate ==
    /\ pc = "choose"
    /\ StartupAction = "migrate"
    /\ dir' = [dir EXCEPT !["main"] = Filled(bdb, IsWallet, TRUE)]
    /\ Goto("mark")
    /\ UNCHANGED <<bdb, marker, tmp, backend, refusal, truth>>

(* The transaction is aborted; the wallet's fresh environment is removed too. *)
MigrateFails ==
    /\ pc = "choose"
    /\ StartupAction = "migrate" /\ Faults
    /\ \E d \in (IF IsWallet THEN RemoveAll("main") ELSE {dir["main"]}) :
           dir' = [dir EXCEPT !["main"] = d]
    /\ Exit("error")
    /\ UNCHANGED <<bdb, marker, tmp, backend, truth>>

(* WriteWalletBackendMarker: the temporary file, then the rename. *)
WriteMarker ==
    /\ pc = "mark"
    /\ tmp' = TRUE
    /\ Goto("rename")
    /\ UNCHANGED <<dir, bdb, marker, backend, refusal, truth>>

RenameMarker ==
    /\ pc = "rename"
    /\ tmp' = FALSE /\ marker' = "lmdb"
    /\ Goto("load")
    /\ UNCHANGED <<dir, bdb, backend, refusal, truth>>

(* A rename that fails is tried again without the old marker in its place. *)
MarkerFails ==
    /\ pc \in {"mark", "rename"}
    /\ Faults
    /\ tmp' = FALSE
    /\ marker' = IF pc = "rename" THEN "none" ELSE marker
    /\ Exit("error")
    /\ UNCHANGED <<dir, bdb, backend, truth>>

-----------------------------------------------------------------------------
(* Running *)

(* The records of the database in use. *)
Active == IF backend = "bdb" THEN bdb ELSE dir["main"].n

(* A durable transaction of the backend in use. *)
Store ==
    /\ committed < MaxCommits
    /\ committed' = committed + 1
    /\ IF backend = "bdb"
         THEN bdb' = Active + 1 /\ UNCHANGED dir
         ELSE /\ dir' = [dir EXCEPT !["main"] =
                             Filled(@.n + 1, @.plain \/ (IsWallet /\ ~encrypted), @.ok)]
              /\ UNCHANGED bdb
    /\ UNCHANGED <<marker, tmp>>

(* The CDB constructor writes the version into an empty database: the first  *)
(* record of a new wallet or index.                                          *)
Load ==
    /\ pc = "load"
    /\ IF Active = 0 THEN Store ELSE UNCHANGED <<disk, committed>>
    /\ Goto("running")
    /\ UNCHANGED <<backend, refusal, store, encrypted, compacted>>

Commit ==
    /\ pc = "running"
    /\ Store
    /\ UNCHANGED <<pc, backend, refusal, store, encrypted, compacted>>

(* EncryptWallet: all the keys in one transaction.  LMDB copies on write, so  *)
(* the clear ones stay in free pages until the environment is rewritten.     *)
EncryptWallet ==
    /\ pc = "running"
    /\ IsWallet /\ backend = "lmdb" /\ ~encrypted
    /\ committed < MaxCommits
    /\ committed' = committed + 1
    /\ dir' = [dir EXCEPT !["main"] = Filled(@.n + 1, @.plain, @.ok)]
    /\ encrypted' = TRUE
    /\ Goto("stage")
    /\ UNCHANGED <<bdb, marker, tmp, backend, refusal, store, compacted>>

Stop ==
    /\ pc # "off"
    /\ Exit("none")
    /\ UNCHANGED <<disk, backend, truth>>

-----------------------------------------------------------------------------
(* RewriteWalletLMDB.  EncryptWallet leaves with exit(1) when it fails. *)

Stage ==
    /\ pc = "stage"
    /\ \E r \in RemoveAll("rewrite"), o \in RemoveAll("old") :
           dir' = [dir EXCEPT !["rewrite"] = IF r = Absent THEN Partial ELSE r,
                              !["old"] = o]
    /\ Goto("copy")
    /\ UNCHANGED <<bdb, marker, tmp, backend, refusal, truth>>

(* mdb_env_copy2 with MDB_CP_COMPACT: no free page is copied. *)
Copy ==
    /\ pc = "copy"
    /\ ~IsEnv(dir["rewrite"])
    /\ \E usable \in {TRUE, ~UnusableCopies} :
           dir' = [dir EXCEPT !["rewrite"] =
                       Filled(dir["main"].n, FALSE, usable)]
    /\ Goto("aside")
    /\ UNCHANGED <<bdb, marker, tmp, backend, refusal, truth>>

CopyFails ==
    /\ pc = "copy"
    /\ Faults \/ IsEnv(dir["rewrite"])
    /\ \E r \in RemoveAll("rewrite") : dir' = [dir EXCEPT !["rewrite"] = r]
    /\ Exit("error")
    /\ UNCHANGED <<bdb, marker, tmp, backend, truth>>

MoveAside ==
    /\ pc = "aside"
    /\ Rename("main", "old")
    /\ Goto("install")
    /\ UNCHANGED <<bdb, marker, tmp, backend, refusal, truth>>

MoveAsideFails ==
    /\ pc = "aside"
    /\ RenameFails("old")
    /\ \E r \in RemoveAll("rewrite") : dir' = [dir EXCEPT !["rewrite"] = r]
    /\ Exit("error")
    /\ UNCHANGED <<bdb, marker, tmp, backend, truth>>

Install ==
    /\ pc = "install"
    /\ Rename("rewrite", "main")
    /\ Goto("reopen")
    /\ UNCHANGED <<bdb, marker, tmp, backend, refusal, truth>>

(* The old environment is put back, or nothing more can be done. *)
InstallFails ==
    /\ pc = "install"
    /\ Faults
    /\ \/ Rename("old", "main") /\ Goto("discard") /\ UNCHANGED refusal
       \/ UNCHANGED dir /\ Exit("error")
    /\ UNCHANGED <<bdb, marker, tmp, backend, truth>>

Reopen ==
    /\ pc = "reopen"
    /\ dir["main"].ok
    /\ Goto("dispose")
    /\ UNCHANGED <<disk, backend, refusal, truth>>

(* The installed copy does not open: it is parked ... *)
Park ==
    /\ pc = "reopen"
    /\ Faults \/ ~dir["main"].ok
    /\ \/ Rename("main", "rewrite") /\ Goto("restore") /\ UNCHANGED refusal
       \/ Faults /\ UNCHANGED dir /\ Exit("error")
    /\ UNCHANGED <<bdb, marker, tmp, backend, truth>>

(* ... and the old environment put back. *)
Restore ==
    /\ pc = "restore"
    /\ \/ Rename("old", "main") /\ Goto("discard") /\ UNCHANGED refusal
       \/ Faults /\ UNCHANGED dir /\ Exit("error")
    /\ UNCHANGED <<bdb, marker, tmp, backend, truth>>

(* The old environment opens again: the copy goes and the rewrite has failed. *)
Discard ==
    /\ pc = "discard"
    /\ \E r \in RemoveAll("rewrite") : dir' = [dir EXCEPT !["rewrite"] = r]
    /\ Exit("error")
    /\ UNCHANGED <<bdb, marker, tmp, backend, truth>>

Dispose ==
    /\ pc = "dispose"
    /\ \E o \in RemoveAll("old") :
           /\ dir' = [dir EXCEPT !["old"] = o]
           /\ \/ o = Absent /\ compacted' = TRUE /\ Goto("running") /\ UNCHANGED refusal
              \/ o # Absent /\ Exit("error") /\ UNCHANGED compacted
    /\ UNCHANGED <<bdb, marker, tmp, backend, store, committed, encrypted>>

-----------------------------------------------------------------------------
Startup ==
    \/ Recover \/ RemoveStaging \/ MarkedButMissing \/ CreateDirectory
    \/ OpenEnvironment \/ OpenFails \/ EmptyButMarked \/ UseExisting
    \/ Migrate \/ MigrateFails \/ WriteMarker \/ RenameMarker \/ MarkerFails \/ Load

RewriteWalletLMDB ==
    \/ Stage \/ Copy \/ CopyFails \/ MoveAside \/ MoveAsideFails \/ Install \/ InstallFails
    \/ Reopen \/ Park \/ Restore \/ Discard \/ Dispose

Next ==
    \/ \E b \in {"lmdb", "bdb"} : Start(b) \/ StartRefused(b)
    \/ Startup
    \/ Commit \/ EncryptWallet
    \/ RewriteWalletLMDB
    \/ Stop

Spec == Init /\ [][Next]_vars

-----------------------------------------------------------------------------
(* Properties *)

(* The variables have their types: the file system is in one of the states the   *)
(* markers, renames and removals of db.cpp can leave.                            *)
TypeOK ==
    /\ dir \in [Names -> Dir]
    /\ bdb \in 0 .. MaxCommits
    /\ marker \in {"none", "lmdb"} /\ tmp \in BOOLEAN
    /\ pc \in {"off", "recover", "clean", "inspect", "open", "choose", "mark", "rename",
               "load", "running", "stage", "copy", "aside", "install", "reopen", "restore",
               "discard", "dispose"}
    /\ backend \in {"lmdb", "bdb"}
    /\ refusal \in {"none", "backend", "incomplete", "missing", "error"}
    /\ committed \in 0 .. MaxCommits
    /\ encrypted \in BOOLEAN /\ compacted \in BOOLEAN

(* Whatever crashed or failed, and whichever backend is asked for, a process  *)
(* that gets to run has every record ever committed: neither a stale copy,    *)
(* nor the Berkeley DB file a migration left behind, nor a fresh database.    *)
NothingLost == pc = "running" => Active = committed

(* While the process is down its records are somewhere it will look: in the   *)
(* main directory, or in the one recovery puts back, or still in the          *)
(* Berkeley DB file.                                                          *)
Recoverable ==
    pc = "off" =>
        LET next == IF dir["main"] # Absent THEN "main" ELSE Staged
        IN  IF IsEnv(dir[next]) /\ dir[next].n > 0
              THEN dir[next].n = committed /\ dir[next].ok
              ELSE bdb = committed

(* The database is declared missing only if it never held a record, or if     *)
(* recovery could not put the staged directory back, which is kept.           *)
NeverDeclaredMissing ==
    refusal = "missing" => committed = 0 \/ (dir["main"] = Absent /\ dir[Staged] # Absent)

(* Once the rewrite after encryption has succeeded no directory holds clear   *)
(* keys, however the process is stopped and started.                          *)
CompactionLasts == compacted => \A d \in Names : IsEnv(dir[d]) => ~dir[d].plain

(* "startup finishes or repairs an interrupted rewrite": an encrypted wallet  *)
(* in use has no page with clear keys.                                        *)
PlaintextGone ==
    pc = "running" /\ encrypted => \A d \in Names : IsEnv(dir[d]) => ~dir[d].plain
=============================================================================
