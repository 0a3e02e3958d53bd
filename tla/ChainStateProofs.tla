-------------------------- MODULE ChainStateProofs --------------------------
(***************************************************************************)
(* Theorems about ChainState for every tree of blocks, every choice of     *)
(* refused and doubtful blocks, of checkpoints and of errors, and any      *)
(* number of crashes; and about ImportBatch for every limit of a batch:    *)
(* memory is the disk between handlers, and every durable change is one    *)
(* atomic step of the ledger.                                              *)
(***************************************************************************)
EXTENDS ImportBatch, OrderLemmas, FiniteSetTheorems

-----------------------------------------------------------------------------
(* What every tree of blocks has: branches are closed, rooted in the genesis *)
(* block and linearly ordered, and work grows along them.  Each is proved by *)
(* induction over the work of a block.                                       *)

(* Branches and predecessors stay in the tree. *)
LEMMA TreeType ==
    /\ \A b \in AllBlocks : /\ Branch[b] \subseteq AllBlocks
                            /\ b \in Branch[b]
                            /\ ChainWork[b] \in Nat
                            /\ b # Genesis => b \in Blocks
    /\ \A b \in Blocks : Prev[b] \in AllBlocks /\ b \in AllBlocks
    /\ Genesis \in AllBlocks
<1>1. \A b \in AllBlocks : b \in Branch[b]
  BY BranchAssumption DEF AllBlocks
<1> QED
  BY <1>1, TreeAssumption DEF AllBlocks

(* A set that holds the genesis block, and every block whose predecessor it  *)
(* holds, holds every block.                                                 *)
LEMMA TreeInduction ==
    ASSUME NEW S, Genesis \in S,
           \A b \in Blocks : Prev[b] \in S => b \in S
    PROVE  AllBlocks \subseteq S
<1>1. SUFFICES ASSUME AllBlocks \ S # {} PROVE FALSE
  OBVIOUS
<1> DEFINE W == {ChainWork[b] : b \in AllBlocks \ S}
<1>2. W \subseteq Nat /\ W # {}
  BY <1>1, TreeType
<1>3. PICK m \in W : \A n \in W : m <= n
  <2> HIDE DEF W
  <2> QED BY <1>2, LeastNatural
<1>4. PICK b \in AllBlocks \ S : m = ChainWork[b]
  OBVIOUS
<1>5. b \in Blocks
  BY TreeType
<1>6. Prev[b] \in AllBlocks \ S
  BY <1>5, TreeType
<1>7. ChainWork[Prev[b]] \in W
  BY <1>6
<1>8. ChainWork[Prev[b]] < ChainWork[b]
  BY <1>5, BranchAssumption
<1>9. ChainWork[b] <= ChainWork[Prev[b]]
  BY <1>3, <1>4, <1>7
<1> QED
  BY <1>8, <1>9, <1>6, TreeType

(* Every branch is rooted in the genesis block. *)
LEMMA Rooted == \A b \in AllBlocks : Genesis \in Branch[b]
<1> DEFINE S == {b \in AllBlocks : Genesis \in Branch[b]}
<1>1. Genesis \in S
  BY TreeType
<1>2. \A b \in Blocks : Prev[b] \in S => b \in S
  BY TreeType, BranchAssumption
<1>3. AllBlocks \subseteq S
  <2> HIDE DEF S
  <2> QED BY <1>1, <1>2, TreeInduction
<1> QED BY <1>3

(* The branch of an ancestor is part of the branch. *)
LEMMA Closed == \A b \in AllBlocks : \A x \in Branch[b] : Branch[x] \subseteq Branch[b]
<1> DEFINE S == {b \in AllBlocks : \A x \in Branch[b] : Branch[x] \subseteq Branch[b]}
<1>1. Genesis \in S
  BY TreeType, BranchAssumption
<1>2. \A b \in Blocks : Prev[b] \in S => b \in S
  BY TreeType, BranchAssumption
<1>3. AllBlocks \subseteq S
  <2> HIDE DEF S
  <2> QED BY <1>1, <1>2, TreeInduction
<1> QED BY <1>3

(* A proper ancestor has less work. *)
LEMMA WorkGrows ==
    \A b \in AllBlocks : \A x \in Branch[b] : x # b => ChainWork[x] < ChainWork[b]
<1> DEFINE S == {b \in AllBlocks : \A x \in Branch[b] : x # b => ChainWork[x] < ChainWork[b]}
<1>1. Genesis \in S
  BY TreeType, BranchAssumption
<1>2. ASSUME NEW b \in Blocks, Prev[b] \in S PROVE b \in S
  <2>1. ASSUME NEW x \in Branch[b], x # b PROVE ChainWork[x] < ChainWork[b]
    <3>1. x \in Branch[Prev[b]] /\ x \in AllBlocks
      BY <2>1, TreeType, BranchAssumption
    <3>2. x # Prev[b] => ChainWork[x] < ChainWork[Prev[b]]
      BY <1>2, <3>1
    <3>3. ChainWork[Prev[b]] < ChainWork[b]
      BY BranchAssumption
    <3>4. ChainWork[x] \in Nat /\ ChainWork[b] \in Nat /\ ChainWork[Prev[b]] \in Nat
      BY <3>1, TreeType
    <3> QED BY <3>2, <3>3, <3>4
  <2> QED BY <2>1, TreeType
<1>3. AllBlocks \subseteq S
  <2> HIDE DEF S
  <2> QED BY <1>1, <1>2, TreeInduction
<1> QED BY <1>3

(* Two ancestors of a block are ancestors of one another. *)
LEMMA Linear ==
    \A b \in AllBlocks : \A x, y \in Branch[b] : x \in Branch[y] \/ y \in Branch[x]
<1> DEFINE S == {b \in AllBlocks : \A x, y \in Branch[b] : x \in Branch[y] \/ y \in Branch[x]}
<1>1. Genesis \in S
  BY TreeType, BranchAssumption
<1>2. \A b \in Blocks : Prev[b] \in S => b \in S
  BY TreeType, BranchAssumption
<1>3. AllBlocks \subseteq S
  <2> HIDE DEF S
  <2> QED BY <1>1, <1>2, TreeInduction
<1> QED BY <1>3

(* A block is not its own proper ancestor. *)
LEMMA Acyclic ==
    ASSUME NEW b \in Blocks
    PROVE  b \notin Branch[Prev[b]] /\ Prev[b] # b /\ Prev[b] \in Branch[b]
<1>1. ChainWork[Prev[b]] < ChainWork[b]
  BY BranchAssumption
<1>2. ChainWork[Prev[b]] \in Nat /\ ChainWork[b] \in Nat
  BY TreeType
<1>3. b \in Branch[Prev[b]] /\ b # Prev[b] => ChainWork[b] < ChainWork[Prev[b]]
  BY WorkGrows, TreeType
<1>4. Prev[b] \in Branch[b]
  BY TreeType, BranchAssumption
<1> QED BY <1>1, <1>2, <1>3, <1>4

(* Blocks of one branch have different predecessors. *)
LEMMA PrevInjective ==
    ASSUME NEW b \in AllBlocks, NEW x \in Branch[b], NEW y \in Branch[b],
           x \in Blocks, y \in Blocks, Prev[x] = Prev[y]
    PROVE  x = y
<1>1. \A u, v \in Blocks : u \in Branch[v] /\ u # v => u \in Branch[Prev[v]]
  BY BranchAssumption
<1>2. x \notin Branch[Prev[y]] /\ y \notin Branch[Prev[x]]
  BY Acyclic
<1>3. x \in Branch[y] \/ y \in Branch[x]
  BY Linear
<1> QED BY <1>1, <1>2, <1>3

(* From a proper ancestor a step leads towards the block. *)
LEMMA StepExists ==
    \A b \in AllBlocks : \A x \in Branch[b] :
        x # b => \E y \in Branch[b] \ {Genesis} : Prev[y] = x
<1> DEFINE Q(b) == \A x \in Branch[b] : x # b => \E y \in Branch[b] \ {Genesis} : Prev[y] = x
           S == {b \in AllBlocks : Q(b)}
<1>1. Genesis \in S
  BY TreeType, BranchAssumption
<1>2. ASSUME NEW b \in Blocks, Prev[b] \in S PROVE b \in S
  <2>1. b # Genesis /\ b \in Branch[b] /\ Branch[b] = Branch[Prev[b]] \cup {b}
    BY TreeType, TreeAssumption, BranchAssumption
  <2>2. ASSUME NEW x \in Branch[b], x # b
        PROVE  \E y \in Branch[b] \ {Genesis} : Prev[y] = x
    <3>1. CASE x = Prev[b]
      BY <3>1, <2>1
    <3>2. CASE x # Prev[b]
      BY <3>2, <2>1, <2>2, <1>2
    <3> QED BY <3>1, <3>2
  <2> QED BY <2>2, TreeType
<1>3. AllBlocks \subseteq S
  <2> HIDE DEF S
  <2> QED BY <1>1, <1>2, TreeInduction
<1> QED BY <1>3

(* StepTowards(x, b) is the one block after x on the branch of b. *)
LEMMA StepTowardsFact ==
    ASSUME NEW b \in AllBlocks, NEW x \in Branch[b], x # b
    PROVE  /\ StepTowards(x, b) \in Branch[b]
           /\ StepTowards(x, b) \in Blocks
           /\ Prev[StepTowards(x, b)] = x
           /\ \A y \in Branch[b] : y \in Blocks /\ Prev[y] = x => y = StepTowards(x, b)
<1>1. \E y \in Branch[b] \ {Genesis} : Prev[y] = x
  BY StepExists
<1>2. /\ StepTowards(x, b) \in Branch[b] \ {Genesis}
      /\ Prev[StepTowards(x, b)] = x
  BY <1>1 DEF StepTowards
<1>3. StepTowards(x, b) \in Blocks
  BY <1>2, TreeType
<1> QED
  BY <1>2, <1>3, PrevInjective

(* Branches are finite, so a height is a natural number. *)
LEMMA HeightType == \A b \in AllBlocks : IsFiniteSet(Branch[b]) /\ nHeight(b) \in Int
<1> DEFINE S == {b \in AllBlocks : IsFiniteSet(Branch[b])}
<1>1. Genesis \in S
  BY TreeType, BranchAssumption, FS_Singleton
<1>2. \A b \in Blocks : Prev[b] \in S => b \in S
  BY TreeType, BranchAssumption, FS_AddElement
<1>3. AllBlocks \subseteq S
  <2> HIDE DEF S
  <2> QED BY <1>1, <1>2, TreeInduction
<1>4. \A b \in AllBlocks : Cardinality(Branch[b]) \in Nat
  BY <1>3, FS_CardinalityType
<1> QED BY <1>3, <1>4 DEF nHeight

-----------------------------------------------------------------------------
(* The inductive invariant *)

(* The switch in progress walks from the best block down to the fork and up  *)
(* to the goal, which lies on the branch of the candidate.                   *)
PathInv ==
    /\ pc = "switch" =>
          /\ goal \in Branch[cand]
          /\ at \in Branch[best] \cup Branch[goal]
          /\ Branch[best] \cap Branch[goal] \subseteq Branch[at]
    /\ pc = "postponed" => at \in Branch[cand]

(* The records are complete in themselves; see DiskIndexComplete. *)
RecordsInv ==
    /\ DiskIndexComplete
    /\ \A b \in AllBlocks : disk.next[b] # Null => b \in disk.index
    /\ disk.sync \in disk.index

(* How far memory and the open transaction are ahead of the disk. *)
AheadInv ==
    /\ pc \notin {"indexed", "switch"} => txn = disk
    /\ pc \notin {"indexed", "switch", "down"} => index = disk.index
    /\ pc = "indexed" => caller = "accept" /\ txn.next = disk.next
    /\ pc = "switch" => txn.next = Relink(disk.next, best, at)
    /\ pc \in {"indexed", "switch"} =>
          /\ index = txn.index
          /\ index = disk.index \cup {cand}
          /\ caller = "accept" <=> cand \notin disk.index
          /\ cand # Genesis => Prev[cand] \in disk.index
          /\ txn.best = disk.best /\ txn.sync = disk.sync
    /\ pc \in {"postponed", "newbest"} => cand \in disk.index
    /\ pc # "down" =>
          /\ pnext = disk.next
          /\ best \in disk.index
          /\ sync = disk.sync

(* A checkpoint is only enforced above the current one. *)
CheckpointInv ==
    \/ pc = "checkpoint"
    \/ pc \in {"switch", "postponed", "newbest"} /\ caller \in {"sync", "pending"}
    => cand \in disk.index /\ sync \in Branch[cand]

Inv == TypeOK /\ PathInv /\ RecordsInv /\ AheadInv /\ CheckpointInv

-----------------------------------------------------------------------------
(* Facts about the operators *)

(* The goal of a switch exists and lies on the branch of the candidate. *)
LEMMA IntermediateFact ==
    ASSUME NEW b \in AllBlocks, best \in AllBlocks
    PROVE  Intermediate(b) \in Branch[b]
<1> DEFINE Heavy == {y \in Branch[b] : y = b \/ ChainWork[y] > ChainWork[best]}
           W == {ChainWork[y] : y \in Heavy}
<1>1. W \subseteq Nat /\ W # {}
  BY TreeType
<1>2. PICK m \in W : \A n \in W : m <= n
  <2> HIDE DEF W
  <2> QED BY <1>1, LeastNatural
<1>3. PICK y \in Heavy : m = ChainWork[y]
  OBVIOUS
<1>4. \A z \in Heavy : ChainWork[y] <= ChainWork[z]
  BY <1>2, <1>3
<1>5. y \in AllBlocks /\ y \in Branch[b]
  BY TreeType
<1>6. y # Genesis => ChainWork[Prev[y]] <= ChainWork[best]
  <2> SUFFICES ASSUME y # Genesis PROVE ChainWork[Prev[y]] <= ChainWork[best]
    OBVIOUS
  <2>1. y \in Blocks /\ Prev[y] \in AllBlocks /\ ChainWork[Prev[y]] < ChainWork[y]
    BY <1>5, TreeType, BranchAssumption
  <2>2. Prev[y] \in Branch[b]
    BY <1>5, <2>1, Acyclic, Closed
  <2>3. Prev[y] \notin Heavy
    BY <2>1, <1>4, <1>5, TreeType
  <2> QED BY <2>1, <2>2, <2>3, TreeType
<1>7. ASSUME NEW z \in Branch[b] \ Branch[y] PROVE ChainWork[Prev[z]] > ChainWork[best]
  <2>1. z \in AllBlocks /\ z # Genesis /\ z \in Blocks
    BY <1>5, TreeType, Rooted
  <2>2. y \in Branch[z] /\ y # z
    BY <1>5, <2>1, Linear, TreeType
  <2>3. y \in Branch[Prev[z]]
    BY <2>1, <2>2, BranchAssumption
  <2>4. ChainWork[y] > ChainWork[best]
    BY <1>3, <1>5
  <2>5. y # Prev[z] => ChainWork[y] < ChainWork[Prev[z]]
    BY <2>1, <2>3, WorkGrows, TreeType
  <2> QED BY <1>5, <2>1, <2>4, <2>5, TreeType
<1> HIDE DEF Heavy, W
<1>8. \E x \in Branch[b] :
        /\ x # Genesis => ChainWork[Prev[x]] <= ChainWork[best]
        /\ \A z \in Branch[b] \ Branch[x] : ChainWork[Prev[z]] > ChainWork[best]
  BY <1>5, <1>6, <1>7
<1> QED
  BY <1>8 DEF Intermediate

(* A set closed under predecessors holds the branch of each of its blocks. *)
LEMMA ClosedSet ==
    ASSUME NEW S, Genesis \in S, S \subseteq AllBlocks,
           \A b \in S \ {Genesis} : Prev[b] \in S,
           NEW c \in S
    PROVE  Branch[c] \subseteq S
<1> DEFINE T == {b \in AllBlocks : b \in S => Branch[b] \subseteq S}
<1>1. Genesis \in T
  BY TreeType, BranchAssumption
<1>2. \A b \in Blocks : Prev[b] \in T => b \in T
  BY TreeType, BranchAssumption, TreeAssumption
<1>3. AllBlocks \subseteq T
  <2> HIDE DEF T
  <2> QED BY <1>1, <1>2, TreeInduction
<1> QED BY <1>3

(* What writing a block record changes. *)
LEMMA WriteBlockIndexFact ==
    ASSUME NEW r \in Records, NEW b \in AllBlocks, NEW n \in AllBlocks \cup {Null}
    PROVE  LET w == WriteBlockIndex(r, b, n) IN
           /\ w \in Records
           /\ w.index = r.index \cup {b}
           /\ w.next = [r.next EXCEPT ![b] = n]
           /\ w.best = r.best /\ w.connected = r.connected
           /\ w.sync = r.sync /\ w.invalidWork = r.invalidWork
BY DEF WriteBlockIndex, Records, Links

(* What connecting a block changes in the transaction. *)
LEMMA ConnectBlockFact ==
    ASSUME NEW r \in Records, NEW b \in Blocks
    PROVE  LET w == ConnectBlock(r, b) IN
           /\ w \in Records
           /\ w.index = r.index \cup {Prev[b]}
           /\ w.next = [r.next EXCEPT ![Prev[b]] = b]
           /\ w.best = r.best /\ w.sync = r.sync /\ w.invalidWork = r.invalidWork
           /\ w.connected = r.connected \cup {b}
<1> DEFINE w == WriteBlockIndex(r, Prev[b], b)
<1>1. /\ w \in Records
      /\ w.index = r.index \cup {Prev[b]}
      /\ w.next = [r.next EXCEPT ![Prev[b]] = b]
      /\ w.best = r.best /\ w.connected = r.connected
      /\ w.sync = r.sync /\ w.invalidWork = r.invalidWork
  BY WriteBlockIndexFact, TreeType
<1>2. ConnectBlock(r, b) = [w EXCEPT !.connected = w.connected \cup {b}]
  BY DEF ConnectBlock
<1>3. b \in AllBlocks
  BY TreeType
<1> HIDE DEF w
<1> QED BY <1>1, <1>2, <1>3 DEF Records

(* What disconnecting a block changes in the transaction. *)
LEMMA DisconnectBlockFact ==
    ASSUME NEW r \in Records, NEW b \in Blocks
    PROVE  LET w == DisconnectBlock(r, b) IN
           /\ w \in Records
           /\ w.index = r.index \cup {Prev[b]}
           /\ w.next = [r.next EXCEPT ![Prev[b]] = Null]
           /\ w.best = r.best /\ w.sync = r.sync /\ w.invalidWork = r.invalidWork
           /\ w.connected = r.connected \ {b}
<1> DEFINE w == WriteBlockIndex(r, Prev[b], Null)
<1>0. Prev[b] \in AllBlocks /\ Null \in AllBlocks \cup {Null}
  BY TreeType
<1>1. /\ w \in Records
      /\ w.index = r.index \cup {Prev[b]}
      /\ w.next = [r.next EXCEPT ![Prev[b]] = Null]
      /\ w.best = r.best /\ w.connected = r.connected
      /\ w.sync = r.sync /\ w.invalidWork = r.invalidWork
  BY <1>0, WriteBlockIndexFact
<1>2. DisconnectBlock(r, b) = [w EXCEPT !.connected = w.connected \ {b}]
  BY DEF DisconnectBlock
<1> HIDE DEF w
<1> QED BY <1>1, <1>2 DEF Records

(* Relinking yields links, into the new branch or where they led before. *)
LEMMA RelinkType ==
    ASSUME NEW l \in Links, NEW f \in AllBlocks, NEW t \in AllBlocks
    PROVE  /\ Relink(l, f, t) \in Links
           /\ \A x \in AllBlocks : Relink(l, f, t)[x] # Null =>
                 \/ Relink(l, f, t)[x] = l[x]
                 \/ x \in Branch[t] /\ Relink(l, f, t)[x] \in Branch[t]
<1>1. ASSUME NEW x \in AllBlocks, \E y \in Branch[t] \ Branch[f] : Prev[y] = x
      PROVE  x \in Branch[t] /\ StepTowards(x, t) \in Branch[t]
  <2>1. PICK y \in Branch[t] \ Branch[f] : Prev[y] = x
    BY <1>1
  <2>2. y \in Blocks
    BY TreeType, Rooted
  <2>3. x \in Branch[y] /\ x # y /\ y \in AllBlocks
    BY <2>1, <2>2, Acyclic, TreeType
  <2>4. x \in Branch[t]
    BY <2>3, Closed
  <2>5. x # t
    BY <2>3, <2>1, Closed, Linear, Acyclic, <2>2, TreeType
  <2> QED BY <2>4, <2>5, StepTowardsFact
<1> QED
  BY <1>1, TreeType DEF Relink, Links

(* Nothing to relink. *)
LEMMA RelinkSelf ==
    ASSUME NEW l \in Links, NEW f \in AllBlocks
    PROVE  Relink(l, f, f) = l
BY DEF Relink, Links

(* Disconnecting a block of the old branch. *)
LEMMA RelinkDown ==
    ASSUME NEW l \in Links, NEW f \in AllBlocks, NEW b \in Blocks, b \in Branch[f]
    PROVE  [Relink(l, f, b) EXCEPT ![Prev[b]] = Null] = Relink(l, f, Prev[b])
<1>1. Branch[b] = Branch[Prev[b]] \cup {b} /\ b \notin Branch[Prev[b]]
  BY BranchAssumption, Acyclic
<1>2. Branch[b] \subseteq Branch[f] /\ Branch[Prev[b]] \subseteq Branch[f]
  BY <1>1, Closed
<1>3. ASSUME NEW x \in AllBlocks, x # Prev[b]
      PROVE  Relink(l, f, b)[x] = Relink(l, f, Prev[b])[x]
  BY <1>1, <1>2, <1>3 DEF Relink
<1>4. Relink(l, f, Prev[b])[Prev[b]] = Null
  BY <1>1, <1>2, TreeType DEF Relink
<1>5. Relink(l, f, b) \in Links /\ Relink(l, f, Prev[b]) \in Links
  BY RelinkType, TreeType
<1> QED
  BY <1>3, <1>4, <1>5, TreeType DEF Links

(* Connecting a block above the fork. *)
LEMMA RelinkUp ==
    ASSUME NEW l \in Links, NEW f \in AllBlocks, NEW b \in Blocks, b \notin Branch[f]
    PROVE  [Relink(l, f, Prev[b]) EXCEPT ![Prev[b]] = b] = Relink(l, f, b)
<1>1. Branch[b] = Branch[Prev[b]] \cup {b} /\ b \notin Branch[Prev[b]] /\ b \in AllBlocks
  BY BranchAssumption, Acyclic, TreeType
<1>2. ASSUME NEW x \in AllBlocks, x # Prev[b]
      PROVE  Relink(l, f, Prev[b])[x] = Relink(l, f, b)[x]
  <2>1. CASE \E y \in Branch[b] \ Branch[f] : Prev[y] = x
    <3>1. PICK y \in Branch[Prev[b]] \ Branch[f] : Prev[y] = x
      BY <2>1, <1>1, <1>2
    <3>2. y \in Blocks /\ Prev[b] \in AllBlocks
      BY TreeType, Rooted
    <3>3. x \in Branch[y] /\ x # y /\ y \in AllBlocks
      BY <3>1, <3>2, Acyclic, TreeType
    <3>4. x \in Branch[Prev[b]] /\ x \in Branch[b]
      BY <3>3, <3>2, <1>1, Closed
    <3>5. x # b
      BY <3>4, <1>1
    <3>6. StepTowards(x, b) = y
      BY <3>1, <3>2, <3>4, <3>5, <1>1, StepTowardsFact
    <3>7. StepTowards(x, Prev[b]) = y
      BY <3>1, <3>2, <3>4, <1>1, <1>2, StepTowardsFact
    <3> QED BY <2>1, <3>1, <3>6, <3>7 DEF Relink
  <2>2. CASE ~ \E y \in Branch[b] \ Branch[f] : Prev[y] = x
    BY <2>2, <1>1 DEF Relink
  <2> QED BY <2>1, <2>2
<1>3. Relink(l, f, b)[Prev[b]] = b
  <2>1. b \in Branch[b] /\ Prev[b] \in Branch[b] /\ Prev[b] # b
    BY Acyclic, TreeType
  <2>2. StepTowards(Prev[b], b) = b
    BY <2>1, <1>1, StepTowardsFact
  <2> QED BY <2>1, <2>2, TreeType DEF Relink
<1>4. Relink(l, f, b) \in Links /\ Relink(l, f, Prev[b]) \in Links
  BY RelinkType, TreeType
<1> QED
  BY <1>2, <1>3, <1>4, TreeType DEF Links

(* A checkpoint that validates is a descendant of the current one. *)
LEMMA ValidateFact == ASSUME NEW h, ValidateSyncCheckpoint(h) PROVE sync \in Branch[h]
BY DEF ValidateSyncCheckpoint

(* The records stay complete when only bnBestInvalidWork changes. *)
LEMMA InvalidChainFoundFact ==
    ASSUME NEW b \in AllBlocks, disk \in Records, invalidWork \in Nat,
           InvalidChainFound(b)
    PROVE  /\ invalidWork' \in Nat
           /\ disk' \in Records /\ txn' = disk'
           /\ disk'.index = disk.index /\ disk'.next = disk.next
           /\ disk'.best = disk.best /\ disk'.connected = disk.connected
           /\ disk'.sync = disk.sync
<1>1. ChainWork[b] \in Nat
  BY TreeType
<1> QED
  BY <1>1 DEF InvalidChainFound, Commit, TxnAbort, Records

-----------------------------------------------------------------------------
(* The initial state *)

LEMMA InitInv == Init => Inv
<1> SUFFICES ASSUME Init PROVE Inv
  OBVIOUS
<1>1. TypeOK
  BY TreeType, ConfigAssumption DEF Init, TypeOK, Records, Links, NoLinks
<1>2. PathInv
  BY DEF Init, PathInv
<1>3. RecordsInv
  BY TreeType DEF Init, RecordsInv, DiskIndexComplete, NoLinks
<1>4. AheadInv
  BY DEF Init, AheadInv
<1>5. CheckpointInv
  BY DEF Init, CheckpointInv
<1> QED
  BY <1>1, <1>2, <1>3, <1>4, <1>5 DEF Inv

-----------------------------------------------------------------------------
(* Each action keeps the invariant *)

LEMMA AcceptBlockInv ==
    ASSUME Inv, NEW b \in Blocks, AcceptBlock(b)
    PROVE  Inv'
<1> USE DEF Inv
<1>1. b \in AllBlocks /\ Null \in AllBlocks \cup {Null} /\ txn \in Records
  BY TreeType DEF TypeOK
<1>2. /\ index = disk.index /\ txn = disk /\ pnext = disk.next
      /\ best \in disk.index /\ sync = disk.sync
  BY DEF AcceptBlock, AheadInv
<1>3. /\ txn' \in Records
      /\ txn'.index = disk.index \cup {b}
      /\ txn'.next = [disk.next EXCEPT ![b] = Null]
      /\ txn'.best = disk.best /\ txn'.sync = disk.sync
  <2>1. txn' = WriteBlockIndex(txn, b, Null)
    BY DEF AcceptBlock
  <2>2. /\ WriteBlockIndex(txn, b, Null) \in Records
        /\ WriteBlockIndex(txn, b, Null).index = txn.index \cup {b}
        /\ WriteBlockIndex(txn, b, Null).next = [txn.next EXCEPT ![b] = Null]
        /\ WriteBlockIndex(txn, b, Null).best = txn.best
        /\ WriteBlockIndex(txn, b, Null).sync = txn.sync
    BY <1>1, WriteBlockIndexFact
  <2> QED BY <1>2, <2>1, <2>2
<1>4. disk.next \in Links /\ disk.next[b] = Null
  BY <1>1, <1>2 DEF AcceptBlock, RecordsInv, TypeOK, Records
<1>5. txn'.next = disk.next
  BY <1>1, <1>3, <1>4 DEF Links
<1>6. TypeOK'
  BY <1>1, <1>3 DEF AcceptBlock, TypeOK
<1>7. PathInv' /\ RecordsInv' /\ CheckpointInv'
  BY DEF AcceptBlock, PathInv, RecordsInv, DiskIndexComplete, CheckpointInv
<1>8. AheadInv'
  BY <1>2, <1>3, <1>5 DEF AcceptBlock, AheadInv
<1> QED BY <1>6, <1>7, <1>8

(* An abort, after which AddToBlockIndex removes its entry or another caller *)
(* has none to remove, leaves memory as the disk has it.                     *)
LEMMA RollbackFact ==
    ASSUME Inv, pc \in {"indexed", "switch"}, caller = "accept",
           RollbackBlockIndexEntry(cand)
    PROVE  index' = disk.index /\ pnext' = pnext
<1> USE DEF Inv
<1>1. /\ index = disk.index \cup {cand} /\ cand \notin disk.index
      /\ pnext = disk.next /\ best \in disk.index
  BY DEF AheadInv
<1>2. cand # best /\ cand # Genesis /\ cand \in Blocks
  BY <1>1, TreeType DEF RecordsInv, DiskIndexComplete, TypeOK
<1>3. pnext[cand] = Null /\ Prev[cand] \in AllBlocks
  BY <1>1, <1>2, TreeType DEF RecordsInv, TypeOK
<1>4. pnext[Prev[cand]] # cand
  BY <1>1, <1>3, TreeAssumption DEF RecordsInv, DiskIndexComplete, TypeOK
<1> QED
  BY <1>1, <1>2, <1>3, <1>4 DEF RollbackBlockIndexEntry

(* The block enters both indexes when its record is committed. *)
LEMMA StoreSideBlockInv ==
    ASSUME Inv, StoreSideBlock
    PROVE  Inv'
<1> USE DEF Inv, memory
<1>1. /\ caller = "accept" /\ txn.next = disk.next
      /\ index = txn.index /\ index = disk.index \cup {cand}
      /\ cand \in Blocks /\ Prev[cand] \in disk.index
      /\ txn.best = disk.best /\ txn.sync = disk.sync
      /\ pnext = disk.next /\ best \in disk.index /\ sync = disk.sync
      /\ disk \in Records /\ txn \in Records
  BY TreeType DEF StoreSideBlock, AheadInv, RecordsInv, DiskIndexComplete, TypeOK
<1>2. TypeOK'
  BY <1>1 DEF StoreSideBlock, Commit, TypeOK
<1>3. PathInv' /\ CheckpointInv'
  BY DEF StoreSideBlock, PathInv, CheckpointInv
<1>4. RecordsInv'
  BY <1>1 DEF StoreSideBlock, Commit, RecordsInv, DiskIndexComplete
<1>5. AheadInv'
  BY <1>1 DEF StoreSideBlock, Commit, AheadInv
<1> QED BY <1>2, <1>3, <1>4, <1>5

(* An aborted record takes the entry with it. *)
LEMMA IndexWriteFailsInv ==
    ASSUME Inv, IndexWriteFails
    PROVE  Inv'
<1> USE DEF Inv
<1>1. /\ caller = "accept" /\ txn.next = disk.next
      /\ index = txn.index /\ index = disk.index \cup {cand}
      /\ cand \in Blocks /\ Prev[cand] \in disk.index
      /\ txn.best = disk.best /\ txn.sync = disk.sync
      /\ pnext = disk.next /\ best \in disk.index /\ sync = disk.sync
      /\ disk \in Records /\ txn \in Records
  BY TreeType DEF IndexWriteFails, AheadInv, RecordsInv, DiskIndexComplete, TypeOK
<1>2. index' = disk.index /\ pnext' = pnext
  BY <1>1, RollbackFact DEF IndexWriteFails
<1>3. TypeOK'
  BY <1>1, <1>2 DEF IndexWriteFails, TxnAbort, TypeOK, Records
<1>4. PathInv' /\ CheckpointInv'
  BY DEF IndexWriteFails, PathInv, CheckpointInv
<1>5. RecordsInv'
  BY <1>1 DEF IndexWriteFails, TxnAbort, RecordsInv, DiskIndexComplete
<1>6. AheadInv'
  BY <1>1, <1>2 DEF IndexWriteFails, TxnAbort, AheadInv
<1> QED BY <1>3, <1>4, <1>5, <1>6

(* Setting out for a heavier block changes nothing but the control state. *)
LEMMA SwitchToNewBlockInv ==
    ASSUME Inv, SwitchToNewBlock
    PROVE  Inv'
<1> USE DEF Inv
<1>1. /\ caller = "accept" /\ txn.next = disk.next /\ pnext = disk.next
      /\ cand \in AllBlocks /\ best \in AllBlocks /\ disk.next \in Links
  BY DEF SwitchToNewBlock, AheadInv, TypeOK, Records
<1>2. goal' \in Branch[cand] /\ goal' \in AllBlocks
  BY <1>1, IntermediateFact, TreeType DEF SwitchToNewBlock
<1>3. TypeOK'
  BY <1>1, <1>2 DEF SwitchToNewBlock, TypeOK, memory
<1>4. PathInv'
  BY <1>1, <1>2, TreeType DEF SwitchToNewBlock, PathInv, memory
<1>5. RecordsInv' /\ CheckpointInv'
  BY <1>1 DEF SwitchToNewBlock, RecordsInv, DiskIndexComplete, CheckpointInv, memory
<1>6. txn.next = Relink(disk.next, best, best)
  BY <1>1, RelinkSelf
<1>7. AheadInv'
  BY <1>1, <1>6 DEF SwitchToNewBlock, AheadInv, memory
<1> QED BY <1>3, <1>4, <1>5, <1>7

(* Whatever made SetBestChain fail, its caller leaves the node as the disk   *)
(* has it.                                                                   *)
LEMMA CallerFailsInv ==
    ASSUME Inv, pc = "switch", CallerFails,
           invalidWork' \in Nat, disk' \in Records, txn' = disk',
           disk'.index = disk.index, disk'.next = disk.next,
           disk'.best = disk.best, disk'.sync = disk.sync
    PROVE  Inv'
<1> USE DEF Inv
<1>1. /\ index = disk.index \cup {cand}
      /\ caller = "accept" <=> cand \notin disk.index
      /\ pnext = disk.next /\ best \in disk.index /\ sync = disk.sync
  BY DEF AheadInv
<1>2. index' = disk.index /\ pnext' = pnext
  <2>1. CASE caller = "accept"
    BY <2>1, RollbackFact DEF CallerFails
  <2>2. CASE caller # "accept"
    BY <2>2, <1>1 DEF CallerFails
  <2> QED BY <2>1, <2>2
<1>3. disk.index \subseteq AllBlocks /\ cand \in AllBlocks
  BY DEF TypeOK, Records
<1>4. TypeOK'
  BY <1>2, <1>3 DEF CallerFails, TypeOK
<1>5. PathInv' /\ CheckpointInv'
  BY DEF CallerFails, PathInv, CheckpointInv
<1>6. RecordsInv'
  BY DEF RecordsInv, DiskIndexComplete
<1>7. AheadInv'
  BY <1>1, <1>2 DEF CallerFails, AheadInv
<1> QED BY <1>4, <1>5, <1>6, <1>7

(* Every failing step of a switch leaves the node as the disk has it. *)
LEMMA SwitchFailsInv ==
    ASSUME Inv, \/ BeginFails \/ DisconnectFails \/ ConnectFails \/ CommitFails
    PROVE  Inv'
<1>1. cand \in AllBlocks /\ disk \in Records /\ invalidWork \in Nat
  BY DEF Inv, TypeOK
<1>2. pc = "switch" /\ CallerFails
  BY DEF BeginFails, DisconnectFails, ConnectFails, CommitFails
<1>3. \/ InvalidChainFound(cand)
      \/ TxnAbort /\ UNCHANGED invalidWork
  BY DEF BeginFails, DisconnectFails, ConnectFails, CommitFails
<1>4. CASE InvalidChainFound(cand)
  BY <1>1, <1>2, <1>4, InvalidChainFoundFact, CallerFailsInv
<1>5. CASE TxnAbort /\ UNCHANGED invalidWork
  BY <1>1, <1>2, <1>5, CallerFailsInv DEF TxnAbort
<1> QED BY <1>3, <1>4, <1>5

(* Undoing a block touches the open transaction only. *)
LEMMA DisconnectInv ==
    ASSUME Inv, Disconnect
    PROVE  Inv'
<1> USE DEF Inv
<1>1. /\ at \in AllBlocks /\ best \in AllBlocks /\ goal \in AllBlocks
      /\ disk.next \in Links /\ txn \in Records
  BY DEF TypeOK, Records
<1>2. at \in Branch[best] /\ at \in Blocks
  BY <1>1, TreeType, Rooted DEF Disconnect, PathInv
<1>3. Branch[at] = Branch[Prev[at]] \cup {at} /\ Prev[at] \in AllBlocks
  BY <1>2, BranchAssumption, TreeType
<1>4. /\ txn' \in Records
      /\ txn'.index = txn.index \cup {Prev[at]}
      /\ txn'.next = [txn.next EXCEPT ![Prev[at]] = Null]
      /\ txn'.best = txn.best /\ txn'.sync = txn.sync
  BY <1>1, <1>2, DisconnectBlockFact DEF Disconnect
<1>5. Branch[best] \subseteq disk.index
  <2>1. best \in disk.index /\ disk.index \subseteq AllBlocks
    BY DEF Disconnect, AheadInv, TypeOK, Records
  <2> QED BY <2>1, ClosedSet DEF RecordsInv, DiskIndexComplete
<1>6. Prev[at] \in disk.index
  BY <1>1, <1>2, <1>3, <1>5, Acyclic, Closed
<1>7. txn'.next = Relink(disk.next, best, Prev[at])
  BY <1>1, <1>2, <1>4, RelinkDown DEF Disconnect, AheadInv
<1>8. TypeOK'
  BY <1>3, <1>4 DEF Disconnect, TypeOK, memory
<1>9. PathInv'
  <2>1. Prev[at] \in Branch[best]
    BY <1>1, <1>2, Acyclic, Closed
  <2>2. Branch[best] \cap Branch[goal] \subseteq Branch[Prev[at]]
    BY <1>3 DEF Disconnect, PathInv
  <2> QED BY <2>1, <2>2 DEF Disconnect, PathInv, memory
<1>10. RecordsInv' /\ CheckpointInv'
  BY DEF Disconnect, RecordsInv, DiskIndexComplete, CheckpointInv, memory
<1>11. AheadInv'
  BY <1>4, <1>6, <1>7 DEF Disconnect, AheadInv, memory
<1> QED BY <1>8, <1>9, <1>10, <1>11

(* Connecting a block touches the open transaction only. *)
LEMMA ConnectInv ==
    ASSUME Inv, Connect
    PROVE  Inv'
<1> USE DEF Inv
<1> DEFINE b == StepTowards(at, goal)
<1>1. /\ at \in AllBlocks /\ best \in AllBlocks /\ goal \in AllBlocks
      /\ cand \in AllBlocks /\ disk.next \in Links /\ txn \in Records
      /\ at \in Branch[goal] /\ at # goal
  BY DEF TypeOK, Records, Connect
<1>2. b \in Branch[goal] /\ b \in Blocks /\ Prev[b] = at
  BY <1>1, StepTowardsFact
<1>3. Branch[b] = Branch[at] \cup {b} /\ b \in AllBlocks /\ b \notin Branch[at]
  BY <1>2, BranchAssumption, TreeType, Acyclic
<1>4. b \notin Branch[best]
  BY <1>2, <1>3 DEF Connect, PathInv
<1>5. txn' = ConnectBlock(txn, b) /\ at' = b
  BY DEF Connect
<1> HIDE DEF b
<1>6. /\ txn' \in Records
      /\ txn'.index = txn.index \cup {at}
      /\ txn'.next = [txn.next EXCEPT ![at] = b]
      /\ txn'.best = txn.best /\ txn'.sync = txn.sync
  BY <1>1, <1>2, <1>5, ConnectBlockFact
<1>7. index \subseteq AllBlocks /\ cand \in index /\ Genesis \in index
      /\ \A x \in index \ {Genesis} : Prev[x] \in index
  BY DEF Connect, AheadInv, RecordsInv, DiskIndexComplete, TypeOK
<1>8. at \in index
  <2>1. Branch[cand] \subseteq index
    BY <1>7, ClosedSet
  <2>2. at \in Branch[cand]
    BY <1>1, Closed DEF Connect, PathInv
  <2> QED BY <2>1, <2>2
<1>9. txn'.next = Relink(disk.next, best, b)
  BY <1>1, <1>2, <1>4, <1>6, RelinkUp DEF Connect, AheadInv
<1>10. TypeOK'
  BY <1>3, <1>5, <1>6 DEF Connect, TypeOK, memory
<1>11. PathInv'
  BY <1>2, <1>3, <1>5 DEF Connect, PathInv, memory
<1>12. RecordsInv' /\ CheckpointInv'
  BY DEF Connect, RecordsInv, DiskIndexComplete, CheckpointInv, memory
<1>13. AheadInv'
  BY <1>5, <1>6, <1>8, <1>9 DEF Connect, AheadInv, memory
<1> QED BY <1>10, <1>11, <1>12, <1>13

(* The commit makes the relinked branch durable, then memory follows. *)
LEMMA CommitSwitchInv ==
    ASSUME Inv, CommitSwitch
    PROVE  Inv'
<1> USE DEF Inv
<1>1. /\ at \in AllBlocks /\ best \in AllBlocks /\ goal \in AllBlocks
      /\ cand \in AllBlocks /\ disk.next \in Links /\ txn \in Records
      /\ pc = "switch" /\ at = goal /\ goal \in Branch[cand]
  BY DEF TypeOK, Records, CommitSwitch, PathInv
<1>2. /\ disk' \in Records /\ txn' = disk'
      /\ disk'.index = txn.index /\ disk'.next = txn.next /\ disk'.best = goal
      /\ disk'.sync = txn.sync
  BY <1>1 DEF CommitSwitch, Commit, Records
<1>3. /\ index = txn.index /\ index = disk.index \cup {cand}
      /\ txn.next = Relink(disk.next, best, goal) /\ pnext = disk.next
      /\ txn.sync = disk.sync /\ sync = disk.sync /\ best \in disk.index
      /\ disk.index \subseteq AllBlocks
  BY <1>1 DEF AheadInv, TypeOK, Records
<1>4. pnext' = disk'.next /\ pnext' \in Links
  BY <1>1, <1>2, <1>3, RelinkType DEF CommitSwitch
<1>5. /\ Genesis \in index /\ index \subseteq AllBlocks
      /\ \A x \in index \ {Genesis} : Prev[x] \in index
  BY <1>1, <1>3 DEF AheadInv, RecordsInv, DiskIndexComplete
<1>6. Branch[cand] \subseteq index /\ Branch[goal] \subseteq index /\ goal \in index
  BY <1>1, <1>3, <1>5, ClosedSet, Closed
<1>7. TypeOK'
  BY <1>2, <1>4 DEF CommitSwitch, TypeOK
<1>8. PathInv'
  BY <1>1 DEF CommitSwitch, PathInv
<1>9. RecordsInv'
  <2>1. ASSUME NEW x \in AllBlocks, disk'.next[x] # Null
        PROVE  x \in index /\ disk'.next[x] \in index
    <3>1. \/ disk'.next[x] = disk.next[x]
          \/ x \in Branch[goal] /\ disk'.next[x] \in Branch[goal]
      <4> DEFINE R == Relink(disk.next, best, goal)
      <4>1. \A z \in AllBlocks : R[z] # Null =>
               R[z] = disk.next[z] \/ (z \in Branch[goal] /\ R[z] \in Branch[goal])
        BY <1>1, RelinkType
      <4>2. disk'.next = R
        BY <1>2, <1>3
      <4> HIDE DEF R
      <4> QED BY <2>1, <4>1, <4>2
    <3>2. disk.next[x] # Null => x \in disk.index /\ disk.next[x] \in disk.index
      BY DEF RecordsInv, DiskIndexComplete
    <3> QED BY <1>3, <1>6, <2>1, <3>1, <3>2
  <2>2. disk'.sync \in index
    BY <1>2, <1>3 DEF RecordsInv
  <2> QED
    BY <1>2, <1>3, <1>5, <1>6, <2>1, <2>2 DEF RecordsInv, DiskIndexComplete
<1>10. AheadInv'
  BY <1>2, <1>3, <1>4 DEF CommitSwitch, AheadInv
<1>11. CheckpointInv'
  BY <1>1, <1>2, <1>3 DEF CommitSwitch, CheckpointInv
<1> QED BY <1>7, <1>8, <1>9, <1>10, <1>11

(* A postponed block is linked on disk and in memory by one step. *)
LEMMA ConnectPostponedInv ==
    ASSUME Inv, ConnectPostponed
    PROVE  Inv'
<1> USE DEF Inv
<1> DEFINE b == StepTowards(at, cand)
<1>1. /\ at \in AllBlocks /\ cand \in AllBlocks /\ disk \in Records
      /\ disk.next \in Links /\ disk.index \subseteq AllBlocks
      /\ pc = "postponed" /\ at \in Branch[cand] /\ at # cand
      /\ index = disk.index /\ txn = disk /\ pnext = disk.next
      /\ cand \in disk.index /\ best \in disk.index /\ sync = disk.sync
  BY DEF TypeOK, Records, ConnectPostponed, PathInv, AheadInv
<1>2. b \in Branch[cand] /\ b \in Blocks /\ Prev[b] = at
  BY <1>1, StepTowardsFact
<1>3. Branch[cand] \subseteq disk.index
  BY <1>1, ClosedSet DEF RecordsInv, DiskIndexComplete
<1>4. /\ disk' = [ConnectBlock(disk, b) EXCEPT !.best = b] /\ txn' = disk'
      /\ pnext' = [pnext EXCEPT ![at] = b] /\ at' = b
  BY <1>1 DEF ConnectPostponed, Commit
<1> HIDE DEF b
<1>5. b \in AllBlocks /\ b \in disk.index /\ at \in disk.index
  BY <1>1, <1>2, <1>3, TreeType
<1>6. /\ disk' \in Records
      /\ disk'.index = disk.index
      /\ disk'.next = [disk.next EXCEPT ![at] = b]
      /\ disk'.best = b /\ disk'.sync = disk.sync
  <2> DEFINE w == ConnectBlock(disk, b)
  <2>1. /\ w \in Records
        /\ w.index = disk.index \cup {at}
        /\ w.next = [disk.next EXCEPT ![at] = b]
        /\ w.sync = disk.sync
    BY <1>1, <1>2, ConnectBlockFact
  <2>2. disk' = [w EXCEPT !.best = b]
    BY <1>4
  <2> HIDE DEF w
  <2> QED BY <1>5, <2>1, <2>2 DEF Records
<1>7. TypeOK'
  BY <1>1, <1>4, <1>5, <1>6 DEF ConnectPostponed, TypeOK, Links
<1>8. PathInv'
  BY <1>2, <1>4 DEF ConnectPostponed, PathInv
<1>9. RecordsInv'
  BY <1>1, <1>5, <1>6 DEF RecordsInv, DiskIndexComplete, Links
<1>10. AheadInv'
  BY <1>1, <1>4, <1>6 DEF ConnectPostponed, AheadInv
<1>11. CheckpointInv'
  BY <1>1, <1>6 DEF ConnectPostponed, CheckpointInv
<1> QED BY <1>7, <1>8, <1>9, <1>10, <1>11

(* A postponed block that fails leaves links and records as they are. *)
LEMMA PostponedFailsInv ==
    ASSUME Inv, PostponedFails
    PROVE  Inv'
<1> USE DEF Inv
<1> DEFINE b == StepTowards(at, cand)
<1>1. /\ at \in AllBlocks /\ cand \in AllBlocks /\ disk \in Records
      /\ invalidWork \in Nat
      /\ pc = "postponed" /\ at \in Branch[cand] /\ at # cand
      /\ index = disk.index /\ txn = disk /\ pnext = disk.next
      /\ cand \in disk.index /\ best \in disk.index /\ sync = disk.sync
  BY DEF TypeOK, PostponedFails, PathInv, AheadInv
<1>2. b \in AllBlocks
  BY <1>1, StepTowardsFact, TreeType
<1>3. \/ InvalidChainFound(b)
      \/ TxnAbort /\ UNCHANGED invalidWork
  BY DEF PostponedFails
<1> HIDE DEF b
<1>4. /\ invalidWork' \in Nat
      /\ disk' \in Records /\ txn' = disk'
      /\ disk'.index = disk.index /\ disk'.next = disk.next
      /\ disk'.best = disk.best /\ disk'.sync = disk.sync
  <2>1. CASE InvalidChainFound(b)
    BY <1>1, <1>2, <2>1, InvalidChainFoundFact
  <2>2. CASE TxnAbort /\ UNCHANGED invalidWork
    BY <1>1, <2>2 DEF TxnAbort
  <2> QED BY <1>3, <2>1, <2>2
<1>5. TypeOK'
  BY <1>4 DEF PostponedFails, TypeOK
<1>6. PathInv' /\ RecordsInv'
  BY <1>4 DEF PostponedFails, PathInv, RecordsInv, DiskIndexComplete
<1>7. AheadInv'
  BY <1>1, <1>4 DEF PostponedFails, AheadInv
<1>8. CheckpointInv'
  BY <1>1, <1>4 DEF PostponedFails, CheckpointInv
<1> QED BY <1>5, <1>6, <1>7, <1>8

(* The end of SetBestChain moves the tip in memory only. *)
LEMMA NewBestInv ==
    ASSUME Inv, NewBest
    PROVE  Inv'
<1> USE DEF Inv
<1>1. /\ cand \in AllBlocks /\ caller \in {"accept", "sync", "pending", "startup"}
      /\ pc \in {"postponed", "newbest"}
      /\ pc' \in {"accepted", "checkpoint", "idle"}
      /\ pc' = "checkpoint" => caller \in {"sync", "pending"}
  BY DEF TypeOK, NewBest
<1>2. TypeOK'
  BY <1>1 DEF NewBest, TypeOK
<1>3. PathInv' /\ RecordsInv'
  BY <1>1 DEF NewBest, PathInv, RecordsInv, DiskIndexComplete
<1>4. AheadInv'
  BY <1>1 DEF NewBest, AheadInv
<1>5. CheckpointInv'
  BY <1>1 DEF NewBest, CheckpointInv
<1> QED BY <1>2, <1>3, <1>4, <1>5

(* Enforcing a validated checkpoint of the index. *)
LEMMA EnforceCheckpointInv ==
    ASSUME Inv, pc \in {"idle", "accepted"},
           NEW h \in disk.index, NEW who \in {"sync", "pending"},
           sync \in Branch[h], EnforceCheckpoint(h, who),
           UNCHANGED <<index, pnext, best, sync, pending, invalidCp, invalidWork,
                       disk, txn, crashes>>
    PROVE  Inv'
<1> USE DEF Inv
<1>1. /\ h \in AllBlocks /\ best \in AllBlocks /\ disk.next \in Links
      /\ index = disk.index /\ txn = disk /\ pnext = disk.next
      /\ best \in disk.index /\ sync = disk.sync
  BY DEF TypeOK, Records, AheadInv
<1>2. Intermediate(h) \in Branch[h] /\ Intermediate(h) \in AllBlocks
  BY <1>1, IntermediateFact, TreeType
<1>3. /\ cand' = h /\ caller' = who
      /\ \/ pc' = "checkpoint" /\ UNCHANGED <<goal, at>>
         \/ pc' = "switch" /\ goal' = Intermediate(h) /\ at' = best
  BY DEF EnforceCheckpoint
<1>4. TypeOK'
  BY <1>1, <1>2, <1>3 DEF TypeOK
<1>5. PathInv'
  BY <1>1, <1>2, <1>3, TreeType DEF PathInv
<1>6. RecordsInv' /\ CheckpointInv'
  BY <1>3 DEF RecordsInv, DiskIndexComplete, CheckpointInv
<1>7. Relink(disk.next, best, best) = disk.next
  BY <1>1, RelinkSelf
<1>8. h # Genesis => Prev[h] \in disk.index
  BY DEF RecordsInv, DiskIndexComplete
<1>9. AheadInv'
  BY <1>1, <1>3, <1>7, <1>8 DEF AheadInv
<1> QED BY <1>4, <1>5, <1>6, <1>9

(* A checkpoint message is at most the start of a switch to its block. *)
LEMMA ProcessSyncCheckpointInv ==
    ASSUME Inv, NEW h \in Master, ProcessSyncCheckpoint(h)
    PROVE  Inv'
<1> USE DEF Inv
<1>1. h \in AllBlocks /\ index = disk.index /\ pc = "idle"
  BY ConfigAssumption, TreeType DEF ProcessSyncCheckpoint, AheadInv
<1>2. CASE h \in index /\ ValidateSyncCheckpoint(h)
  BY <1>1, <1>2, ValidateFact, EnforceCheckpointInv DEF ProcessSyncCheckpoint
<1>3. CASE ~(h \in index /\ ValidateSyncCheckpoint(h))
  <2>1. /\ pending' \in AllBlocks \cup {Null} /\ invalidCp' \in AllBlocks \cup {Null}
        /\ UNCHANGED <<index, pnext, best, sync, invalidWork, disk, txn, crashes,
                       pc, caller, cand, goal, at>>
    BY <1>1, <1>3 DEF ProcessSyncCheckpoint, TypeOK, control
  <2>2. TypeOK'
    BY <2>1 DEF TypeOK
  <2>3. PathInv' /\ RecordsInv' /\ CheckpointInv' /\ AheadInv'
    BY <2>1 DEF PathInv, RecordsInv, DiskIndexComplete, CheckpointInv, AheadInv
  <2> QED BY <2>2, <2>3
<1> QED BY <1>2, <1>3

(* So is a pending checkpoint whose block has arrived. *)
LEMMA AcceptPendingSyncCheckpointInv ==
    ASSUME Inv, AcceptPendingSyncCheckpoint
    PROVE  Inv'
<1> USE DEF Inv
<1>1. index = disk.index /\ pc = "accepted" /\ pending \in AllBlocks \cup {Null}
  BY DEF AcceptPendingSyncCheckpoint, AheadInv, TypeOK
<1>2. CASE /\ pending \in index /\ ValidateSyncCheckpoint(pending)
           /\ EnforceCheckpoint(pending, "pending")
           /\ UNCHANGED <<pending, invalidCp>>
  BY <1>1, <1>2, ValidateFact, EnforceCheckpointInv DEF AcceptPendingSyncCheckpoint
<1>3. CASE /\ pc' = "idle" /\ UNCHANGED <<caller, cand, goal, at>>
           /\ pending' \in {pending, Null} /\ invalidCp' \in {pending, invalidCp}
  <2>1. TypeOK'
    BY <1>1, <1>3 DEF AcceptPendingSyncCheckpoint, TypeOK
  <2>2. PathInv' /\ RecordsInv' /\ CheckpointInv' /\ AheadInv'
    BY <1>1, <1>3 DEF AcceptPendingSyncCheckpoint, PathInv, RecordsInv,
                      DiskIndexComplete, CheckpointInv, AheadInv
  <2> QED BY <2>1, <2>2
<1> QED
  BY <1>2, <1>3 DEF AcceptPendingSyncCheckpoint

(* The checkpoint is written to disk before memory takes it over. *)
LEMMA WriteSyncCheckpointInv ==
    ASSUME Inv, WriteSyncCheckpoint
    PROVE  Inv'
<1> USE DEF Inv
<1>1. /\ cand \in AllBlocks /\ cand \in disk.index /\ disk \in Records
      /\ index = disk.index /\ txn = disk /\ pnext = disk.next
      /\ best \in disk.index /\ sync = disk.sync
  BY DEF WriteSyncCheckpoint, TypeOK, CheckpointInv, AheadInv
<1>2. /\ disk' \in Records /\ txn' = disk' /\ sync' = disk'.sync
      /\ disk'.index = disk.index /\ disk'.next = disk.next
      /\ disk'.best = disk.best /\ disk'.sync \in disk.index
      /\ pending' \in {pending, Null}
  <2>1. CASE Commit([disk EXCEPT !.sync = cand]) /\ sync' = cand /\ pending' = Null
    BY <1>1, <2>1 DEF Commit, Records
  <2>2. CASE UNCHANGED <<sync, pending, disk, txn>>
    BY <1>1, <2>2 DEF RecordsInv
  <2> QED BY <2>1, <2>2 DEF WriteSyncCheckpoint
<1>3. sync' \in AllBlocks
  BY <1>2 DEF Records
<1>4. TypeOK'
  BY <1>2, <1>3 DEF WriteSyncCheckpoint, TypeOK
<1>5. PathInv' /\ CheckpointInv'
  BY DEF WriteSyncCheckpoint, PathInv, CheckpointInv
<1>6. RecordsInv'
  BY <1>2 DEF RecordsInv, DiskIndexComplete
<1>7. AheadInv'
  BY <1>1, <1>2 DEF WriteSyncCheckpoint, AheadInv
<1> QED BY <1>4, <1>5, <1>6, <1>7

(* A crash loses the open transaction. *)
LEMMA CrashInv ==
    ASSUME Inv, Crash
    PROVE  Inv'
<1> USE DEF Inv
<1>1. TypeOK'
  BY ConfigAssumption DEF Crash, TypeOK, memory
<1>2. PathInv' /\ RecordsInv' /\ CheckpointInv' /\ AheadInv'
  BY DEF Crash, PathInv, RecordsInv, DiskIndexComplete, CheckpointInv, AheadInv
<1> QED BY <1>1, <1>2

(* A restart finds no block to make an empty entry for, and the links on     *)
(* disk are the links of the entries.                                        *)
LEMMA RestartInv ==
    ASSUME Inv, Restart
    PROVE  Inv'
<1> USE DEF Inv
<1>1. /\ disk \in Records /\ disk.index \subseteq AllBlocks /\ disk.next \in Links
      /\ disk.best \in AllBlocks /\ disk.sync \in AllBlocks
      /\ disk.invalidWork \in Nat /\ txn = disk
  BY DEF TypeOK, Records, AheadInv, Restart
<1>2. LoadedIndex = disk.index
  BY <1>1 DEF LoadedIndex, RecordsInv, DiskIndexComplete
<1>3. pnext' = disk.next
  BY <1>1 DEF Restart, RecordsInv, Links
<1>4. /\ index' = disk.index /\ best' = disk.best /\ sync' = disk.sync
      /\ disk' = disk /\ txn' = disk /\ crashes' = crashes
      /\ invalidWork' = disk.invalidWork /\ pending' = Null /\ invalidCp' = Null
      /\ caller' = "startup"
  BY <1>1, <1>2 DEF Restart
<1>5. RecordsInv'
  BY <1>4 DEF RecordsInv, DiskIndexComplete
<1>6. CASE pc' = "idle" /\ UNCHANGED <<cand, goal, at>>
  <2>1. TypeOK'
    BY <1>1, <1>3, <1>4, <1>6 DEF TypeOK
  <2>2. PathInv' /\ CheckpointInv' /\ AheadInv'
    BY <1>3, <1>4, <1>6 DEF PathInv, CheckpointInv, AheadInv, RecordsInv,
                            DiskIndexComplete
  <2> QED BY <1>5, <2>1, <2>2
<1>7. ASSUME NEW bad \in Suspect \cap Branch[disk.best],
             pc' = "switch", cand' = Prev[bad], goal' = Prev[bad], at' = disk.best
      PROVE  Inv'
  <2>1. bad \in Blocks /\ Prev[bad] \in AllBlocks
    BY ConfigAssumption, TreeType
  <2>2. Branch[disk.best] \subseteq disk.index
    BY <1>1, ClosedSet DEF RecordsInv, DiskIndexComplete
  <2>3. Prev[bad] \in Branch[disk.best]
    BY <1>1, <2>1, Acyclic, Closed
  <2>4. TypeOK'
    BY <1>1, <1>3, <1>4, <1>7, <2>1 DEF TypeOK
  <2>5. PathInv'
    BY <1>1, <1>4, <1>7, <2>1, TreeType DEF PathInv
  <2>6. CheckpointInv'
    BY <1>4, <1>7 DEF CheckpointInv
  <2>7. Relink(disk.next, disk.best, disk.best) = disk.next
    BY <1>1, RelinkSelf
  <2>8. Prev[bad] # Genesis => Prev[Prev[bad]] \in disk.index
    BY <2>2, <2>3 DEF RecordsInv, DiskIndexComplete
  <2>9. AheadInv'
    BY <1>3, <1>4, <1>7, <2>2, <2>3, <2>7, <2>8
       DEF AheadInv, RecordsInv, DiskIndexComplete
  <2> QED BY <1>5, <2>4, <2>5, <2>6, <2>9
<1> QED
  BY <1>6, <1>7 DEF Restart

(* The invariant speaks of the variables only. *)
LEMMA StutterInv == ASSUME Inv, UNCHANGED vars PROVE Inv'
<1>1. TypeOK'
  BY DEF Inv, TypeOK, vars, memory, control
<1>2. PathInv' /\ RecordsInv' /\ CheckpointInv' /\ AheadInv'
  BY DEF Inv, vars, memory, control, PathInv, RecordsInv, DiskIndexComplete,
         CheckpointInv, AheadInv
<1> QED BY <1>1, <1>2 DEF Inv

(* Every step keeps the invariant. *)
LEMMA NextInv == Inv /\ [Next]_vars => Inv'
<1> SUFFICES ASSUME Inv, [Next]_vars PROVE Inv'
  OBVIOUS
<1>1. CASE UNCHANGED vars
  BY <1>1, StutterInv
<1>2. CASE \E b \in Blocks : AcceptBlock(b)
  BY <1>2, AcceptBlockInv
<1>3. CASE \E h \in Master : ProcessSyncCheckpoint(h)
  BY <1>3, ProcessSyncCheckpointInv
<1>4. CASE Step
  BY <1>4, StoreSideBlockInv, IndexWriteFailsInv, SwitchToNewBlockInv, SwitchFailsInv, DisconnectInv,
     ConnectInv, CommitSwitchInv, ConnectPostponedInv, PostponedFailsInv,
     NewBestInv, AcceptPendingSyncCheckpointInv, WriteSyncCheckpointInv, RestartInv
     DEF Step
<1>5. CASE Crash
  BY <1>5, CrashInv
<1> QED BY <1>1, <1>2, <1>3, <1>4, <1>5 DEF Next

-----------------------------------------------------------------------------
(* Theorems *)

LEMMA Invariance == Spec => []Inv
BY InitInv, NextInv, PTL DEF Spec

(* Every variable keeps its type. *)
THEOREM TypeCorrect == Spec => []TypeOK
<1>1. Inv => TypeOK
  BY DEF Inv
<1> QED BY <1>1, Invariance, PTL

(* Between handlers the block index in memory is the one on disk, after any  *)
(* failure, crash, reorganisation or checkpoint (AddToBlockIndex,            *)
(* RollbackBlockIndexEntry, LoadBlockIndex).                                 *)
THEOREM IndexConsistency == Spec => []IndexAgrees
<1>1. Inv => IndexAgrees
  BY DEF Inv, AheadInv, IndexAgrees
<1> QED BY <1>1, Invariance, PTL

(* Between handlers the links in memory are those on disk (Reorganize,       *)
(* SetBestChainInner, RollbackBlockIndexEntry).                              *)
THEOREM LinkConsistency == Spec => []LinksAgree
<1>1. Inv => LinksAgree
  BY DEF Inv, AheadInv, LinksAgree
<1> QED BY <1>1, Invariance, PTL

(* A crash at any moment leaves a block index that LoadBlockIndexRecord      *)
(* loads without making an entry for a missing record.                       *)
THEOREM CompleteRecords == Spec => []DiskIndexComplete
<1>1. Inv => DiskIndexComplete
  BY DEF Inv, RecordsInv
<1> QED BY <1>1, Invariance, PTL

(* The assertion of CheckSync never fails once the node has completed its    *)
(* first start.                                                              *)
THEOREM CheckpointIndexed == Spec => []SyncCheckpointIndexed
<1>1. Inv => SyncCheckpointIndexed
  BY DEF Inv, RecordsInv, AheadInv, SyncCheckpointIndexed
<1> QED BY <1>1, Invariance, PTL

(* The durable checkpoint only moves to descendants                          *)
(* (ValidateSyncCheckpoint, WriteSyncCheckpoint).                            *)
THEOREM CheckpointsForward == Spec => CheckpointMonotone
<1>1. Inv /\ [Next]_vars => [disk.sync \in Branch[disk.sync']]_vars
  <2> SUFFICES ASSUME Inv, Next PROVE disk.sync \in Branch[disk.sync']
    BY DEF vars
  <2>1. disk \in Records /\ disk.sync \in AllBlocks /\ txn \in Records
        /\ cand \in AllBlocks /\ invalidWork \in Nat
    BY DEF Inv, TypeOK, Records
  <2>2. CASE WriteSyncCheckpoint
    <3>1. disk.sync \in Branch[cand]
      BY <2>2 DEF WriteSyncCheckpoint, Inv, CheckpointInv, AheadInv
    <3>2. disk'.sync = cand \/ disk' = disk
      BY <2>1, <2>2 DEF WriteSyncCheckpoint, Commit, Records
    <3> QED BY <2>1, <3>1, <3>2, TreeType
  <2>3. CASE ~WriteSyncCheckpoint
    <3>1. disk'.sync = disk.sync
      <4>1. CASE \E b \in Blocks : AcceptBlock(b)
        BY <4>1 DEF AcceptBlock
      <4>2. CASE \E h \in Master : ProcessSyncCheckpoint(h)
        BY <4>2 DEF ProcessSyncCheckpoint
      <4>3. CASE StoreSideBlock \/ IndexWriteFails
        BY <2>1, <4>3 DEF StoreSideBlock, IndexWriteFails, Commit, TxnAbort, Inv, AheadInv
      <4>4. CASE SwitchToNewBlock \/ Disconnect \/ Connect \/ NewBest
                 \/ AcceptPendingSyncCheckpoint \/ Restart \/ Crash
        BY <4>4 DEF SwitchToNewBlock, Disconnect, Connect, NewBest,
                    AcceptPendingSyncCheckpoint, Restart, Crash
      <4>5. CASE BeginFails \/ DisconnectFails \/ ConnectFails \/ CommitFails
        <5>1. InvalidChainFound(cand) \/ TxnAbort
          BY <4>5 DEF BeginFails, DisconnectFails, ConnectFails, CommitFails
        <5> QED BY <2>1, <5>1, InvalidChainFoundFact DEF TxnAbort
      <4>6. CASE CommitSwitch
        BY <2>1, <4>6 DEF CommitSwitch, Commit, Records, Inv, AheadInv
      <4>7. CASE ConnectPostponed
        <5> DEFINE b == StepTowards(at, cand)
        <5>1. b \in Blocks /\ txn = disk
          BY <2>1, <4>7, StepTowardsFact DEF ConnectPostponed, Inv, PathInv, AheadInv
        <5>2. disk' = [ConnectBlock(txn, b) EXCEPT !.best = b]
          BY <4>7 DEF ConnectPostponed, Commit
        <5> HIDE DEF b
        <5>3. ConnectBlock(txn, b) \in Records /\ ConnectBlock(txn, b).sync = txn.sync
          BY <2>1, <5>1, ConnectBlockFact
        <5> QED BY <5>1, <5>2, <5>3 DEF Records
      <4>8. CASE PostponedFails
        <5> DEFINE b == StepTowards(at, cand)
        <5>1. b \in AllBlocks
          BY <2>1, <4>8, StepTowardsFact, TreeType DEF PostponedFails, Inv, PathInv
        <5>2. InvalidChainFound(b) \/ TxnAbort
          BY <4>8 DEF PostponedFails
        <5> HIDE DEF b
        <5> QED BY <2>1, <5>1, <5>2, InvalidChainFoundFact DEF TxnAbort
      <4> QED
        BY <2>3, <4>1, <4>2, <4>3, <4>4, <4>5, <4>6, <4>7, <4>8 DEF Next, Step
    <3> QED BY <2>1, <3>1, TreeType
  <2> QED BY <2>2, <2>3
<1> QED BY <1>1, Invariance, PTL DEF Spec, CheckpointMonotone
-----------------------------------------------------------------------------
(* The checkpoint stays on the best chain                                    *)

(* Links lead only along one branch. *)
Within(links, tip) ==
    \A x \in AllBlocks : links[x] # Null =>
        Prev[links[x]] = x /\ links[x] \in Branch[tip] \ {Genesis}

(* The tip in memory is never on another branch than the tip on disk, though *)
(* it is ahead of it after a postponed connect has failed.                   *)
TipInv ==
    /\ pc \notin {"postponed", "newbest", "down"} => disk.best \in Branch[best]
    /\ pc = "postponed" => at = disk.best
    /\ pc = "newbest" => disk.best \in Branch[cand]
    /\ Within(disk.next, disk.best)

(* CheckSync is in force for every block that is accepted. *)
Guarded == Strict /\ Downloading \subseteq {FALSE}

(* What the best chain is about to move to has the checkpoint, and what is   *)
(* about to become the checkpoint is on the best chain.                      *)
HoldInv ==
    /\ pc \in {"indexed", "switch", "postponed", "newbest"} /\ caller = "accept" =>
          sync \in Branch[cand]
    /\ pc = "checkpoint" => cand \in Branch[best]

(* A link of the new branch leads one step towards its end. *)
LEMMA RelinkedFact ==
    ASSUME NEW f \in AllBlocks, NEW t \in AllBlocks, NEW x \in AllBlocks,
           NEW y \in Branch[t] \ Branch[f], Prev[y] = x
    PROVE  x \in Branch[t] /\ x # t /\ StepTowards(x, t) = y /\ y \in Blocks
<1>1. y \in Blocks /\ y \in AllBlocks
  BY TreeType, Rooted
<1>2. x \in Branch[y] /\ x # y /\ y \notin Branch[x]
  BY <1>1, Acyclic, TreeType
<1>3. x \in Branch[t] /\ x # t
  BY <1>1, <1>2, Closed
<1> QED BY <1>1, <1>3, StepTowardsFact

(* Links along the old branch become links along the new one. *)
LEMMA RelinkWithin ==
    ASSUME NEW l \in Links, NEW d \in AllBlocks, NEW f \in AllBlocks, NEW t \in AllBlocks,
           d \in Branch[f], Within(l, d)
    PROVE  Within(Relink(l, f, t), t)
<1> SUFFICES ASSUME NEW x \in AllBlocks, Relink(l, f, t)[x] # Null
             PROVE  /\ Prev[Relink(l, f, t)[x]] = x
                    /\ Relink(l, f, t)[x] \in Branch[t] \ {Genesis}
  BY DEF Within
<1>1. CASE \E y \in Branch[t] \ Branch[f] : Prev[y] = x
  <2>1. PICK y \in Branch[t] \ Branch[f] : Prev[y] = x
    BY <1>1
  <2>2. StepTowards(x, t) = y /\ y \in Blocks
    BY <2>1, RelinkedFact
  <2>3. Relink(l, f, t)[x] = y
    BY <1>1, <2>2 DEF Relink
  <2> QED BY <2>1, <2>2, <2>3, TreeAssumption
<1>2. CASE ~ \E y \in Branch[t] \ Branch[f] : Prev[y] = x
  <2>1. /\ ~ \E y \in Branch[f] \ Branch[t] : Prev[y] = x
        /\ Relink(l, f, t)[x] = l[x]
    BY <1>2 DEF Relink
  <2>2. Prev[l[x]] = x /\ l[x] \in Branch[d] \ {Genesis}
    BY <2>1 DEF Within
  <2>3. l[x] \in Branch[f]
    BY <2>2, Closed
  <2> QED BY <2>1, <2>2, <2>3
<1> QED BY <1>1, <1>2

(* A block with a link lies on the branch the links follow. *)
LEMMA LinkedOnBranch ==
    ASSUME NEW l \in Links, NEW d \in AllBlocks, Within(l, d),
           NEW x \in AllBlocks, l[x] # Null
    PROVE  x \in Branch[d]
<1>1. Prev[l[x]] = x /\ l[x] \in Branch[d] /\ l[x] \in Blocks
  BY TreeType DEF Within
<1>2. x \in Branch[l[x]] /\ l[x] \in AllBlocks
  BY <1>1, Acyclic, TreeType
<1> QED BY <1>1, <1>2, Closed

(* A failed switch leaves the tip and the links on disk. *)
LEMMA SwitchFailsFact ==
    ASSUME TypeOK, BeginFails \/ DisconnectFails \/ ConnectFails \/ CommitFails
    PROVE  /\ pc' = "idle"
           /\ disk'.next = disk.next /\ disk'.best = disk.best
           /\ UNCHANGED <<best, sync, caller, cand>>
<1>1. cand \in AllBlocks /\ disk \in Records /\ invalidWork \in Nat
  BY DEF TypeOK
<1>2. InvalidChainFound(cand) \/ TxnAbort
  BY DEF BeginFails, DisconnectFails, ConnectFails, CommitFails
<1>3. disk'.next = disk.next /\ disk'.best = disk.best
  BY <1>1, <1>2, InvalidChainFoundFact DEF TxnAbort
<1> QED
  BY <1>3 DEF BeginFails, DisconnectFails, ConnectFails, CommitFails, CallerFails

LEMMA InitTip == Init => TipInv /\ HoldInv
BY TreeType DEF Init, TipInv, HoldInv, Within, NoLinks

(* Every step keeps the tips on one branch. *)
LEMMA TipNext == Inv /\ TipInv /\ [Next]_vars => TipInv'
<1> SUFFICES ASSUME Inv, TipInv, [Next]_vars PROVE TipInv'
  OBVIOUS
<1>1. /\ disk \in Records /\ disk.best \in AllBlocks /\ disk.next \in Links
      /\ txn \in Records /\ cand \in AllBlocks /\ goal \in AllBlocks /\ at \in AllBlocks
      /\ best \in AllBlocks /\ invalidWork \in Nat
  BY DEF Inv, TypeOK, Records
<1>2. ASSUME disk'.next = disk.next, disk'.best = disk.best, best' = best,
             pc \notin {"postponed", "newbest", "down"},
             pc' \notin {"postponed", "newbest", "down"}
      PROVE  TipInv'
  BY <1>2 DEF TipInv, Within
<1>3. CASE UNCHANGED vars
  BY <1>3 DEF TipInv, Within, vars, memory, control
<1>4. CASE (\E b \in Blocks : AcceptBlock(b)) \/ \E h \in Master : ProcessSyncCheckpoint(h)
  BY <1>2, <1>4 DEF AcceptBlock, ProcessSyncCheckpoint, EnforceCheckpoint, control
<1>5. CASE StoreSideBlock
  <2>1. txn.next = disk.next /\ txn.best = disk.best
    BY <1>5 DEF StoreSideBlock, Inv, AheadInv
  <2> QED BY <1>2, <1>5, <2>1 DEF StoreSideBlock, Commit, memory
<1>6. CASE IndexWriteFails \/ SwitchToNewBlock \/ Disconnect \/ Connect
  BY <1>2, <1>6 DEF IndexWriteFails, TxnAbort, SwitchToNewBlock, Disconnect, Connect,
                    memory
<1>7. CASE BeginFails \/ DisconnectFails \/ ConnectFails \/ CommitFails
  <2>1. pc = "switch"
    BY <1>7 DEF BeginFails, DisconnectFails, ConnectFails, CommitFails
  <2> QED BY <1>2, <1>7, <2>1, SwitchFailsFact DEF Inv
<1>8. CASE CommitSwitch
  <2>1. /\ pc = "switch" /\ at = goal /\ txn.next = Relink(disk.next, best, goal)
        /\ disk.best \in Branch[best]
    BY <1>8 DEF CommitSwitch, Inv, AheadInv, TipInv
  <2>2. disk'.best = goal /\ disk'.next = txn.next
    BY <1>1, <1>8 DEF CommitSwitch, Commit, Records
  <2>3. Within(Relink(disk.next, best, goal), goal)
    BY <1>1, <2>1, RelinkWithin DEF TipInv
  <2>4. Within(disk.next, disk.best)'
    BY <2>1, <2>2, <2>3 DEF Within
  <2> QED BY <1>8, <2>1, <2>2, <2>4 DEF CommitSwitch, TipInv
<1>9. CASE ConnectPostponed
  <2> DEFINE b == StepTowards(at, cand)
  <2>1. pc = "postponed" /\ at = disk.best /\ txn = disk /\ at \in Branch[cand] /\ at # cand
    BY <1>9 DEF ConnectPostponed, Inv, PathInv, AheadInv, TipInv
  <2>2. b \in Blocks /\ Prev[b] = at
    BY <1>1, <2>1, StepTowardsFact
  <2>3. disk' = [ConnectBlock(txn, b) EXCEPT !.best = b] /\ at' = b /\ pc' = "postponed"
    BY <1>9, <2>1 DEF ConnectPostponed, Commit
  <2> HIDE DEF b
  <2>4. /\ ConnectBlock(txn, b) \in Records
        /\ ConnectBlock(txn, b).next = [disk.next EXCEPT ![at] = b]
    BY <1>1, <2>1, <2>2, ConnectBlockFact
  <2>5. disk'.best = b /\ disk'.next = [disk.next EXCEPT ![at] = b]
    BY <2>3, <2>4 DEF Records
  <2>6. Branch[b] = Branch[at] \cup {b} /\ b # Genesis
    BY <2>2, BranchAssumption, TreeAssumption
  <2>7. Within(disk.next, disk.best)'
    BY <1>1, <2>1, <2>2, <2>5, <2>6 DEF TipInv, Within, Links
  <2> QED BY <2>3, <2>5, <2>7 DEF TipInv
<1>10. CASE PostponedFails
  <2> DEFINE b == StepTowards(at, cand)
  <2>1. pc = "postponed" /\ at = disk.best /\ at \in Branch[cand] /\ at # cand
    BY <1>10 DEF PostponedFails, Inv, PathInv, TipInv
  <2>2. b \in AllBlocks
    BY <1>1, <2>1, StepTowardsFact, TreeType
  <2>3. InvalidChainFound(b) \/ TxnAbort
    BY <1>10 DEF PostponedFails
  <2> HIDE DEF b
  <2>4. disk'.next = disk.next /\ disk'.best = disk.best
    BY <1>1, <2>2, <2>3, InvalidChainFoundFact DEF TxnAbort
  <2> QED BY <1>10, <2>1, <2>4 DEF PostponedFails, TipInv, Within
<1>11. CASE NewBest
  <2>1. pc' \in {"accepted", "checkpoint", "idle"}
    BY <1>11 DEF NewBest, Inv, TypeOK
  <2>2. disk.best \in Branch[cand]
    BY <1>1, <1>11, TreeType DEF NewBest, TipInv
  <2> QED BY <1>11, <2>1, <2>2 DEF NewBest, TipInv, Within
<1>12. CASE AcceptPendingSyncCheckpoint
  BY <1>2, <1>12 DEF AcceptPendingSyncCheckpoint, EnforceCheckpoint
<1>13. CASE WriteSyncCheckpoint
  <2>1. disk'.next = disk.next /\ disk'.best = disk.best
    BY <1>1, <1>13 DEF WriteSyncCheckpoint, Commit, Records
  <2> QED BY <1>2, <1>13, <2>1 DEF WriteSyncCheckpoint
<1>14. CASE Restart
  BY <1>1, <1>14, TreeType DEF Restart, TipInv, Within
<1>15. CASE Crash
  BY <1>15 DEF Crash, TipInv, Within
<1> QED
  BY <1>3, <1>4, <1>5, <1>6, <1>7, <1>8, <1>9, <1>10, <1>11, <1>12, <1>13, <1>14, <1>15
     DEF Next, Step

(* A block that CheckSync passes is a descendant of the checkpoint. *)
LEMMA CheckSyncFact ==
    ASSUME NEW b \in Blocks, b \notin index, sync \in index, index \subseteq AllBlocks,
           CheckSync(b)
    PROVE  sync \in Branch[b]
<1>1. nHeight(b) \in Int /\ nHeight(sync) \in Int
  BY HeightType, TreeType
<1> QED BY <1>1, BranchAssumption DEF CheckSync

(* With CheckSync in force, what SetBestChain moves to has the checkpoint. *)
LEMMA HoldNext == Inv /\ TipInv /\ HoldInv /\ Guarded /\ [Next]_vars => HoldInv'
<1> SUFFICES ASSUME Inv, TipInv, HoldInv, Guarded, [Next]_vars PROVE HoldInv'
  OBVIOUS
<1>1. /\ best \in AllBlocks /\ disk.next \in Links /\ disk.best \in AllBlocks
      /\ index \subseteq AllBlocks /\ caller \in {"accept", "sync", "pending", "startup"}
  BY DEF Inv, TypeOK, Records
<1>2. CASE UNCHANGED vars
  BY <1>2 DEF HoldInv, vars, memory, control
<1>3. CASE \E b \in Blocks : AcceptBlock(b)
  <2>1. PICK b \in Blocks : AcceptBlock(b)
    BY <1>3
  <2>2. sync \in index
    BY <2>1 DEF AcceptBlock, Inv, AheadInv, RecordsInv
  <2>3. CheckSync(b)
    BY <2>1 DEF AcceptBlock, Guarded
  <2>4. sync \in Branch[b]
    BY <1>1, <2>1, <2>2, <2>3, CheckSyncFact DEF AcceptBlock
  <2> QED BY <2>1, <2>4 DEF AcceptBlock, HoldInv
<1>4. ASSUME NEW h \in index, NEW who \in {"sync", "pending"}, EnforceCheckpoint(h, who),
             pc \in {"idle", "accepted"}, UNCHANGED <<best, sync>>
      PROVE  HoldInv'
  <2>1. h \in AllBlocks /\ pnext = disk.next /\ disk.best \in Branch[best]
    BY <1>1, <1>4 DEF Inv, AheadInv, TipInv
  <2>2. IsInMainChain(h) => h \in Branch[best]
    BY <1>1, <2>1, LinkedOnBranch, Closed, TreeType DEF IsInMainChain, TipInv
  <2> QED BY <1>4, <2>2 DEF EnforceCheckpoint, HoldInv
<1>5. CASE \E h \in Master : ProcessSyncCheckpoint(h)
  BY <1>4, <1>5 DEF ProcessSyncCheckpoint, HoldInv, control
<1>6. CASE AcceptPendingSyncCheckpoint
  BY <1>4, <1>6 DEF AcceptPendingSyncCheckpoint, HoldInv
<1>7. CASE StoreSideBlock \/ IndexWriteFails \/ SwitchToNewBlock \/ Disconnect \/ Connect
           \/ CommitSwitch \/ ConnectPostponed \/ PostponedFails \/ WriteSyncCheckpoint
           \/ Crash
  BY <1>7 DEF StoreSideBlock, IndexWriteFails, SwitchToNewBlock, Disconnect, Connect,
              CommitSwitch, ConnectPostponed, PostponedFails, WriteSyncCheckpoint,
              Crash, memory, HoldInv
<1>8. CASE BeginFails \/ DisconnectFails \/ ConnectFails \/ CommitFails
  BY <1>8, SwitchFailsFact DEF Inv, HoldInv
<1>9. CASE NewBest
  BY <1>1, <1>9, TreeType DEF NewBest, HoldInv, Inv, TypeOK
<1>10. CASE Restart
  BY <1>10 DEF Restart, HoldInv
<1> QED
  BY <1>2, <1>3, <1>5, <1>6, <1>7, <1>8, <1>9, <1>10 DEF Next, Step

(* A strict node out of the initial download keeps the checkpoint on its     *)
(* best chain (CheckSync, SetBestChain, ValidateSyncCheckpoint,              *)
(* WriteSyncCheckpoint), whatever is refused or fails; only start-up may     *)
(* lose it.                                                                  *)
THEOREM CheckpointStays == Guarded => (Spec => CheckpointKept)
<1> DEFINE Kept == pc # "down" /\ caller' # "startup" /\ sync \in Branch[best]
                      => sync' \in Branch[best']
<1>1. Init => Inv /\ TipInv /\ HoldInv
  BY InitInv, InitTip
<1>2. Guarded /\ Inv /\ TipInv /\ HoldInv /\ [Next]_vars => (Inv /\ TipInv /\ HoldInv)'
  BY NextInv, TipNext, HoldNext
<1>3. Inv /\ TipInv /\ HoldInv /\ [Next]_vars => [Kept]_vars
  <2> SUFFICES ASSUME Inv, HoldInv, Next,
                      pc # "down", caller' # "startup", sync \in Branch[best]
               PROVE  sync' \in Branch[best']
    BY DEF vars
  <2>1. CASE NewBest
    <3>1. sync \in Branch[cand]
      BY <2>1 DEF NewBest, Inv, TypeOK, CheckpointInv, HoldInv
    <3> QED BY <2>1, <3>1 DEF NewBest
  <2>2. CASE WriteSyncCheckpoint
    BY <2>2 DEF WriteSyncCheckpoint, HoldInv
  <2>3. CASE ~NewBest /\ ~WriteSyncCheckpoint
    <3>1. UNCHANGED <<best, sync>>
      <4>1. CASE BeginFails \/ DisconnectFails \/ ConnectFails \/ CommitFails
        BY <4>1, SwitchFailsFact DEF Inv
      <4>2. CASE \/ \E b \in Blocks : AcceptBlock(b)
                 \/ \E h \in Master : ProcessSyncCheckpoint(h)
        BY <4>2 DEF AcceptBlock, ProcessSyncCheckpoint
      <4>3. CASE StoreSideBlock \/ IndexWriteFails \/ SwitchToNewBlock \/ Disconnect
                 \/ Connect \/ CommitSwitch \/ ConnectPostponed \/ PostponedFails
                 \/ AcceptPendingSyncCheckpoint \/ Crash
        BY <4>3 DEF StoreSideBlock, IndexWriteFails, SwitchToNewBlock, Disconnect, Connect,
                    CommitSwitch, ConnectPostponed, PostponedFails,
                    AcceptPendingSyncCheckpoint, Crash, memory
      <4>4. ~Restart
        BY DEF Restart
      <4> QED BY <2>3, <4>1, <4>2, <4>3, <4>4 DEF Next, Step
    <3> QED BY <3>1
  <2> QED BY <2>1, <2>2, <2>3
<1>4. Guarded => (Guarded)'
  BY DEF Guarded
<1> QED
  BY <1>1, <1>2, <1>3, <1>4, PTL DEF Spec, CheckpointKept

-----------------------------------------------------------------------------
(* The import of blocks.                                                     *)

(* No checkpoint is announced and CheckBlock says tomorrow what it says      *)
(* today: with either, a postponed connect may fail, after which the tip in  *)
(* memory is not the one on disk.                                            *)
NoSurprises == Master = {} /\ Suspect = {}

-----------------------------------------------------------------------------
(* The inductive invariant *)

(* The links lead from the genesis block to the tip, and to no other block. *)
MainLinks(links, tip) ==
    \A x, y \in AllBlocks :
        links[x] = y <=> y \in Branch[tip] \ {Genesis} /\ Prev[y] = x

(* The best chain on disk is linked and connected, and no block has more     *)
(* work than its tip.                                                        *)
ChainInv ==
    /\ MainLinks(disk.next, disk.best)
    /\ disk.connected = Branch[disk.best]
    /\ \A b \in disk.index : ChainWork[b] <= ChainWork[disk.best]

(* A switch goes straight to a block that has just arrived: every block that *)
(* could be postponed has been the tip.                                      *)
DirectInv ==
    /\ pc \notin {"newbest", "checkpoint"}
    /\ pc \notin {"postponed", "down"} => best = disk.best
    /\ pc = "postponed" => caller = "accept" /\ at = cand /\ disk.best = cand
    /\ pc = "indexed" => txn.connected = disk.connected
    /\ pc = "switch" =>
          /\ caller = "accept" /\ goal = cand
          /\ ChainWork[cand] > ChainWork[disk.best]
          /\ txn.connected = Branch[at]

BatchBlocks == ToSet(vEntries)

(* In a batch memory and the open transaction have the same index, links and *)
(* tip, which extend those on disk by the blocks of the batch.               *)
BatchInv ==
    /\ disk \in Records /\ txn \in Records /\ RecordsInv
    /\ best \in AllBlocks /\ sync \in AllBlocks
    /\ invalidCp \in AllBlocks \cup {Null}
    /\ invalidWork \in Nat
    /\ caller \in {"accept", "sync", "pending", "startup"}
    /\ cand \in AllBlocks /\ goal \in AllBlocks /\ at \in AllBlocks
    /\ crashes \in 0 .. MaxCrashes
    /\ vEntries \in Seq(Blocks)
    /\ saved = [best |-> disk.best, next |-> disk.next[disk.best]]
    /\ BatchBlocks \cap disk.index = {}
    /\ index = disk.index \cup BatchBlocks
    /\ pnext = Relink(disk.next, disk.best, best)
    /\ Branch[best] = Branch[disk.best] \cup BatchBlocks
    /\ disk.best \in Branch[best]
    /\ sync = disk.sync
    /\ txn.index = index /\ txn.next = pnext /\ txn.best = best
    /\ txn.connected = Branch[best] /\ txn.sync = sync

ImportInv ==
    /\ ChainInv
    /\ pending = Null
    /\ pc = "import" => BatchInv
    /\ pc # "import" => Inv /\ DirectInv
-----------------------------------------------------------------------------
(* Facts about the operators *)

(* Relinking the links of one chain yields the links of the other. *)
LEMMA RelinkMain ==
    ASSUME NEW l \in Links, NEW f \in AllBlocks, NEW t \in AllBlocks, MainLinks(l, f)
    PROVE  MainLinks(Relink(l, f, t), t)
<1> SUFFICES ASSUME NEW x \in AllBlocks, NEW y \in AllBlocks
             PROVE  Relink(l, f, t)[x] = y <=> y \in Branch[t] \ {Genesis} /\ Prev[y] = x
  BY DEF MainLinks
<1>0. l[x] = y <=> y \in Branch[f] \ {Genesis} /\ Prev[y] = x
  BY DEF MainLinks
<1>1. CASE \E z \in Branch[t] \ Branch[f] : Prev[z] = x
  <2>1. PICK z \in Branch[t] \ Branch[f] : Prev[z] = x
    BY <1>1
  <2>2. StepTowards(x, t) = z /\ z \in Blocks
    BY <2>1, RelinkedFact
  <2>3. Relink(l, f, t)[x] = z
    BY <1>1, <2>2 DEF Relink
  <2>4. y \in Branch[t] \ {Genesis} /\ Prev[y] = x => y = z
    BY <2>1, <2>2, PrevInjective, TreeType
  <2> QED BY <2>1, <2>2, <2>3, <2>4, TreeAssumption
<1>2. CASE /\ ~ \E z \in Branch[t] \ Branch[f] : Prev[z] = x
           /\ \E z \in Branch[f] \ Branch[t] : Prev[z] = x
  <2>1. PICK z \in Branch[f] \ Branch[t] : Prev[z] = x
    BY <1>2
  <2>2. z \in Blocks /\ y # Null
    BY TreeType, Rooted, TreeAssumption
  <2>3. Relink(l, f, t)[x] = Null
    BY <1>2 DEF Relink
  <2>4. y \in Branch[f] \ {Genesis} /\ Prev[y] = x => y = z
    BY <2>1, <2>2, PrevInjective, TreeType
  <2> QED BY <1>2, <2>1, <2>2, <2>3, <2>4
<1>3. CASE /\ ~ \E z \in Branch[t] \ Branch[f] : Prev[z] = x
           /\ ~ \E z \in Branch[f] \ Branch[t] : Prev[z] = x
  <2>1. Relink(l, f, t)[x] = l[x]
    BY <1>3 DEF Relink
  <2> QED BY <1>0, <1>3, <2>1
<1> QED BY <1>1, <1>2, <1>3

(* A block whose predecessor has no more work than the best block is itself  *)
(* the goal of the switch to it.                                             *)
LEMMA IntermediateDirect ==
    ASSUME NEW b \in Blocks, best \in AllBlocks, ChainWork[Prev[b]] <= ChainWork[best]
    PROVE  Intermediate(b) = b
<1>1. /\ b \in AllBlocks /\ Prev[b] \in AllBlocks /\ b \in Branch[b]
      /\ ChainWork[Prev[b]] \in Nat /\ ChainWork[best] \in Nat
  BY TreeType
<1>2. ASSUME NEW y \in Branch[b], y # b PROVE b \in Branch[b] \ Branch[y]
  <2>1. y \in AllBlocks /\ ChainWork[y] < ChainWork[b]
    BY <1>1, <1>2, WorkGrows, TreeType
  <2>2. b \in Branch[y] => ChainWork[b] < ChainWork[y]
    BY <1>1, <1>2, <2>1, WorkGrows
  <2> QED BY <1>1, <2>1, <2>2, TreeType
<1>3. ~(ChainWork[Prev[b]] > ChainWork[best])
  BY <1>1
<1>4. ASSUME NEW y \in Branch[b],
             \A z \in Branch[b] \ Branch[y] : ChainWork[Prev[z]] > ChainWork[best]
      PROVE  y = b
  BY <1>2, <1>3, <1>4
<1>5. /\ b # Genesis => ChainWork[Prev[b]] <= ChainWork[best]
      /\ \A z \in Branch[b] \ Branch[b] : ChainWork[Prev[z]] > ChainWork[best]
  OBVIOUS
<1> QED
  BY <1>1, <1>4, <1>5 DEF Intermediate

(* What a longer batch holds. *)
LEMMA BatchFact ==
    ASSUME NEW s \in Seq(Blocks), NEW b \in Blocks
    PROVE  /\ ToSet(s) \subseteq Blocks
           /\ ToSet(Append(s, b)) = ToSet(s) \cup {b}
           /\ Append(s, b) \in Seq(Blocks)
<1>1. /\ Append(s, b) \in Seq(Blocks) /\ Len(Append(s, b)) = Len(s) + 1
      /\ \A i \in 1 .. Len(s) : Append(s, b)[i] = s[i]
      /\ Append(s, b)[Len(s) + 1] = b /\ Len(s) \in Nat
      /\ DOMAIN s = 1 .. Len(s) /\ DOMAIN Append(s, b) = 1 .. (Len(s) + 1)
  OBVIOUS
<1>2. ToSet(s) \subseteq Blocks
  BY <1>1 DEF ToSet
<1> DEFINE u == Append(s, b)  n == Len(s)
<1> HIDE DEF u
<1>3. \A i \in 1 .. (n + 1) : i \in 1 .. n \/ i = n + 1
  BY <1>1
<1>4. \A i \in 1 .. n : i \in 1 .. (n + 1)
  BY <1>1
<1>5. n + 1 \in 1 .. (n + 1)
  BY <1>1
<1> HIDE DEF n
<1>6. /\ \A i \in 1 .. n : u[i] = s[i]
      /\ u[n + 1] = b
      /\ DOMAIN s = 1 .. n /\ DOMAIN u = 1 .. (n + 1)
  BY <1>1 DEF u, n
<1>7. {u[i] : i \in DOMAIN u} = {s[i] : i \in DOMAIN s} \cup {b}
  BY <1>3, <1>4, <1>5, <1>6
<1>8. ToSet(u) = ToSet(s) \cup {b}
  BY <1>7 DEF ToSet
<1> QED BY <1>1, <1>2, <1>8 DEF u

LEMMA NoBatch == ToSet(<<>>) = {} /\ <<>> \in Seq(Blocks)
BY DEF ToSet

(* The branch of a known block is known. *)
LEMMA KnownBranch ==
    ASSUME disk \in Records, RecordsInv, NEW b \in disk.index
    PROVE  Branch[b] \subseteq disk.index
BY ClosedSet DEF Records, RecordsInv, DiskIndexComplete

(* The chain on disk stays as it is. *)
LEMMA SameChain ==
    ASSUME ChainInv, disk'.index = disk.index, disk'.next = disk.next,
           disk'.best = disk.best, disk'.connected = disk.connected
    PROVE  ChainInv' /\ UNCHANGED L!vars
BY DEF ChainInv, MainLinks, L!vars
-----------------------------------------------------------------------------
(* Blocks from peers and restarts *)

(* A step outside of a batch keeps the chain on disk and the direct switch,  *)
(* and is a step of the ledger.                                              *)
Good ==
    /\ ChainInv' /\ DirectInv' /\ pending' = Null
    /\ [L!Next]_(L!vars)

(* A block with no more work is learned. *)
LEMMA StoreSideBlockGood ==
    ASSUME Inv, ChainInv, DirectInv, pending = Null, StoreSideBlock
    PROVE  Good
<1>1. /\ pc = "indexed" /\ disk \in Records /\ txn \in Records /\ best = disk.best
      /\ txn.connected = disk.connected /\ txn.next = disk.next
      /\ txn.best = disk.best /\ txn.index = disk.index \cup {cand}
      /\ cand \in AllBlocks /\ cand \notin disk.index /\ Genesis \in disk.index
      /\ cand # Genesis => Prev[cand] \in disk.index
  BY DEF StoreSideBlock, Inv, TypeOK, AheadInv, DirectInv, RecordsInv, DiskIndexComplete
<1>2. cand \in Blocks /\ Prev[cand] \in disk.index
  BY <1>1, TreeType
<1>3. disk' = txn /\ pc' = "accepted" /\ UNCHANGED <<best, pending>>
  BY DEF StoreSideBlock, Commit, memory
<1>4. ChainWork[cand] <= ChainWork[disk.best]
  BY <1>1 DEF StoreSideBlock
<1>5. ChainInv'
  BY <1>1, <1>3, <1>4 DEF ChainInv, MainLinks
<1>6. DirectInv' /\ pending' = Null
  BY <1>1, <1>3 DEF DirectInv
<1>7. L!Learn(cand)
  BY <1>1, <1>2, <1>3, <1>4 DEF L!Learn
<1> QED BY <1>2, <1>5, <1>6, <1>7 DEF L!Next, Good

(* A heavier block becomes the goal of the switch. *)
LEMMA SwitchToNewBlockGood ==
    ASSUME Inv, ChainInv, DirectInv, pending = Null, SwitchToNewBlock
    PROVE  Good
<1>1. /\ pc = "indexed" /\ disk \in Records /\ best = disk.best /\ caller = "accept"
      /\ txn.connected = disk.connected /\ best \in AllBlocks
      /\ cand \in AllBlocks /\ cand \notin disk.index /\ Genesis \in disk.index
      /\ cand # Genesis => Prev[cand] \in disk.index
  BY DEF SwitchToNewBlock, Inv, TypeOK, AheadInv, DirectInv, RecordsInv, DiskIndexComplete
<1>2. cand \in Blocks /\ ChainWork[Prev[cand]] <= ChainWork[best]
  BY <1>1, TreeType DEF ChainInv
<1>3. Intermediate(cand) = cand
  BY <1>1, <1>2, IntermediateDirect
<1>4. /\ pc' = "switch" /\ goal' = cand /\ at' = best /\ ChainWork[cand] > ChainWork[best]
      /\ UNCHANGED <<best, pending, disk, txn, caller, cand>>
  BY <1>3 DEF SwitchToNewBlock, memory
<1>5. ChainInv' /\ UNCHANGED L!vars
  BY <1>4, SameChain
<1>6. DirectInv'
  BY <1>1, <1>4 DEF DirectInv, ChainInv
<1> QED BY <1>4, <1>5, <1>6 DEF Good

(* The blocks of the transaction are those of the branch it has reached. *)
LEMMA WalkGood ==
    ASSUME Inv, ChainInv, DirectInv, pending = Null, Disconnect \/ Connect
    PROVE  Good
<1>1. /\ pc = "switch" /\ at \in AllBlocks /\ goal \in AllBlocks /\ txn \in Records
      /\ txn.connected = Branch[at]
  BY DEF Disconnect, Connect, Inv, TypeOK, DirectInv
<1>2. pc' = pc /\ UNCHANGED <<best, pending, disk, caller, cand, goal>>
  BY DEF Disconnect, Connect, memory
<1>3. txn'.connected = Branch[at']
  <2>1. CASE Disconnect
    <3>1. at \in Blocks
      BY <1>1, <2>1, Rooted, TreeType DEF Disconnect
    <3>2. txn'.connected = txn.connected \ {at}
      BY <1>1, <2>1, <3>1, DisconnectBlockFact DEF Disconnect
    <3> QED BY <1>1, <2>1, <3>1, <3>2, BranchAssumption, Acyclic DEF Disconnect
  <2>2. CASE Connect
    <3> DEFINE b == StepTowards(at, goal)
    <3>1. b \in Blocks /\ Prev[b] = at
      BY <1>1, <2>2, StepTowardsFact DEF Connect
    <3>2. txn' = ConnectBlock(txn, b) /\ at' = b
      BY <2>2 DEF Connect
    <3> HIDE DEF b
    <3>3. txn'.connected = txn.connected \cup {b}
      BY <1>1, <3>1, <3>2, ConnectBlockFact
    <3> QED BY <1>1, <3>1, <3>2, <3>3, BranchAssumption
  <2> QED BY <2>1, <2>2
<1>4. ChainInv' /\ UNCHANGED L!vars
  BY <1>2, SameChain
<1>5. DirectInv'
  BY <1>1, <1>2, <1>3 DEF DirectInv
<1> QED BY <1>2, <1>4, <1>5 DEF Good

(* The commit moves tip, links and coins to the heavier block at once. *)
LEMMA CommitSwitchGood ==
    ASSUME Inv, ChainInv, DirectInv, pending = Null, CommitSwitch
    PROVE  Good
<1>1. /\ pc = "switch" /\ disk \in Records /\ txn \in Records /\ best = disk.best
      /\ caller = "accept" /\ goal = cand /\ at = cand /\ cand \in AllBlocks
      /\ ChainWork[cand] > ChainWork[disk.best] /\ txn.connected = Branch[cand]
      /\ txn.next = Relink(disk.next, disk.best, cand)
      /\ txn.index = disk.index \cup {cand} /\ cand \notin disk.index
      /\ Genesis \in disk.index
      /\ cand # Genesis => Prev[cand] \in disk.index
      /\ disk.next \in Links /\ disk.best \in AllBlocks /\ disk.index \subseteq AllBlocks
  BY DEF CommitSwitch, Inv, TypeOK, AheadInv, DirectInv, RecordsInv, DiskIndexComplete,
         Records
<1>2. cand \in Blocks /\ Prev[cand] \in disk.index
  BY <1>1, TreeType
<1>3. /\ disk' = [txn EXCEPT !.best = cand] /\ pc' = "postponed"
      /\ UNCHANGED <<best, pending, caller, cand, at>>
  BY <1>1 DEF CommitSwitch, Commit
<1>4. /\ disk'.index = disk.index \cup {cand} /\ disk'.best = cand
      /\ disk'.next = Relink(disk.next, disk.best, cand)
      /\ disk'.connected = Branch[cand]
  BY <1>1, <1>3 DEF Records
<1>5. MainLinks(Relink(disk.next, disk.best, cand), cand)
  BY <1>1, RelinkMain DEF ChainInv
<1>6. \A b \in disk'.index : ChainWork[b] <= ChainWork[cand]
  BY <1>1, <1>4, TreeType DEF ChainInv
<1>7. ChainInv'
  BY <1>4, <1>5, <1>6 DEF ChainInv, MainLinks
<1>8. DirectInv'
  BY <1>1, <1>3, <1>4 DEF DirectInv
<1>9. disk.index \cup {cand} = disk.index \cup Branch[cand]
  BY <1>1, <1>2, KnownBranch, BranchAssumption DEF Inv
<1>10. L!Advance(cand)
  BY <1>1, <1>2, <1>4, <1>9 DEF L!Advance
<1> QED BY <1>2, <1>3, <1>7, <1>8, <1>10 DEF L!Next, Good

(* A failed handler leaves the chain on disk and the tip. *)
LEMMA FailsGood ==
    ASSUME Inv, ChainInv, DirectInv, pending = Null,
           \/ IndexWriteFails \/ BeginFails \/ DisconnectFails \/ ConnectFails \/ CommitFails
    PROVE  Good
<1>1. /\ pc \in {"indexed", "switch"} /\ best = disk.best
      /\ cand \in AllBlocks /\ disk \in Records /\ invalidWork \in Nat
  BY DEF IndexWriteFails, BeginFails, DisconnectFails, ConnectFails, CommitFails,
         Inv, TypeOK, DirectInv
<1>2. pc' = "idle" /\ UNCHANGED <<best, pending>>
  BY DEF IndexWriteFails, BeginFails, DisconnectFails, ConnectFails, CommitFails, CallerFails
<1>3. InvalidChainFound(cand) \/ TxnAbort
  BY DEF IndexWriteFails, BeginFails, DisconnectFails, ConnectFails, CommitFails
<1>4. /\ disk'.index = disk.index /\ disk'.next = disk.next
      /\ disk'.best = disk.best /\ disk'.connected = disk.connected
  BY <1>1, <1>3, InvalidChainFoundFact DEF TxnAbort
<1>5. ChainInv' /\ UNCHANGED L!vars
  BY <1>4, SameChain
<1>6. DirectInv'
  BY <1>1, <1>2, <1>4 DEF DirectInv
<1> QED BY <1>2, <1>5, <1>6 DEF Good

(* Every step outside of a batch. *)
LEMMA ChainStateGood ==
    ASSUME NoSurprises, Inv, ChainInv, DirectInv, pending = Null, Next \/ UNCHANGED vars
    PROVE  Good
<1>1. ASSUME disk' = disk, pc' \notin {"newbest", "checkpoint", "postponed", "switch"},
             pending' = Null, pc' # "down" => best' = disk.best,
             pc' = "indexed" => txn'.connected = disk.connected
      PROVE  Good
  BY <1>1, SameChain DEF DirectInv, Good
<1>2. pc # "postponed" \/ (caller = "accept" /\ at = cand /\ disk.best = cand)
  BY DEF DirectInv
<1>3. /\ pc \notin {"newbest", "checkpoint"}
      /\ pc \notin {"postponed", "down"} => best = disk.best
  BY DEF DirectInv
<1>4. CASE UNCHANGED vars
  BY <1>4, SameChain DEF vars, memory, control, DirectInv, Good
<1>5. CASE \E b \in Blocks : AcceptBlock(b)
  <2>1. PICK b \in Blocks : AcceptBlock(b)
    BY <1>5
  <2>2. txn = disk /\ txn \in Records /\ b \in AllBlocks
    BY <2>1, TreeType DEF AcceptBlock, Inv, AheadInv, TypeOK
  <2>3. WriteBlockIndex(txn, b, Null).connected = txn.connected
    BY <2>2 DEF WriteBlockIndex, Records
  <2>4. txn'.connected = disk.connected
    BY <2>1, <2>2, <2>3 DEF AcceptBlock
  <2> QED BY <1>1, <1>3, <2>1, <2>4 DEF AcceptBlock
<1>6. ~ \E h \in Master : ProcessSyncCheckpoint(h)
  BY DEF NoSurprises
<1>7. CASE StoreSideBlock
  BY <1>7, StoreSideBlockGood
<1>8. CASE SwitchToNewBlock
  BY <1>8, SwitchToNewBlockGood
<1>9. CASE Disconnect \/ Connect
  BY <1>9, WalkGood
<1>10. CASE CommitSwitch
  BY <1>10, CommitSwitchGood
<1>11. CASE \/ IndexWriteFails \/ BeginFails \/ DisconnectFails \/ ConnectFails \/ CommitFails
  BY <1>11, FailsGood
<1>12. ~ConnectPostponed /\ ~PostponedFails /\ ~WriteSyncCheckpoint
  BY <1>2, <1>3 DEF ConnectPostponed, PostponedFails, WriteSyncCheckpoint
<1>13. CASE NewBest
  BY <1>1, <1>2, <1>3, <1>13 DEF NewBest
<1>14. CASE AcceptPendingSyncCheckpoint
  <2>1. pending \notin index
    BY TreeAssumption DEF Inv, TypeOK
  <2> QED BY <1>1, <1>3, <1>14, <2>1 DEF AcceptPendingSyncCheckpoint
<1>15. CASE Restart
  BY <1>1, <1>15 DEF Restart, NoSurprises
<1>16. CASE Crash
  BY <1>1, <1>16 DEF Crash, memory
<1> QED
  BY <1>4, <1>5, <1>6, <1>7, <1>8, <1>9, <1>10, <1>11, <1>12, <1>13, <1>14, <1>15, <1>16
     DEF Next, Step
-----------------------------------------------------------------------------
(* Batches *)

(* What the blocks of a batch have in common. *)
LEMMA BatchBasics ==
    ASSUME ChainInv, BatchInv
    PROVE  /\ disk.index \subseteq AllBlocks /\ disk.best \in AllBlocks
           /\ disk.next \in Links /\ disk.best \in disk.index
           /\ Branch[disk.best] \subseteq disk.index
           /\ BatchBlocks \subseteq Blocks
           /\ Branch[best] \subseteq index
           /\ BatchBlocks = Branch[best] \ Branch[disk.best]
<1>1. /\ disk.index \subseteq AllBlocks /\ disk.best \in AllBlocks
      /\ disk.next \in Links /\ disk.best \in disk.index
  BY DEF BatchInv, Records, RecordsInv, DiskIndexComplete
<1>2. Branch[disk.best] \subseteq disk.index
  BY <1>1, KnownBranch DEF BatchInv
<1>3. BatchBlocks \subseteq Blocks
  BY BatchFact, TreeType, NoBatch DEF BatchInv, BatchBlocks, ToSet
<1> QED BY <1>1, <1>2, <1>3 DEF BatchInv

(* The links of memory stay in the index. *)
LEMMA BatchLinks ==
    ASSUME ChainInv, BatchInv
    PROVE  /\ pnext \in Links
           /\ \A x \in AllBlocks : pnext[x] # Null =>
                 pnext[x] = disk.next[x] \/ (x \in Branch[best] /\ pnext[x] \in Branch[best])
<1> DEFINE l == disk.next  f == disk.best
<1>1. l \in Links /\ f \in AllBlocks /\ best \in AllBlocks /\ pnext = Relink(l, f, best)
  BY BatchBasics DEF BatchInv
<1> HIDE DEF l, f
<1>2. /\ Relink(l, f, best) \in Links
      /\ \A x \in AllBlocks : Relink(l, f, best)[x] # Null =>
            \/ Relink(l, f, best)[x] = l[x]
            \/ x \in Branch[best] /\ Relink(l, f, best)[x] \in Branch[best]
  BY <1>1, RelinkType
<1> QED BY <1>1, <1>2 DEF l

(* Begin() finds memory and disk in agreement. *)
LEMMA BeginBatch ==
    ASSUME NEW b \in Blocks, Begin(b), Inv, ChainInv, DirectInv, pending = Null
    PROVE  BatchInv' /\ ChainInv' /\ pending' = Null /\ UNCHANGED L!vars
<1>1. /\ pc = "idle" /\ best = disk.best /\ index = disk.index /\ pnext = disk.next
      /\ txn = disk /\ sync = disk.sync
  BY DEF Begin, Inv, AheadInv, DirectInv
<1>2. /\ UNCHANGED <<memory, disk, txn, caller, cand, goal, at, crashes>>
      /\ vEntries' = <<>> /\ saved' = [best |-> best, next |-> pnext[best]]
  BY DEF Begin
<1>3. Relink(disk.next, disk.best, disk.best) = disk.next
  BY RelinkSelf DEF Inv, TypeOK, Records
<1>4. BatchBlocks' = {} /\ vEntries' \in Seq(Blocks)
  BY <1>2, NoBatch DEF BatchBlocks
<1>5. RecordsInv'
  BY <1>2 DEF Inv, RecordsInv, DiskIndexComplete
<1>6. disk.best \in Branch[disk.best]
  BY TreeType DEF Inv, TypeOK, Records
<1>7. disk.connected = Branch[disk.best]
  BY DEF ChainInv
<1>8. BatchInv'
  BY <1>1, <1>2, <1>3, <1>4, <1>5, <1>6, <1>7 DEF BatchInv, Inv, TypeOK, memory
<1> QED
  BY <1>2, <1>8, SameChain DEF memory

(* One more block: links, tip, coins and index grow by it on both sides. *)
LEMMA AppendBatch ==
    ASSUME NEW b \in Blocks, Append_(b), ChainInv, BatchInv, pending = Null
    PROVE  BatchInv' /\ ChainInv' /\ pending' = Null /\ UNCHANGED L!vars
<1>1. /\ Prev[b] = best /\ b \notin index /\ b \in AllBlocks /\ best \in AllBlocks
      /\ txn \in Records /\ Null \in AllBlocks \cup {Null}
  BY TreeType DEF Append_, IsEligible, BatchInv
<1>2. /\ index' = index \cup {b} /\ best' = b
      /\ pnext' = [pnext EXCEPT ![best] = b]
      /\ vEntries' = Append(vEntries, b)
      /\ txn' = [ConnectBlock(WriteBlockIndex(txn, b, Null), b) EXCEPT !.best = b]
      /\ UNCHANGED <<sync, pending, invalidCp, invalidWork, disk, pc, caller, cand, goal,
                     at, crashes, saved>>
  BY DEF Append_, control
<1>3. BatchBlocks' = BatchBlocks \cup {b} /\ vEntries' \in Seq(Blocks)
  BY <1>2, BatchFact DEF BatchBlocks, BatchInv
<1>4. Branch[b] = Branch[best] \cup {b} /\ b \notin Branch[disk.best] /\ b \notin Branch[best]
  BY <1>1, BranchAssumption, BatchBasics DEF BatchInv
<1>5. pnext' = Relink(disk.next, disk.best, b)
  <2>1. [Relink(disk.next, disk.best, Prev[b]) EXCEPT ![Prev[b]] = b]
           = Relink(disk.next, disk.best, b)
    BY <1>4, RelinkUp, BatchBasics
  <2>2. pnext = Relink(disk.next, disk.best, best)
    BY DEF BatchInv
  <2> QED BY <1>1, <1>2, <2>1, <2>2
<1>6. pnext \in Links /\ pnext[b] = Null
  <2>1. disk.next[b] = Null
    BY <1>1 DEF BatchInv, RecordsInv
  <2>2. /\ Relink(disk.next, disk.best, best) \in Links
        /\ Relink(disk.next, disk.best, best)[b] # Null =>
              \/ Relink(disk.next, disk.best, best)[b] = disk.next[b]
              \/ b \in Branch[best]
    BY <1>1, BatchBasics, RelinkType
  <2> QED BY <1>4, <2>1, <2>2 DEF BatchInv
<1> DEFINE w == WriteBlockIndex(txn, b, Null)
           v == ConnectBlock(w, b)
<1>7. /\ w \in Records /\ w.index = index \cup {b} /\ w.next = pnext
      /\ w.connected = Branch[best] /\ w.sync = sync
  <2>1. /\ WriteBlockIndex(txn, b, Null) \in Records
        /\ WriteBlockIndex(txn, b, Null).index = txn.index \cup {b}
        /\ WriteBlockIndex(txn, b, Null).next = [txn.next EXCEPT ![b] = Null]
        /\ WriteBlockIndex(txn, b, Null).connected = txn.connected
        /\ WriteBlockIndex(txn, b, Null).sync = txn.sync
    BY <1>1 DEF WriteBlockIndex, Records, Links
  <2>2. [pnext EXCEPT ![b] = Null] = pnext
    BY <1>1, <1>6 DEF Links
  <2> QED BY <2>1, <2>2 DEF BatchInv
<1> HIDE DEF w
<1>8. /\ v \in Records /\ v.index = index \cup {b} /\ v.next = pnext'
      /\ v.connected = Branch[b] /\ v.sync = sync
  <2>1. /\ ConnectBlock(w, b) \in Records
        /\ ConnectBlock(w, b).index = w.index \cup {Prev[b]}
        /\ ConnectBlock(w, b).next = [w.next EXCEPT ![Prev[b]] = b]
        /\ ConnectBlock(w, b).sync = w.sync
        /\ ConnectBlock(w, b).connected = w.connected \cup {b}
    BY <1>7, ConnectBlockFact
  <2>2. best \in index
    BY <1>1, BatchBasics, TreeType
  <2> QED BY <1>1, <1>2, <1>4, <1>7, <2>1, <2>2
<1>9. txn' = [v EXCEPT !.best = b]
  BY <1>2 DEF w
<1> HIDE DEF v
<1>10. /\ txn' \in Records /\ txn'.index = index' /\ txn'.next = pnext' /\ txn'.best = b
       /\ txn'.connected = Branch[b] /\ txn'.sync = sync
  BY <1>1, <1>2, <1>8, <1>9 DEF Records
<1>11. RecordsInv'
  BY <1>2 DEF BatchInv, RecordsInv, DiskIndexComplete
<1>12. index' = disk.index \cup BatchBlocks' /\ BatchBlocks' \cap disk.index = {}
  BY <1>1, <1>2, <1>3 DEF BatchInv
<1>13. Branch[b] = Branch[disk.best] \cup BatchBlocks' /\ disk.best \in Branch[b]
  BY <1>3, <1>4 DEF BatchInv
<1>14. BatchInv'
  BY <1>1, <1>2, <1>3, <1>5, <1>10, <1>11, <1>12, <1>13 DEF BatchInv
<1> QED
  BY <1>2, <1>14, SameChain

(* RollbackMemory leaves index, links and tip as the disk has them. *)
LEMMA RollbackFacts ==
    ASSUME ChainInv, BatchInv, RollbackMemory
    PROVE  index' = disk.index /\ pnext' = disk.next /\ best' = disk.best
<1>1. best \in AllBlocks /\ disk.best \in Branch[best] /\ BatchBlocks \cap disk.index = {}
  BY DEF BatchInv
<1>2. index' = disk.index /\ best' = disk.best
  BY DEF RollbackMemory, BatchInv, BatchBlocks
<1> DEFINE f == disk.best
           r(x) == IF x = f THEN disk.next[f]
                   ELSE IF pnext[x] \in BatchBlocks THEN Null ELSE pnext[x]
<1>3. pnext' = [x \in AllBlocks |-> r(x)]
  BY DEF RollbackMemory, BatchInv, BatchBlocks
<1>4. ASSUME NEW x \in AllBlocks PROVE r(x) = disk.next[x]
  <2>1. CASE x = f
    BY <2>1
  <2>2. CASE x # f /\ \E y \in Branch[best] \ Branch[f] : Prev[y] = x
    <3>1. PICK y \in Branch[best] \ Branch[f] : Prev[y] = x
      BY <2>2
    <3>2. /\ x \in Branch[best] /\ StepTowards(x, best) = y /\ y \in Blocks
      BY <1>1, <3>1, BatchBasics, RelinkedFact
    <3>3. pnext[x] = y
      BY <2>2, <3>2 DEF BatchInv, Relink
    <3>4. r(x) = Null
      BY <2>2, <3>1, <3>3, BatchBasics
    <3>5. x \notin Branch[f]
      <4>1. SUFFICES ASSUME x \in Branch[f] PROVE FALSE
        OBVIOUS
      <4>2. f \in AllBlocks /\ x # f
        BY <2>2, BatchBasics
      <4>3. /\ StepTowards(x, f) \in Branch[f] /\ StepTowards(x, f) \in Blocks
            /\ Prev[StepTowards(x, f)] = x
        BY <4>1, <4>2, StepTowardsFact
      <4>4. StepTowards(x, f) \in Branch[best]
        BY <1>1, <4>3, Closed
      <4>5. StepTowards(x, f) = y
        BY <1>1, <3>1, <3>2, <4>3, <4>4, PrevInjective
      <4> QED BY <3>1, <4>3, <4>5
    <3>6. x \notin disk.index
      BY <1>1, <3>2, <3>5, BatchBasics
    <3>7. disk.next[x] = Null
      BY <3>6 DEF BatchInv, RecordsInv
    <3> QED BY <3>4, <3>7
  <2>3. CASE x # f /\ ~ \E y \in Branch[best] \ Branch[f] : Prev[y] = x
    <3>1. Branch[f] \subseteq Branch[best]
      BY <1>1, Closed
    <3>2. pnext[x] = disk.next[x]
      BY <2>3, <3>1 DEF BatchInv, Relink
    <3>3. disk.next[x] \notin BatchBlocks
      <4>1. disk.next[x] # Null => disk.next[x] \in disk.index
        BY DEF BatchInv, RecordsInv, DiskIndexComplete
      <4>2. Null \notin BatchBlocks
        BY BatchBasics, TreeType, TreeAssumption
      <4> QED BY <1>1, <4>1, <4>2
    <3> QED BY <2>3, <3>2, <3>3
  <2> QED BY <2>1, <2>2, <2>3
<1>5. disk.next = [x \in AllBlocks |-> disk.next[x]]
  BY BatchBasics DEF Links
<1> HIDE DEF r
<1>6. pnext' = disk.next
  BY <1>3, <1>4, <1>5
<1> QED BY <1>2, <1>6

(* After the batch is taken back memory is the disk again. *)
LEMMA TakenBack ==
    ASSUME ChainInv, BatchInv, pending = Null, RollbackMemory,
           pc' = "idle", invalidWork' \in Nat, disk' \in Records, txn' = disk',
           disk'.index = disk.index, disk'.next = disk.next,
           disk'.best = disk.best, disk'.connected = disk.connected,
           disk'.sync = disk.sync,
           UNCHANGED <<sync, pending, invalidCp, caller, cand, goal, at, crashes>>
    PROVE  ImportInv' /\ UNCHANGED L!vars
<1>1. index' = disk.index /\ pnext' = disk.next /\ best' = disk.best
  BY RollbackFacts
<1>2. TypeOK'
  BY <1>1, BatchBasics DEF BatchInv, TypeOK
<1>3. PathInv' /\ CheckpointInv'
  BY DEF PathInv, CheckpointInv
<1>4. RecordsInv'
  BY DEF BatchInv, RecordsInv, DiskIndexComplete
<1>5. AheadInv'
  BY <1>1, BatchBasics DEF BatchInv, AheadInv
<1>6. DirectInv'
  BY <1>1 DEF DirectInv
<1>7. ChainInv' /\ UNCHANGED L!vars
  BY SameChain
<1> QED BY <1>2, <1>3, <1>4, <1>5, <1>6, <1>7 DEF ImportInv, Inv
(* A refused block, a read error or a failed commit take the batch back. *)
LEMMA RefusedBatch ==
    ASSUME ChainInv, BatchInv, pending = Null,
           \/ \E b \in Blocks : Abort(b)
           \/ ReadFails
           \/ CommitBatch /\ TxnAbort /\ RollbackMemory
    PROVE  ImportInv' /\ UNCHANGED L!vars
<1>1. disk \in Records /\ invalidWork \in Nat
  BY DEF BatchInv
<1>2. /\ RollbackMemory /\ pc' = "idle"
      /\ UNCHANGED <<sync, pending, invalidCp, caller, cand, goal, at, crashes>>
  BY DEF Abort, ReadFails, CommitBatch
<1>3. \/ TxnAbort /\ UNCHANGED invalidWork
      \/ \E b \in Blocks : InvalidChainFound(b)
  BY DEF Abort, ReadFails, CommitBatch
<1>4. /\ invalidWork' \in Nat /\ disk' \in Records /\ txn' = disk'
      /\ disk'.index = disk.index /\ disk'.next = disk.next
      /\ disk'.best = disk.best /\ disk'.connected = disk.connected
      /\ disk'.sync = disk.sync
  <2>1. CASE TxnAbort /\ UNCHANGED invalidWork
    BY <1>1, <2>1 DEF TxnAbort
  <2>2. CASE \E b \in Blocks : InvalidChainFound(b)
    <3>1. PICK b \in Blocks : InvalidChainFound(b)
      BY <2>2
    <3> QED BY <1>1, <3>1, InvalidChainFoundFact, TreeType
  <2> QED BY <1>3, <2>1, <2>2
<1> QED BY <1>2, <1>4, TakenBack

(* A batch is committed whole: the tip moves to its last block. *)
LEMMA CommittedBatch ==
    ASSUME ChainInv, BatchInv, pending = Null, CommitBatch, Commit(txn),
           UNCHANGED <<index, pnext, best>>
    PROVE  ImportInv' /\ [L!Next]_(L!vars)
<1>1. /\ pc' = "idle" /\ disk' = txn /\ txn' = txn
      /\ UNCHANGED <<sync, pending, invalidCp, invalidWork, caller, cand, goal, at, crashes>>
  BY DEF CommitBatch, Commit
<1>2. /\ txn \in Records /\ txn.index = index /\ txn.next = pnext /\ txn.best = best
      /\ txn.connected = Branch[best] /\ txn.sync = sync /\ best \in AllBlocks
      /\ index = disk.index \cup BatchBlocks /\ sync = disk.sync
      /\ disk.best \in Branch[best] /\ Branch[best] = Branch[disk.best] \cup BatchBlocks
      /\ pnext = Relink(disk.next, disk.best, best)
  BY DEF BatchInv
<1>3. /\ disk.index \subseteq AllBlocks /\ disk.best \in AllBlocks
      /\ disk.next \in Links /\ Branch[disk.best] \subseteq disk.index
      /\ BatchBlocks \subseteq Blocks /\ Branch[best] \subseteq index
  BY BatchBasics
<1>4. MainLinks(pnext, best)
  BY <1>2, <1>3, RelinkMain DEF ChainInv
<1>5. ASSUME NEW b \in index PROVE ChainWork[b] <= ChainWork[best]
  <2>1. CASE b \in disk.index
    <3>1. ChainWork[b] <= ChainWork[disk.best] /\ b \in AllBlocks
      BY <1>3, <2>1 DEF ChainInv
    <3>2. disk.best # best => ChainWork[disk.best] < ChainWork[best]
      BY <1>2, WorkGrows
    <3> QED BY <1>2, <1>3, <3>1, <3>2, TreeType
  <2>2. CASE b \in BatchBlocks
    <3>1. b \in Branch[best] /\ b \in AllBlocks
      BY <1>2, <1>3, <2>2, TreeType
    <3>2. b # best => ChainWork[b] < ChainWork[best]
      BY <1>2, <3>1, WorkGrows
    <3> QED BY <1>2, <3>1, <3>2, TreeType
  <2> QED BY <1>2, <2>1, <2>2
<1>6. ChainInv'
  BY <1>1, <1>2, <1>4, <1>5 DEF ChainInv, MainLinks
<1>7. TypeOK'
  BY <1>1, <1>2, <1>3, BatchLinks, TreeType DEF BatchInv, TypeOK
<1>8. PathInv' /\ CheckpointInv' /\ DirectInv'
  BY <1>1, <1>2 DEF PathInv, CheckpointInv, DirectInv
<1>9. RecordsInv'
  <2>1. /\ Genesis \in disk.index /\ disk.sync \in disk.index
        /\ \A b \in disk.index \ {Genesis} : Prev[b] \in disk.index
        /\ \A b \in AllBlocks : disk.next[b] # Null => disk.next[b] \in disk.index
        /\ \A b \in AllBlocks : disk.next[b] # Null => b \in disk.index
    BY DEF BatchInv, RecordsInv, DiskIndexComplete
  <2>2. best \in index
    BY <1>2, <1>3, TreeType
  <2>3. ASSUME NEW b \in BatchBlocks PROVE Prev[b] \in index
    <3>1. b \in Blocks /\ b \in Branch[best] /\ b \in AllBlocks
      BY <1>2, <1>3, TreeType
    <3>2. Prev[b] \in Branch[best]
      BY <1>2, <3>1, Acyclic, Closed
    <3> QED BY <1>3, <3>2
  <2>4. \A b \in AllBlocks : pnext[b] # Null => pnext[b] \in index /\ b \in index
    <3>1. \A b \in AllBlocks : pnext[b] # Null =>
             \/ pnext[b] = disk.next[b]
             \/ b \in Branch[best] /\ pnext[b] \in Branch[best]
      BY BatchLinks
    <3> QED BY <1>2, <1>3, <2>1, <3>1
  <2> QED BY <1>1, <1>2, <2>1, <2>2, <2>3, <2>4 DEF RecordsInv, DiskIndexComplete
<1>10. AheadInv'
  BY <1>1, <1>2, <1>3, TreeType DEF AheadInv
<1>11. [L!Next]_(L!vars)
  <2>1. CASE best = disk.best
    <3>1. index = disk.index
      BY <1>2, <1>3, <2>1
    <3>2. Branch[best] = disk.connected
      BY <2>1 DEF ChainInv
    <3> QED BY <1>1, <1>2, <2>1, <3>1, <3>2 DEF L!vars
  <2>2. CASE best # disk.best
    <3>1. ChainWork[disk.best] < ChainWork[best]
      BY <1>2, <2>2, WorkGrows
    <3>2. best \in Blocks
      BY <1>2, <2>2, BranchAssumption, TreeType
    <3>3. index = disk.index \cup Branch[best]
      BY <1>2, <1>3
    <3>4. L!Advance(best)
      BY <1>1, <1>2, <1>3, <3>1, <3>3, TreeType DEF L!Advance
    <3> QED BY <3>2, <3>4 DEF L!Next
  <2> QED BY <2>1, <2>2
<1> QED BY <1>1, <1>6, <1>7, <1>8, <1>9, <1>10, <1>11 DEF ImportInv, Inv

(* A crash forgets the batch. *)
LEMMA BatchCrash ==
    ASSUME ChainInv, BatchInv, pending = Null, Crash
    PROVE  ImportInv' /\ UNCHANGED L!vars
<1>1. /\ pc' = "down" /\ txn' = disk /\ crashes < MaxCrashes /\ crashes' = crashes + 1
      /\ UNCHANGED <<index, pnext, best, sync, pending, invalidCp, invalidWork, disk,
                     caller, cand, goal, at>>
  BY DEF Crash, memory
<1>2. pnext \in Links /\ index \subseteq AllBlocks
  BY BatchBasics, BatchLinks, TreeType DEF BatchInv
<1>3. TypeOK'
  BY <1>1, <1>2, ConfigAssumption DEF BatchInv, TypeOK
<1>4. PathInv' /\ CheckpointInv' /\ AheadInv' /\ DirectInv'
  BY <1>1 DEF PathInv, CheckpointInv, AheadInv, DirectInv
<1>5. RecordsInv'
  BY <1>1 DEF BatchInv, RecordsInv, DiskIndexComplete
<1>6. ChainInv' /\ UNCHANGED L!vars
  BY <1>1, SameChain
<1> QED BY <1>1, <1>3, <1>4, <1>5, <1>6 DEF ImportInv, Inv

-----------------------------------------------------------------------------
(* Theorems *)

LEMMA ImportInitInv == ImportInit => ImportInv /\ L!Init
<1> SUFFICES ASSUME ImportInit PROVE ImportInv /\ L!Init
  OBVIOUS
<1>1. Inv
  BY InitInv DEF ImportInit
<1>2. ChainInv
  BY BranchAssumption, TreeType, TreeAssumption
     DEF ImportInit, Init, NoLinks, ChainInv, MainLinks
<1>3. DirectInv /\ pc = "idle" /\ pending = Null
  BY DEF ImportInit, Init, DirectInv
<1>4. L!Init
  BY DEF ImportInit, Init, L!Init
<1> QED BY <1>1, <1>2, <1>3, <1>4 DEF ImportInv

(* Every step keeps the invariant and is a step of the ledger or none. *)
LEMMA ImportStep ==
    NoSurprises /\ ImportInv /\ [ImportNext]_allVars => ImportInv' /\ [L!Next]_(L!vars)
<1> SUFFICES ASSUME NoSurprises, ImportInv, [ImportNext]_allVars
             PROVE  ImportInv' /\ [L!Next]_(L!vars)
  OBVIOUS
<1>1. ChainInv /\ pending = Null
  BY DEF ImportInv
<1>2. CASE pc = "import"
  <2>1. BatchInv
    BY <1>2 DEF ImportInv
  <2>2. CASE UNCHANGED allVars
    BY <1>1, <1>2, <2>1, <2>2, SameChain
       DEF ImportInv, BatchInv, BatchBlocks, RecordsInv, DiskIndexComplete, allVars,
           importVars, vars, memory, control
  <2>3. CASE \E b \in Blocks : Append_(b)
    <3>1. pc' = "import"
      BY <1>2, <2>3 DEF Append_, control
    <3> QED BY <1>1, <2>1, <2>3, <3>1, AppendBatch DEF ImportInv
  <2>4. CASE (\E b \in Blocks : Abort(b)) \/ ReadFails
    BY <1>1, <2>1, <2>4, RefusedBatch
  <2>5. CASE CommitBatch
    <3>1. \/ Commit(txn) /\ UNCHANGED <<index, pnext, best>>
          \/ TxnAbort /\ RollbackMemory
      BY <2>5 DEF CommitBatch
    <3> QED BY <1>1, <2>1, <2>5, <3>1, RefusedBatch, CommittedBatch
  <2>6. CASE Next
    <3>1. Crash
      BY <1>2, <2>6 DEF Next, Step, AcceptBlock, ProcessSyncCheckpoint, StoreSideBlock,
         IndexWriteFails, SwitchToNewBlock, BeginFails, Disconnect, DisconnectFails,
         Connect, ConnectFails, CommitSwitch, CommitFails, ConnectPostponed,
         PostponedFails, NewBest, AcceptPendingSyncCheckpoint, WriteSyncCheckpoint, Restart
    <3> QED BY <1>1, <2>1, <3>1, BatchCrash
  <2>7. ~ \E b \in Blocks : Begin(b)
    BY <1>2 DEF Begin
  <2> QED BY <2>2, <2>3, <2>4, <2>5, <2>6, <2>7 DEF ImportNext, LoadExternalBlockFile
<1>3. CASE pc # "import"
  <2>1. Inv /\ DirectInv
    BY <1>3 DEF ImportInv
  <2>2. CASE \E b \in Blocks : Begin(b)
    <3>1. pc' = "import"
      BY <2>2 DEF Begin
    <3> QED BY <1>1, <2>1, <2>2, <3>1, BeginBatch DEF ImportInv
  <2>3. CASE [Next]_vars
    <3>1. Inv'
      BY <2>1, <2>3, NextInv
    <3>2. Good
      BY <1>1, <2>1, <2>3, ChainStateGood
    <3>3. pc' # "import"
      BY <3>1 DEF Inv, TypeOK
    <3> QED BY <3>1, <3>2, <3>3 DEF ImportInv, Good
  <2>4. ~fActive
    BY <1>3 DEF fActive
  <2> QED
    BY <2>2, <2>3, <2>4 DEF ImportNext, LoadExternalBlockFile, Append_, Abort, ReadFails,
                            CommitBatch, allVars
<1> QED BY <1>2, <1>3

LEMMA ImportInvariance == NoSurprises => (ImportSpec => []ImportInv)
<1>1. NoSurprises => NoSurprises'
  BY DEF NoSurprises
<1> QED BY <1>1, ImportInitInv, ImportStep, PTL DEF ImportSpec

(* Between handlers and batches index, links and tip in memory are those on  *)
(* disk, whatever was refused, failed or crashed (CChainImportBatch,         *)
(* SetBestChain, RollbackBlockIndexEntry).                                   *)
THEOREM MemoryFollowsDisk == NoSurprises => (ImportSpec => []MemoryIsDisk)
<1>1. ImportInv => MemoryIsDisk
  BY DEF ImportInv, Inv, AheadInv, DirectInv, MemoryIsDisk
<1> QED BY <1>1, ImportInvariance, PTL

(* The links on disk are exactly those of the best chain, at every instant a *)
(* crash may choose (ConnectBlock, DisconnectBlock, Reorganize).             *)
THEOREM LinksFollowChain == NoSurprises => (ImportSpec => []MainChainLinks)
<1>1. ImportInv => MainChainLinks
  BY DEF ImportInv, ChainInv, MainLinks, MainChainLinks
<1> QED BY <1>1, ImportInvariance, PTL

(* The blocks on disk, the tip and the coins change as the ledger says: one  *)
(* block is learned, or the tip moves to a heavier block and the coins with  *)
(* it (AddToBlockIndex, SetBestChain, CChainImportBatch::Commit).            *)
THEOREM DurableSteps == NoSurprises => (ImportSpec => LedgerRefined)
<1>1. NoSurprises => NoSurprises'
  BY DEF NoSurprises
<1> QED
  BY <1>1, ImportInitInv, ImportStep, PTL DEF ImportSpec, LedgerRefined, L!Spec
=============================================================================
