------------------------------ MODULE Groupings ------------------------------
(***************************************************************************)
(* listaddressgroupings: the addresses a wallet's transactions tie         *)
(* together, merged into disjoint groups one by one                        *)
(* (CWallet::GetAddressGroupings).                                         *)
(***************************************************************************)
EXTENDS Integers, Sequences, FiniteSets

CONSTANTS
  Addrs,      \* addresses of the wallet
  MaxLinks    \* bound: transactions of ours

VARIABLES
  links,      \* the inputs and the change of every transaction of ours
  lone,       \* addresses paid by some transaction
  todo,       \* groupings that are not merged yet
  unique,     \* uniqueGroupings
  setmap      \* the group of every address met so far

groupVars == <<links, lone, todo, unique, setmap>>

\* Change that coin control sent elsewhere is in no output of ours.
GroupInit ==
  /\ \E n \in 0 .. MaxLinks: links \in [1 .. n -> SUBSET Addrs \ {{}}]
  /\ lone \in SUBSET Addrs
  /\ todo = {links[i]: i \in DOMAIN links} \union {{a}: a \in lone}
  /\ unique = {} /\ setmap = << >>

Hits(grouping) == {setmap[a]: a \in grouping \cap DOMAIN setmap}

\* The set of groupings is ordered by its contents: any order is tried.
Merge ==
  \E grouping \in todo:
    LET hits   == Hits(grouping)
        merged == grouping \union UNION hits
    IN /\ todo' = todo \ {grouping}
       /\ unique' = (unique \ hits) \union {merged}
       /\ setmap' = [a \in DOMAIN setmap \union merged |-> IF a \in merged THEN merged ELSE setmap[a]]
       /\ UNCHANGED <<links, lone>>

GroupSpec == GroupInit /\ [][Merge]_groupVars

----------------------------------------------------------------------------
\* Paths over links, each step inside one transaction.
Reached(a) ==
  LET step(s) == s \union UNION {links[i]: i \in {j \in DOMAIN links: links[j] \cap s # {}}}
      closure[n \in 0 .. MaxLinks] == IF n = 0 THEN {a} ELSE step(closure[n - 1])
  IN closure[MaxLinks]

\* When all groupings are merged the groups are exactly the components of the
\* graph that the transactions draw, every address in one of them, whatever
\* the order of the merges (wallet.cpp:2726): a group that is merged away is
\* never used again (its set is deleted), which setmap must reflect.
GroupsAreComponents ==
  /\ \A a \in DOMAIN setmap: setmap[a] \in unique /\ a \in setmap[a]
  /\ todo = {} => unique = {Reached(a): a \in lone \union UNION {links[i]: i \in DOMAIN links}}
=============================================================================
