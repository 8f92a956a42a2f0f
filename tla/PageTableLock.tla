--------------------------- MODULE PageTableLock ---------------------------
(***************************************************************************)
(* The locking protocol of page table cursors, osxtd/src/mm/page_table:    *)
(* cursor/locking.rs, with what the cursors of cursor/mod.rs do to the     *)
(* nodes they have locked.                                                 *)
(*                                                                         *)
(* Addresses count base pages.  The entries of level 1 nodes take no part  *)
(* in the protocol and are left out.  A node that was taken out of the page*)
(* table is not used again: RCU keeps it until no cursor can refer to it.  *)
(* Nodes of every level can be taken out (C::TOP_LEVEL_CAN_UNMAP).         *)
(***************************************************************************)
EXTENDS Naturals, FiniteSets

CONSTANTS Cursors, Nobody, None, Frame,
          Fan,        \* nr_subpage_per_huge
          NrLevels,   \* C::NR_LEVELS
          HighestTranslationLevel,
          Ranges,     \* bound: the ranges cursors are opened on, [start, end)
          MaxNodes,   \* bound: the nodes ever allocated
          MaxRounds,  \* bound: the cursors ever opened
          MaxOps      \* bound: the changes cursors make

Root == 0
Nodes == 0..MaxNodes
Levels == 1..NrLevels

ASSUME PageTableAssumption ==
  /\ Nobody \notin Cursors
  /\ Fan \in Nat \ {0} /\ NrLevels \in Nat \ {0} /\ HighestTranslationLevel \in Levels
  /\ \A r \in Ranges : r.start \in Nat /\ r.end \in Nat /\ r.start < r.end
                       /\ r.end <= Fan ^ NrLevels
  /\ MaxNodes \in Nat /\ MaxRounds \in Nat /\ MaxOps \in Nat

VARIABLES level,     \* level[n]: the level of node n, 0 if it is not allocated yet
          node_va,   \* node_va[n]: the first address that n covers
          entry,     \* entry[n][i]: entry i of n: None, Frame (a huge page) or a node
          stray,     \* stray[n]
          lock,      \* lock[n]: who holds the lock of n
          pc,        \* pc[c]: where cursor c is
          va,        \* va[c]: its range
          cur,       \* cur[c]: the node it has reached, later its sub-tree root
          guarded,   \* guarded[c]: cur_node_guard holds the lock of cur[c]
          unlocking, \* unlocking[c]: the nodes c still has to unlock, in "stray" and "release"
          nodes,     \* the nodes allocated so far
          rounds,    \* the cursors opened so far
          ops        \* the changes made so far

tree == <<level, node_va, entry, stray, nodes>>
vars == <<tree, lock, pc, va, cur, guarded, unlocking, rounds, ops>>

\* page_size: what an entry of a level covers.
Size(l) == Fan ^ (l - 1)

\* pte_index.
Index(v, l) == (v \div Size(l)) % Fan

IsNode(e) == e \notin {None, Frame}

Empty == [i \in 0..(Fan - 1) |-> None]

NoRange == [start |-> 0, end |-> 0]

Init == /\ level = [n \in Nodes |-> IF n = Root THEN NrLevels ELSE 0]
        /\ node_va = [n \in Nodes |-> 0]
        /\ entry = [n \in Nodes |-> Empty]
        /\ stray = [n \in Nodes |-> FALSE]
        /\ lock = [n \in Nodes |-> Nobody]
        /\ pc = [c \in Cursors |-> "idle"]
        /\ va = [c \in Cursors |-> NoRange]
        /\ cur = [c \in Cursors |-> Root]
        /\ guarded = [c \in Cursors |-> FALSE]
        /\ unlocking = [c \in Cursors |-> {}]
        /\ nodes = 0 /\ rounds = 0 /\ ops = 0

-----------------------------------------------------------------------------
RECURSIVE Subtree(_)
Subtree(n) == {n} \cup UNION {Subtree(m) : m \in {entry[n][i] : i \in {j \in DOMAIN entry[n] :
                                                                   IsNode(entry[n][j])}}}

\* Whether the addresses from v on, len of them, overlap a range or are within it.
Overlaps(v, len, r) == v < r.end /\ r.start < v + len
Within(v, len, r) == r.start <= v /\ v + len <= r.end

\* The nodes dfs_acquire_lock and dfs_release_lock visit, in the order they visit
\* them: the children of a node in dfs_get_idx_range.
Visited(c) == {n \in Subtree(cur[c]) : Overlaps(node_va[n], Size(level[n] + 1), va[c])}

PreOrder(m, n) == node_va[m] < node_va[n] \/ (node_va[m] = node_va[n] /\ level[m] >= level[n])

First(S) == CHOOSE n \in S : \A m \in S : PreOrder(n, m)
Last(S) == CHOOSE n \in S : \A m \in S : PreOrder(m, n)

EntryVa(n, i) == node_va[n] + i * Size(level[n])

\* A new child for entry i of n, with every entry set to fill.  The caller locks
\* it in the same step: the code locks it before it writes the entry.
AllocChild(n, i, fill) ==
  LET new == nodes + 1 IN
  /\ nodes < MaxNodes
  /\ nodes' = new
  /\ level' = [level EXCEPT ![new] = level[n] - 1]
  /\ node_va' = [node_va EXCEPT ![new] = EntryVa(n, i)]
  /\ entry' = [entry EXCEPT ![n][i] = new,
                            ![new] = [j \in DOMAIN Empty |-> IF level[n] > 2 THEN fill
                                                             ELSE None]]
  /\ UNCHANGED stray

Goto(c, step) == pc' = [pc EXCEPT ![c] = step]

-----------------------------------------------------------------------------
(* lock_range.                                                             *)

Open(c) ==
  /\ pc[c] = "idle"
  /\ rounds < MaxRounds
  /\ rounds' = rounds + 1
  /\ \E r \in Ranges : va' = [va EXCEPT ![c] = r]
  /\ cur' = [cur EXCEPT ![c] = Root]
  /\ Goto(c, "traverse")
  /\ UNCHANGED <<tree, lock, guarded, unlocking, ops>>

NextIndex(c) == Index(va[c].start, level[cur[c]])
NextEntry(c) == entry[cur[c]][NextIndex(c)]

LevelTooHigh(c) == /\ level[cur[c]] > 1
                   /\ NextIndex(c) = Index(va[c].end - 1, level[cur[c]])

\* try_traverse_and_lock_subtree_root, one iteration of the loop up to the load
\* of the entry, which takes no lock.
Traverse(c) ==
  /\ pc[c] = "traverse"
  /\ IF LevelTooHigh(c) /\ IsNode(NextEntry(c))
       THEN /\ cur' = [cur EXCEPT ![c] = NextEntry(c)]
            /\ lock' = [lock EXCEPT ![cur[c]] = IF guarded[c] THEN Nobody ELSE @]
            /\ guarded' = [guarded EXCEPT ![c] = FALSE]
            /\ UNCHANGED pc
       ELSE /\ Goto(c, IF LevelTooHigh(c) /\ NextEntry(c) = None THEN "parent" ELSE "root")
            /\ UNCHANGED <<cur, lock, guarded>>
  /\ UNCHANGED <<tree, va, unlocking, rounds, ops>>

CanLock(c, n) == guarded[c] \/ lock[n] = Nobody

\* A stray node was locked: unlock it and start again.
Retry(c) == /\ lock' = [lock EXCEPT ![cur[c]] = Nobody]
            /\ cur' = [cur EXCEPT ![c] = Root]
            /\ guarded' = [guarded EXCEPT ![c] = FALSE]
            /\ Goto(c, "traverse")
            /\ UNCHANGED tree

\* The entry was absent: lock the node, look again, and allocate the child.  The
\* node is unlocked again, the new child stays locked.
LockParent(c) ==
  LET n == cur[c]
      e == NextEntry(c)
  IN
  /\ pc[c] = "parent"
  /\ CanLock(c, n)
  /\ IF stray[n] THEN Retry(c)
     ELSE \/ /\ e = None
             /\ AllocChild(n, NextIndex(c), None)
             /\ lock' = [lock EXCEPT ![n] = Nobody, ![nodes'] = c]
             /\ cur' = [cur EXCEPT ![c] = nodes']
             /\ guarded' = [guarded EXCEPT ![c] = TRUE]
             /\ Goto(c, "traverse")
          \/ /\ e # None
             /\ lock' = [lock EXCEPT ![n] = Nobody]
             /\ guarded' = [guarded EXCEPT ![c] = FALSE]
             /\ IF IsNode(e) THEN cur' = [cur EXCEPT ![c] = e] /\ Goto(c, "traverse")
                            ELSE Goto(c, "root") /\ UNCHANGED cur
             /\ UNCHANGED tree
  /\ UNCHANGED <<va, unlocking, rounds, ops>>

\* The loop has ended: lock the sub-tree root.
LockSubtreeRoot(c) ==
  /\ pc[c] = "root"
  /\ CanLock(c, cur[c])
  /\ IF stray[cur[c]] THEN Retry(c)
       ELSE /\ lock' = [lock EXCEPT ![cur[c]] = c]
            /\ guarded' = [guarded EXCEPT ![c] = FALSE]
            /\ Goto(c, "dfs")
            /\ UNCHANGED <<tree, cur>>
  /\ UNCHANGED <<va, unlocking, rounds, ops>>

\* A mutant: the nodes below are locked from the leaves up.
LastToLock(S) == Last(S)

\* dfs_acquire_lock locks in pre-order.
NextToLock(S) == First(S)

DfsAcquireLock(c) ==
  LET missing == {n \in Visited(c) : lock[n] # c} IN
  /\ pc[c] = "dfs"
  /\ IF missing = {}
       THEN Goto(c, "hold") /\ UNCHANGED lock
       ELSE /\ lock[NextToLock(missing)] = Nobody
            /\ lock' = [lock EXCEPT ![NextToLock(missing)] = c]
            /\ UNCHANGED pc
  /\ UNCHANGED <<tree, va, cur, guarded, unlocking, rounds, ops>>

-----------------------------------------------------------------------------
(* The operations of a cursor on entry i of a node n it has locked.        *)

Change(c, n, i) == /\ pc[c] = "hold"
                   /\ n \in Visited(c)
                   /\ level[n] > 1
                   /\ Overlaps(EntryVa(n, i), Size(level[n]), va[c])
                   /\ ops < MaxOps
                   /\ ops' = ops + 1
                   /\ UNCHANGED <<va, cur, guarded, rounds>>

\* map goes down through an absent entry (alloc_if_none) ...
AllocIfNone(c, n, i) ==
  /\ Change(c, n, i)
  /\ entry[n][i] = None
  /\ AllocChild(n, i, None)
  /\ lock' = [lock EXCEPT ![nodes'] = c]
  /\ UNCHANGED <<pc, unlocking>>

\* A mutant: the child with the smaller pages is not locked.
SplitUnlocked(c, n, i) ==
  /\ Change(c, n, i)
  /\ entry[n][i] = Frame
  /\ AllocChild(n, i, Frame)
  /\ UNCHANGED <<lock, pc, unlocking>>

\* ... and, like find_next_impl, through a huge page (split_if_mapped_huge).
SplitIfMappedHuge(c, n, i) ==
  /\ Change(c, n, i)
  /\ entry[n][i] = Frame
  /\ AllocChild(n, i, Frame)
  /\ lock' = [lock EXCEPT ![nodes'] = c]
  /\ UNCHANGED <<pc, unlocking>>

\* replace_cur_entry, by take_next (the new child is None) and by map of a huge
\* page, on an entry that is within the range.  The node it takes out, if any, is
\* left to MarkStrayAndUnlock with all the nodes below it.
ReplaceCurEntry(c, n, i, new_child) ==
  LET old == entry[n][i] IN
  /\ Change(c, n, i)
  /\ Within(EntryVa(n, i), Size(level[n]), va[c])
  /\ new_child = Frame => level[n] <= HighestTranslationLevel
  /\ old # new_child
  /\ entry' = [entry EXCEPT ![n][i] = new_child]
  /\ IF IsNode(old)
       THEN Goto(c, "stray") /\ unlocking' = [unlocking EXCEPT ![c] = Subtree(old)]
       ELSE UNCHANGED <<pc, unlocking>>
  /\ UNCHANGED <<level, node_va, stray, nodes, lock>>

\* A mutant: only the node that was taken out is marked, not those below it.
MarkOnlyTopStray(c) ==
  LET n == Last(unlocking[c]) IN
  /\ pc[c] = "stray"
  /\ stray' = [stray EXCEPT ![n] = unlocking[c] = {n}]
  /\ lock' = [lock EXCEPT ![n] = Nobody]
  /\ unlocking' = [unlocking EXCEPT ![c] = @ \ {n}]
  /\ Goto(c, IF unlocking[c] = {n} THEN "hold" ELSE "stray")
  /\ UNCHANGED <<level, node_va, entry, nodes, va, cur, guarded, rounds, ops>>

\* dfs_mark_stray_and_unlock, which unlocks a node after the nodes below it.
MarkStrayAndUnlock(c) ==
  LET n == Last(unlocking[c]) IN
  /\ pc[c] = "stray"
  /\ stray' = [stray EXCEPT ![n] = TRUE]
  /\ lock' = [lock EXCEPT ![n] = Nobody]
  /\ unlocking' = [unlocking EXCEPT ![c] = @ \ {n}]
  /\ Goto(c, IF unlocking[c] = {n} THEN "hold" ELSE "stray")
  /\ UNCHANGED <<level, node_va, entry, nodes, va, cur, guarded, rounds, ops>>

-----------------------------------------------------------------------------
(* unlock_range, when the cursor is dropped: dfs_release_lock unlocks what *)
(* it finds in the tree, children before their parent.                     *)

Close(c) ==
  /\ pc[c] = "hold"
  /\ unlocking' = [unlocking EXCEPT ![c] = Visited(c)]
  /\ Goto(c, "release")
  /\ UNCHANGED <<tree, lock, va, cur, guarded, rounds, ops>>

DfsReleaseLock(c) ==
  LET n == Last(unlocking[c]) IN
  /\ pc[c] = "release"
  /\ lock' = [lock EXCEPT ![n] = Nobody]
  /\ unlocking' = [unlocking EXCEPT ![c] = @ \ {n}]
  /\ Goto(c, IF unlocking[c] = {n} THEN "idle" ELSE "release")
  /\ UNCHANGED <<tree, va, cur, guarded, rounds, ops>>

-----------------------------------------------------------------------------
Step(c) == \/ Traverse(c) \/ LockParent(c) \/ LockSubtreeRoot(c) \/ DfsAcquireLock(c)
           \/ MarkStrayAndUnlock(c) \/ Close(c) \/ DfsReleaseLock(c)

Operate(c) == \E n \in 0..nodes, i \in DOMAIN Empty :
                \/ AllocIfNone(c, n, i) \/ SplitIfMappedHuge(c, n, i)
                \/ \E new_child \in {None, Frame} : ReplaceCurEntry(c, n, i, new_child)

Next == \E c \in Cursors : Open(c) \/ Step(c) \/ Operate(c)

Spec == Init /\ [][Next]_vars

\* Cursors live in atomic mode, so their thread keeps running and drops them.
FairSpec == Spec /\ \A c \in Cursors : WF_vars(Step(c))

-----------------------------------------------------------------------------
\* The guarantee of the lock protocol: two cursors that may operate at the same
\* time have disjoint ranges, and neither works on a part of the tree that was
\* taken out, although sub-tree roots are looked up without a lock.
RangesExclusive ==
  \A c \in Cursors :
    /\ pc[c] \in {"dfs", "hold", "stray"} => cur[c] \in Subtree(Root) /\ ~stray[cur[c]]
    /\ \A d \in Cursors : c # d /\ {pc[c], pc[d]} \subseteq {"hold", "stray"}
         => ~Overlaps(va[c].start, va[c].end - va[c].start, va[d])

\* What dfs_release_lock and dfs_mark_stray_and_unlock rely on, whatever a cursor
\* has added, split and removed: it holds exactly the locks of the nodes in its
\* part of the tree, and none once it is dropped.
LocksMatchTree ==
  \A c \in Cursors :
    LET mine == {n \in Nodes : lock[n] = c} IN
    /\ pc[c] \in {"hold", "stray"} => mine = Visited(c) \cup unlocking[c]
    /\ pc[c] = "release" => mine = unlocking[c]
    /\ pc[c] = "idle" => mine = {}

\* lock_range returns: no order of traversal, retry and pre-order locking by
\* several cursors deadlocks.
CursorsOpen ==
  \A c \in Cursors : pc[c] = "traverse" ~> pc[c] = "hold"
=============================================================================
