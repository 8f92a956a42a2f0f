-------------------------- MODULE RwMutexInvariant --------------------------
(***************************************************************************)
(* Proofs about the lock word shared by RwLock and RwMutex, and about what *)
(* RwMutex makes of it together with the wait queue, for any finite set of *)
(* threads, any reader limit and any number of calls: exclusion, the       *)
(* refinement of the abstract lock, and the invariant that the proof about *)
(* sleepers in RwMutexProofs rests on.                                     *)
(***************************************************************************)
EXTENDS RwMutex, MutexProofs, FiniteSetTheorems

-----------------------------------------------------------------------------
(* The lock word.                                                          *)

\* Everything of WordAccounted but the reader count.
BitsAccounted ==
  /\ (lock.u <=> UOwners # {}) /\ AtMostOne(UOwners)
  /\ (lock.w <=> WOwners # {}) /\ AtMostOne(WOwners)
  /\ lock.bu <=> Upgraders # {}
  /\ \A t \in Threads :
       /\ step[t] \in {"undo_read", "undo_upread"} => guard[t] = "none"
       /\ step[t] \in {"upgrade", "downgrade_drop"} => guard[t] = "upread"
       /\ step[t] = "upgrade_drop" => guard[t] = "write"
  /\ WOwners # {} => \A t \in Threads : guard[t] \in {"none", "write"}

\* A reader count of 0 means that nobody owns a reader contribution, and the
\* count is a natural number.
LEMMA ReadersCount ==
  ASSUME LockTypeOK, WordAccounted
  PROVE  /\ IsFiniteSet(Readers)
         /\ Cardinality(Readers) \in Nat
         /\ lock.readers = 0 => Readers = {}
         /\ \A t \in Threads : t \in Readers => lock.readers # 0
<1>1. IsFiniteSet(Readers)
  BY FS_Subset, ThreadsAssumption DEF Readers
<1> QED
  BY <1>1, FS_CardinalityType, FS_EmptySet DEF WordAccounted

\* The type invariant is inductive: no undo or drop underflows the reader count.
LEMMA LockTypeStep ==
  ASSUME LockTypeOK, WordAccounted, LockNext
  PROVE  LockTypeOK'
<1> PICK t \in Threads :
      \/ TryRead(t) \/ UndoRead(t) \/ DropRead(t)
      \/ TryWrite(t) \/ DropWrite(t)
      \/ TryUpread(t) \/ UndoUpread(t) \/ DropUpread(t)
      \/ Upgrade(t) \/ TryUpgrade(t) \/ UpgradeDrop(t)
      \/ TryDowngrade(t) \/ DowngradeDrop(t)
  BY DEF LockNext
<1> USE DEF LockTypeOK, Word, LockSteps, SetGuard, SetStep, Idle, Bits
<1>1. CASE UndoRead(t) \/ DropRead(t)
  <2>1. t \in Readers
    BY <1>1 DEF UndoRead, DropRead, Readers
  <2>2. lock.readers \in Nat /\ lock.readers # 0
    BY <2>1, ReadersCount
  <2> QED
    BY <1>1, <2>2 DEF UndoRead, DropRead
<1>2. CASE TryRead(t)
  BY <1>2 DEF TryRead
<1>3. CASE TryWrite(t) \/ DropWrite(t)
  BY <1>3 DEF TryWrite, DropWrite
<1>4. CASE TryUpread(t) \/ UndoUpread(t) \/ DropUpread(t)
  BY <1>4 DEF TryUpread, UndoUpread, DropUpread
<1>5. CASE Upgrade(t) \/ UpgradeDrop(t) \/ DowngradeDrop(t)
  BY <1>5 DEF Upgrade, UpgradeDrop, DowngradeDrop
<1>6. CASE TryUpgrade(t)
  BY <1>6 DEF TryUpgrade
<1>7. CASE TryDowngrade(t)
  BY <1>7 DEF TryDowngrade
<1> QED
  BY <1>1, <1>2, <1>3, <1>4, <1>5, <1>6, <1>7

\* The reader count follows the set of threads that contribute to it.
LEMMA ReadersStep ==
  ASSUME LockTypeOK, WordAccounted, LockNext
  PROVE  lock'.readers = Cardinality(Readers')
<1> PICK t \in Threads :
      \/ TryRead(t) \/ UndoRead(t) \/ DropRead(t)
      \/ TryWrite(t) \/ DropWrite(t)
      \/ TryUpread(t) \/ UndoUpread(t) \/ DropUpread(t)
      \/ Upgrade(t) \/ TryUpgrade(t) \/ UpgradeDrop(t)
      \/ TryDowngrade(t) \/ DowngradeDrop(t)
  BY DEF LockNext
<1>0. IsFiniteSet(Readers) /\ lock.readers = Cardinality(Readers) /\ Cardinality(Readers) \in Nat
  BY ReadersCount DEF WordAccounted
<1>1. CASE TryRead(t)
  <2>1. t \notin Readers /\ Readers' = Readers \cup {t}
    BY <1>1 DEF TryRead, Idle, SetGuard, SetStep, Readers, LockTypeOK
  <2>2. lock'.readers = lock.readers + 1
    BY <1>1 DEF TryRead, LockTypeOK, Word
  <2> QED
    BY <1>0, <2>1, <2>2, FS_AddElement
<1>2. CASE UndoRead(t) \/ DropRead(t)
  <2>1. t \in Readers /\ Readers' = Readers \ {t}
    BY <1>2 DEF UndoRead, DropRead, Idle, SetGuard, SetStep, Readers, LockTypeOK, WordAccounted
  <2>2. lock'.readers = lock.readers - 1
    BY <1>2 DEF UndoRead, DropRead, LockTypeOK, Word
  <2> QED
    BY <1>0, <2>1, <2>2, FS_RemoveElement
<1>3. CASE TryWrite(t) \/ DropWrite(t) \/ TryUpread(t) \/ UndoUpread(t) \/ DropUpread(t)
  <2>1. Readers' = Readers
    BY <1>3 DEF TryWrite, DropWrite, TryUpread, UndoUpread, DropUpread, Idle, SetGuard, SetStep,
                Readers, LockTypeOK
  <2>2. lock'.readers = lock.readers
    BY <1>3 DEF TryWrite, DropWrite, TryUpread, UndoUpread, DropUpread, LockTypeOK, Word
  <2> QED
    BY <1>0, <2>1, <2>2
<1>4. CASE Upgrade(t) \/ TryUpgrade(t) \/ UpgradeDrop(t) \/ TryDowngrade(t) \/ DowngradeDrop(t)
  <2>1. Readers' = Readers
    BY <1>4 DEF Upgrade, TryUpgrade, UpgradeDrop, TryDowngrade, DowngradeDrop, Idle, SetGuard,
                SetStep, Readers, LockTypeOK
  <2>2. lock'.readers = lock.readers
    BY <1>4 DEF Upgrade, TryUpgrade, UpgradeDrop, TryDowngrade, DowngradeDrop, LockTypeOK, Word, Bits
  <2> QED
    BY <1>0, <2>1, <2>2
<1> QED
  BY <1>1, <1>2, <1>3, <1>4

\* The bits of the word follow their owners.
LEMMA BitsStep ==
  ASSUME LockTypeOK, WordAccounted, LockNext
  PROVE  BitsAccounted'
<1> PICK t \in Threads :
      \/ TryRead(t) \/ UndoRead(t) \/ DropRead(t)
      \/ TryWrite(t) \/ DropWrite(t)
      \/ TryUpread(t) \/ UndoUpread(t) \/ DropUpread(t)
      \/ Upgrade(t) \/ TryUpgrade(t) \/ UpgradeDrop(t)
      \/ TryDowngrade(t) \/ DowngradeDrop(t)
  BY DEF LockNext
<1>0. BitsAccounted /\ (lock.readers = 0 => Readers = {})
  BY ReadersCount DEF WordAccounted, BitsAccounted
<1> USE <1>0 DEF BitsAccounted, UOwners, WOwners, Upgraders, AtMostOne, LockTypeOK, Word, LockSteps,
                 Idle, SetGuard, SetStep, Bits
<1>1. CASE TryRead(t)
  BY <1>1 DEF TryRead, Readable
<1>2. CASE UndoRead(t)
  BY <1>2 DEF UndoRead
<1>3. CASE DropRead(t)
  BY <1>3 DEF DropRead
<1>4. CASE TryWrite(t)
  BY <1>4 DEF TryWrite, Writable, Readers
<1>5. CASE DropWrite(t)
  BY <1>5 DEF DropWrite
<1>6. CASE TryUpread(t)
  BY <1>6 DEF TryUpread
<1>7. CASE UndoUpread(t)
  BY <1>7 DEF UndoUpread
<1>8. CASE DropUpread(t)
  BY <1>8 DEF DropUpread
<1>9. CASE Upgrade(t)
  BY <1>9 DEF Upgrade
<1>10. CASE TryUpgrade(t)
  BY <1>10 DEF TryUpgrade, Readers
<1>11. CASE UpgradeDrop(t)
  BY <1>11 DEF UpgradeDrop
<1>12. CASE TryDowngrade(t)
  BY <1>12 DEF TryDowngrade
<1>13. CASE DowngradeDrop(t)
  BY <1>13 DEF DowngradeDrop
<1> QED
  BY <1>1, <1>2, <1>3, <1>4, <1>5, <1>6, <1>7, <1>8, <1>9, <1>10, <1>11, <1>12, <1>13

\* Initially nobody contributes to the word, which is 0.
LEMMA AccountedInit == LockInit => LockTypeOK /\ WordAccounted
<1> SUFFICES ASSUME LockInit PROVE LockTypeOK /\ WordAccounted
  OBVIOUS
<1>1. Readers = {} /\ UOwners = {} /\ WOwners = {} /\ Upgraders = {}
  BY DEF LockInit, Readers, UOwners, WOwners, Upgraders
<1>2. lock.readers = Cardinality(Readers)
  BY <1>1, FS_EmptySet DEF LockInit, Bits
<1> QED
  BY <1>1, <1>2 DEF LockInit, LockTypeOK, WordAccounted, Word, LockSteps, Bits, AtMostOne

\* Accounting for the word is an invariant: the drops and the undoing steps of
\* RwLock and RwMutex give back exactly what their thread put in, in every
\* interleaving.
THEOREM WordIsAccounted == LockSpec => [](LockTypeOK /\ WordAccounted)
<1>1. LockTypeOK /\ WordAccounted /\ [LockNext]_rwVars => (LockTypeOK /\ WordAccounted)'
  <2> SUFFICES ASSUME LockTypeOK, WordAccounted, [LockNext]_rwVars
               PROVE  (LockTypeOK /\ WordAccounted)'
    OBVIOUS
  <2>1. CASE LockNext
    <3>1. LockTypeOK' /\ BitsAccounted' /\ lock'.readers = Cardinality(Readers')
      BY <2>1, LockTypeStep, BitsStep, ReadersStep
    <3> QED
      BY <3>1 DEF WordAccounted, BitsAccounted
  <2>2. CASE UNCHANGED rwVars
    BY <2>2 DEF rwVars, LockTypeOK, WordAccounted, Readers, UOwners, WOwners, Upgraders, AtMostOne
  <2> QED
    BY <2>1, <2>2
<1> QED
  BY AccountedInit, <1>1, PTL DEF LockSpec

\* The lock word keeps its type: no interleaving of drops and undoing steps takes the
\* reader count below 0.
THEOREM LockTyped == LockSpec => []LockTypeOK
  BY WordIsAccounted, PTL

\* The accounting implies what callers rely on.
LEMMA AccountedExcludes ==
  ASSUME LockTypeOK, WordAccounted
  PROVE  GuardExclusion
BY DEF LockTypeOK, WordAccounted, GuardExclusion, UOwners, WOwners, AtMostOne

\* Mutual exclusion: a write guard excludes every other guard and there is at
\* most one upread guard, for every number of threads and every reader limit.
THEOREM GuardsExclude == LockSpec => []GuardExclusion
BY WordIsAccounted, AccountedExcludes, PTL

\* A step of the lock word is a step of the abstract lock or leaves the guards
\* alone.
LEMMA LockStepRefines ==
  ASSUME LockTypeOK, WordAccounted, LockNext
  PROVE  [RW!Next]_guard
<1> PICK t \in Threads :
      \/ TryRead(t) \/ UndoRead(t) \/ DropRead(t)
      \/ TryWrite(t) \/ DropWrite(t)
      \/ TryUpread(t) \/ UndoUpread(t) \/ DropUpread(t)
      \/ Upgrade(t) \/ TryUpgrade(t) \/ UpgradeDrop(t)
      \/ TryDowngrade(t) \/ DowngradeDrop(t)
  BY DEF LockNext
<1>0. lock.readers = 0 => Readers = {}
  BY ReadersCount
<1> USE DEF RW!Next, RW!Become, SetGuard, Idle
<1>1. CASE UndoRead(t) \/ UndoUpread(t) \/ Upgrade(t) \/ UpgradeDrop(t) \/ DowngradeDrop(t)
  BY <1>1 DEF UndoRead, UndoUpread, Upgrade, UpgradeDrop, DowngradeDrop
<1>2. CASE DropRead(t) \/ DropWrite(t) \/ DropUpread(t)
  <2>1. RW!Drop(t)
    BY <1>2 DEF DropRead, DropWrite, DropUpread, RW!Drop
  <2> QED
    BY <2>1
<1>3. CASE TryRead(t)
  <2>1. CASE Readable
    <3>1. "write" \notin RW!Others(t)
      BY <2>1 DEF Readable, WordAccounted, WOwners, RW!Others
    <3>2. guard[t] = "none" /\ SetGuard(t, "read")
      BY <1>3, <2>1 DEF TryRead
    <3>3. RW!Read(t)
      BY <3>1, <3>2 DEF RW!Read
    <3> QED
      BY <3>3
  <2>2. CASE ~Readable
    BY <1>3, <2>2 DEF TryRead
  <2> QED
    BY <2>1, <2>2
<1>4. CASE TryWrite(t)
  <2>1. ~lock.w /\ ~lock.u /\ lock.readers = 0
    BY <1>4 DEF TryWrite, Writable, Bits
  <2>2. RW!Others(t) \subseteq {"none"}
    BY <1>0, <2>1 DEF WordAccounted, WOwners, UOwners, Readers, LockTypeOK, RW!Others
  <2>3. RW!Write(t)
    BY <1>4, <2>2 DEF TryWrite, RW!Write
  <2> QED
    BY <2>3
<1>5. CASE TryUpread(t)
  <2>1. CASE ~lock.w /\ ~lock.u
    <3>1. RW!Others(t) \cap {"write", "upread"} = {}
      BY <2>1 DEF WordAccounted, WOwners, UOwners, RW!Others
    <3>2. guard[t] = "none" /\ SetGuard(t, "upread")
      BY <1>5, <2>1 DEF TryUpread
    <3>3. RW!Upread(t)
      BY <3>1, <3>2 DEF RW!Upread
    <3> QED
      BY <3>3
  <2>2. CASE lock.w \/ lock.u
    BY <1>5, <2>2 DEF TryUpread
  <2> QED
    BY <2>1, <2>2
<1>6. CASE TryUpgrade(t)
  <2>1. guard[t] = "upread" /\ ~lock.w /\ lock.readers = 0
    BY <1>6 DEF TryUpgrade, Bits
  <2>2. RW!Others(t) \subseteq {"none"}
    BY <1>0, <2>1 DEF WordAccounted, WOwners, UOwners, AtMostOne, Readers, LockTypeOK, RW!Others
  <2>3. RW!Upgrade(t)
    BY <1>6, <2>2 DEF TryUpgrade, RW!Upgrade
  <2> QED
    BY <2>3
<1>7. CASE TryDowngrade(t)
  <2>1. RW!Downgrade(t)
    BY <1>7 DEF TryDowngrade, RW!Downgrade
  <2> QED
    BY <2>1
<1> QED
  BY <1>1, <1>2, <1>3, <1>4, <1>5, <1>6, <1>7

\* The lock word implements the abstract readers-writer lock: guards change only
\* in permitted, atomic steps, for every number of threads.
THEOREM LockRefines == LockSpec => ImplementsReadersWriters
<1>1. LockInit => RW!Init
  BY DEF LockInit, RW!Init
<1>2. LockTypeOK /\ WordAccounted /\ [LockNext]_rwVars => [RW!Next]_guard
  BY LockStepRefines DEF rwVars
<1> QED
  BY <1>1, <1>2, WordIsAccounted, PTL DEF LockSpec, RW!Spec, ImplementsReadersWriters

-----------------------------------------------------------------------------
(* RwMutex and the lock word.                                              *)

\* Whatever a thread does to the word is one of the steps of RwLock.
LEMMA StepOnWord ==
  ASSUME NEW t \in Threads,
         Step(t) \/ \E kind \in Kinds : Call(t, kind)
  PROVE  \/ TryRead(t) \/ UndoRead(t) \/ DropRead(t)
         \/ TryWrite(t) \/ DropWrite(t)
         \/ TryUpread(t) \/ UndoUpread(t) \/ DropUpread(t)
         \/ Upgrade(t) \/ TryUpgrade(t) \/ UpgradeDrop(t)
         \/ TryDowngrade(t) \/ DowngradeDrop(t)
         \/ UNCHANGED rwVars
<1>1. CASE \E kind \in Kinds : Call(t, kind)
  BY <1>1 DEF Call
<1>2. CASE UpgradeStep(t) \/ DowngradeStep(t)
  BY <1>2 DEF UpgradeStep, DowngradeStep
<1>3. CASE ReadCond(t) \/ WriteCond(t) \/ UpreadCond(t) \/ Undo(t)
  BY <1>3 DEF ReadCond, WriteCond, UpreadCond, Undo
<1>4. CASE ReadGuardDrop(t) \/ WriteGuardDrop(t) \/ UpgradeableGuardDrop(t) \/ Queue(t)
  BY <1>4 DEF ReadGuardDrop, WriteGuardDrop, UpgradeableGuardDrop, Queue
<1>5. QED
  BY <1>1, <1>2, <1>3, <1>4 DEF Step

\* Hence a step of RwMutex is a step of the lock word's protocol, or leaves it alone.
LEMMA NextOnWord == [Next]_vars => [LockNext]_rwVars
<1>1. CASE \E t \in Threads : Step(t) \/ \E kind \in Kinds : Call(t, kind)
  BY <1>1, StepOnWord DEF LockNext
<1>2. CASE Done \/ UNCHANGED vars
  BY <1>2 DEF Done, vars
<1>3. QED
  BY <1>1, <1>2 DEF Next

\* The sleeping lock implements the lock word's protocol.
THEOREM RwMutexImplements == Spec => ImplementsRwLock
<1>1. Init => LockInit
  BY DEF Init
<1>2. QED
  BY <1>1, NextOnWord, PTL DEF Spec, LockSpec, ImplementsRwLock

\* As the word excludes guards that conflict, so does the sleeping lock: a writer is
\* alone, and an upgradeable reader shares only with readers.
THEOREM RwMutexExcludes == Spec => []GuardExclusion
BY RwMutexImplements, GuardsExclude, PTL DEF ImplementsRwLock

\* What an RwMutex keeps true between its word, its queue and its calls.
ProtocolInv ==
  /\ QueueInv
  /\ LastWaker
  /\ \A t \in Threads :
       /\ pc[t] = "undo" <=> step[t] \in {"undo_read", "undo_upread"}
       /\ pc[t] = "drop_waiter" => guard[t] # "none"
       /\ waiter[t] => op[t] \in Sleeping

\* The inductive invariant of RwMutex: types, the accounting of the word, the protocol.
RwMutexInv == TypeOK /\ WordAccounted /\ ProtocolInv

-----------------------------------------------------------------------------
(* RwMutex and the queue.                                                  *)

\* What the queue relies on is part of the invariant.
LEMMA QueueFacts == RwMutexInv => QueueOK /\ LastWaker
BY DEF RwMutexInv, TypeOK, ProtocolInv, QueueOK

\* An attempt that fails goes on inside wait_until, or returns from a call that does
\* not sleep; both are steps the queue knows of.
LEMMA FailedIsClientStep ==
  ASSUME RwMutexInv, NEW t \in Threads, pc[t] \in {"cond", "undo"}, Failed(t)
  PROVE  ClientStep(t)
<1>1. CASE op[t] \in Sleeping
  BY <1>1 DEF Failed, ClientStep
<1>2. CASE op[t] \notin Sleeping
  <2>1. ~waiter[t]
    BY <1>2 DEF RwMutexInv, ProtocolInv
  <2>2. CondSome(t)
    BY <1>2, <2>1 DEF Failed, CondSome
  <2>3. QED
    BY <2>2 DEF ClientStep
<1>3. QED
  BY <1>1, <1>2

\* Every step of RwMutex is a client's step around the queue or a step of the queue.
LEMMA StepIsQueueStep ==
  ASSUME RwMutexInv, NEW t \in Threads, Step(t) \/ \E kind \in Kinds : Call(t, kind)
  PROVE  ClientStep(t) \/ QueueStep(t)
<1>1. CASE \E kind \in Kinds : Call(t, kind)
  BY <1>1 DEF Call, ClientStep
<1>2. CASE UpgradeStep(t) \/ DowngradeStep(t)
  BY <1>2 DEF UpgradeStep, DowngradeStep, ClientStep
<1>3. CASE ReadCond(t) \/ WriteCond(t) \/ UpreadCond(t) \/ Undo(t)
  <2>1. Failed(t) /\ pc[t] \in {"cond", "undo"} => ClientStep(t)
    BY FailedIsClientStep
  <2>2. QED
    BY <1>3, <2>1 DEF ReadCond, WriteCond, UpreadCond, Undo, ClientStep
<1>4. CASE ReadGuardDrop(t) \/ WriteGuardDrop(t) \/ UpgradeableGuardDrop(t)
  BY <1>4, Zenon DEF ReadGuardDrop, WriteGuardDrop, UpgradeableGuardDrop, ClientStep
<1>5. CASE Queue(t)
  BY <1>5 DEF Queue
<1>6. QED
  BY <1>1, <1>2, <1>3, <1>4, <1>5 DEF Step

\* A step of a thread keeps the types.
LEMMA TypeKept ==
  ASSUME RwMutexInv, NEW t \in Threads, Step(t) \/ \E kind \in Kinds : Call(t, kind)
  PROVE  TypeOK'
<1>1. ClientStep(t) \/ QueueStep(t)
  BY StepIsQueueStep
<1>2. QueueTypeOK' /\ pc' \in [Threads -> QueueSteps \cup {"run", "cond", "undo"}]
  BY <1>1, QueueFacts, QueueKept DEF QueueOK
<1>3. LockTypeOK'
  <2>1. LockNext \/ UNCHANGED rwVars
    BY StepOnWord DEF LockNext
  <2>2. QED
    BY <2>1, LockTypeStep DEF RwMutexInv, TypeOK, rwVars, LockTypeOK
<1>4. op' \in [Threads -> AllKinds \cup {"none"}]
  BY RwMutexAssumption DEF RwMutexInv, TypeOK, Step, Call
<1>5. ops' \in 0..MaxOps
  BY RwMutexAssumption DEF RwMutexInv, TypeOK, Step, Call, UpgradeStep, DowngradeStep, Counted
<1>6. QED
  BY <1>2, <1>3, <1>4, <1>5 DEF TypeOK

\* How a failed attempt leaves the queue's state.
LEMMA AfterFailed ==
  ASSUME RwMutexInv, NEW t \in Threads, pc[t] \in {"cond", "undo"}, Failed(t)
  PROVE  /\ pc' = [pc EXCEPT ![t] = pc'[t]]
         /\ pc'[t] \in {"run", "enqueue", "wait"}
         /\ op[t] \in Sleeping => pc'[t] = IF waiter[t] THEN "wait" ELSE "enqueue"
         /\ op[t] \notin Sleeping => pc'[t] = "run" /\ ~waiter[t]
         /\ waiter' = [waiter EXCEPT ![t] = op[t] \in Sleeping]
         /\ \A u \in Threads : has_woken'[u] = IF u = t /\ ~waiter[t] /\ op[t] \in Sleeping
                                                 THEN FALSE ELSE has_woken[u]
         /\ UNCHANGED <<wakers, wakers_lock, num_wakers, waking, wake_kind>>
<1>1. pc \in [Threads -> QueueSteps \cup {"run", "cond", "undo"}] /\ waiter \in [Threads -> BOOLEAN]
      /\ has_woken \in [Threads -> BOOLEAN]
  BY DEF RwMutexInv, TypeOK, QueueTypeOK
<1>2. CASE op[t] \notin Sleeping
  <2>1. ~waiter[t]
    BY <1>2 DEF RwMutexInv, ProtocolInv
  <2>2. pc' = [pc EXCEPT ![t] = "run"] /\ UNCHANGED wqVars
    BY <1>2 DEF Failed, Goto
  <2>3. waiter = [waiter EXCEPT ![t] = FALSE]
    BY <1>1, <2>1
  <2>4. QED
    BY <1>1, <1>2, <2>1, <2>2, <2>3 DEF wqVars
<1>3. CASE op[t] \in Sleeping /\ waiter[t]
  <2>1. pc' = [pc EXCEPT ![t] = "wait"] /\ UNCHANGED wqVars
    BY <1>3 DEF Failed, CondNone, Goto
  <2>2. waiter = [waiter EXCEPT ![t] = TRUE]
    BY <1>1, <1>3
  <2>3. QED
    BY <1>1, <1>3, <2>1, <2>2, Zenon DEF wqVars
<1>4. CASE op[t] \in Sleeping /\ ~waiter[t]
  <2>1. /\ pc' = [pc EXCEPT ![t] = "enqueue"]
        /\ waiter' = [waiter EXCEPT ![t] = TRUE]
        /\ has_woken' = [has_woken EXCEPT ![t] = FALSE]
        /\ UNCHANGED <<wakers, wakers_lock, num_wakers, waking, wake_kind>>
    BY <1>4 DEF Failed, CondNone, Goto
  <2>2. QED
    BY <1>1, <1>4, <2>1, Zenon
<1>5. QED
  BY <1>2, <1>3, <1>4, Zenon

\* The step variable of the word and the program counter agree on undoing, and a
\* Waiter is dropped by a thread that has got its guard.
LEMMA UndoAndDropKept ==
  ASSUME RwMutexInv, NEW t \in Threads, Step(t) \/ \E kind \in Kinds : Call(t, kind)
  PROVE  \A u \in Threads : /\ pc'[u] = "undo" <=> step'[u] \in {"undo_read", "undo_upread"}
                            /\ pc'[u] = "drop_waiter" => guard'[u] # "none"
<1>0. /\ pc \in [Threads -> QueueSteps \cup {"run", "cond", "undo"}]
      /\ step \in [Threads -> LockSteps]
      /\ guard \in [Threads -> {"none", "read", "upread", "write"}]
      /\ \A u \in Threads : /\ pc[u] = "undo" <=> step[u] \in {"undo_read", "undo_upread"}
                            /\ pc[u] = "drop_waiter" => guard[u] # "none"
  BY DEF RwMutexInv, TypeOK, LockTypeOK, ProtocolInv
<1> USE DEF SetStep, SetGuard, Idle, Goto
<1>1. CASE \E kind \in Kinds : Call(t, kind)
  BY <1>0, <1>1 DEF Call, rwVars
<1>2. CASE UpgradeStep(t)
  BY <1>0, <1>2, Zenon DEF UpgradeStep, Upgrade, TryUpgrade, UpgradeDrop
<1>3. CASE DowngradeStep(t)
  BY <1>0, <1>3, Zenon DEF DowngradeStep, TryDowngrade, DowngradeDrop, CallWake
<1>4. CASE ReadCond(t)
  BY <1>0, <1>4 DEF ReadCond, TryRead, CondSome
<1>5. CASE WriteCond(t)
  <2>1. CASE TryWrite(t) /\ CondSome(t)
    BY <1>0, <1>5, <2>1 DEF WriteCond, TryWrite, CondSome
  <2>2. CASE Failed(t) /\ UNCHANGED rwVars
    <3>1. pc' = [pc EXCEPT ![t] = pc'[t]] /\ pc'[t] \in {"run", "enqueue", "wait"} /\ pc[t] = "cond"
      BY <1>5, <2>2, AfterFailed, Zenon DEF WriteCond
    <3>2. QED
      BY <1>0, <2>2, <3>1 DEF rwVars
  <2>3. QED
    BY <1>5, <2>1, <2>2 DEF WriteCond
<1>6. CASE UpreadCond(t)
  <2>1. CASE lock.u
    <3>1. Failed(t) /\ UNCHANGED <<guard, step>> /\ pc[t] = "cond"
      BY <1>6, <2>1 DEF UpreadCond, TryUpread
    <3>2. pc' = [pc EXCEPT ![t] = pc'[t]] /\ pc'[t] \in {"run", "enqueue", "wait"}
      BY <3>1, AfterFailed, Zenon
    <3>3. QED
      BY <1>0, <3>1, <3>2
  <2>2. CASE ~lock.u
    BY <1>0, <1>6, <2>2 DEF UpreadCond, TryUpread, CondSome
  <2>3. QED
    BY <2>1, <2>2
<1>7. CASE Undo(t)
  <2>1. step' = [step EXCEPT ![t] = "run"] /\ guard' = guard /\ Failed(t) /\ pc[t] = "undo"
    BY <1>7 DEF Undo, UndoRead, UndoUpread
  <2>2. pc' = [pc EXCEPT ![t] = pc'[t]] /\ pc'[t] \in {"run", "enqueue", "wait"}
    BY <2>1, AfterFailed, Zenon
  <2>3. QED
    BY <1>0, <2>1, <2>2
<1>8. CASE ReadGuardDrop(t) \/ WriteGuardDrop(t) \/ UpgradeableGuardDrop(t)
  <2>1. /\ pc[t] = "run" /\ (pc' = pc \/ pc' = [pc EXCEPT ![t] = "wake"])
        /\ guard' = [guard EXCEPT ![t] = "none"] /\ step' = step
    BY <1>8, Zenon DEF ReadGuardDrop, WriteGuardDrop, UpgradeableGuardDrop, DropRead, DropWrite, DropUpread,
                CallWake
  <2>2. QED
    BY <1>0, <2>1
<1>9. CASE Queue(t)
  <2>1. UNCHANGED <<guard, step>>
    BY <1>9 DEF Queue, rwVars
  <2>2. CASE WaitStep(t)
    BY <1>0, <2>1, <2>2 DEF WaitStep, EnqueuePush, EnqueueNum, DoWait, ParkCurrent, DropWaiter
  <2>3. CASE WakeStep(t)
    BY <1>0, <2>1, <2>3 DEF WakeStep, IsEmpty, PopFront, WakeReturns, PopNum, WakeUpFalse, WakeUpTrue,
                            UnparkTarget
  <2>4. QED
    BY <1>9, <2>2, <2>3 DEF Queue, QueueStep
<1>10. QED
  BY <1>1, <1>2, <1>3, <1>4, <1>5, <1>6, <1>7, <1>8, <1>9 DEF Step

\* Only a sleeping call creates a Waiter, and it drops it before it returns.
LEMMA WaiterOpKept ==
  ASSUME RwMutexInv, NEW t \in Threads, Step(t) \/ \E kind \in Kinds : Call(t, kind), NEW u \in Threads, waiter'[u]
  PROVE  op'[u] \in Sleeping
<1>0. /\ waiter \in [Threads -> BOOLEAN] /\ op \in [Threads -> AllKinds \cup {"none"}]
      /\ waiter[u] => op[u] \in Sleeping
  BY DEF RwMutexInv, TypeOK, QueueTypeOK, ProtocolInv
<1>1. QueueInv' /\ (ClientStep(t) \/ QueueStep(t))
  BY StepIsQueueStep, QueueFacts, QueueKept DEF QueueOK
<1>2. pc'[u] # "run"
  BY <1>1 DEF QueueInv
<1>3. CASE \E kind \in Kinds : Call(t, kind)
  <2>1. waiter' = waiter /\ pc[t] = "run" /\ (u # t => op'[u] = op[u])
    BY <1>0, <1>3 DEF Call, wqVars
  <2>2. ~waiter[t]
    BY <2>1 DEF RwMutexInv, ProtocolInv, QueueInv
  <2>3. QED
    BY <1>0, <2>1, <2>2
<1>4. CASE Step(t)
  <2>1. op'[u] = op[u]
    BY <1>0, <1>2, <1>4 DEF Step
  <2>2. ASSUME ~waiter[u] PROVE op[u] \in Sleeping
    <3>1. CASE ClientStep(t)
      <4>1. u = t /\ pc[t] \in {"cond", "undo"} /\ CondNone(t)
        BY <1>0, <2>2, <3>1 DEF ClientStep, CondSome, CondNone, CallWake, wqVars
      <4>2. Failed(t)
        <5>1. pc'[t] \in {"enqueue", "wait"} /\ waiter' # waiter
          BY <1>0, <2>2, <4>1, Zenon DEF CondNone, Goto, RwMutexInv, TypeOK
        <5>2. CASE UpgradeStep(t) \/ DowngradeStep(t)
          BY <4>1, <5>2 DEF UpgradeStep, DowngradeStep
        <5>3. CASE ReadCond(t) \/ WriteCond(t) \/ UpreadCond(t) \/ Undo(t)
          BY <5>1, <5>3, Zenon DEF ReadCond, WriteCond, UpreadCond, Undo, CondSome, wqVars
        <5>4. CASE ReadGuardDrop(t) \/ WriteGuardDrop(t) \/ UpgradeableGuardDrop(t)
          BY <4>1, <5>4, Zenon DEF ReadGuardDrop, WriteGuardDrop, UpgradeableGuardDrop
        <5>5. CASE Queue(t)
          BY <4>1, <5>5 DEF Queue, QueueStep, WaitStep, EnqueuePush, EnqueueNum, DoWait, ParkCurrent,
               DropWaiter, WakeStep, IsEmpty, PopFront, PopNum, WakeUpFalse, WakeUpTrue, UnparkTarget
        <5>6. QED
          BY <1>4, <5>2, <5>3, <5>4, <5>5 DEF Step
      <4>3. QED
        BY <1>2, <4>1, <4>2, AfterFailed, Zenon
    <3>2. CASE QueueStep(t)
      BY <1>0, <2>2, <3>2 DEF QueueStep, WaitStep, EnqueuePush, EnqueueNum, DoWait, ParkCurrent,
         DropWaiter, WakeStep, IsEmpty, PopFront, WakeReturns, PopNum, WakeUpFalse, WakeUpTrue, UnparkTarget, wqVars
    <3>3. QED
      BY <1>1, <3>1, <3>2
  <2>3. QED
    BY <1>0, <2>1, <2>2
<1>5. QED
  BY <1>3, <1>4

\* A step of a thread keeps the inductive invariant.
LEMMA RwMutexInvKept ==
  ASSUME RwMutexInv, NEW t \in Threads, Step(t) \/ \E kind \in Kinds : Call(t, kind)
  PROVE  RwMutexInv'
<1>1. TypeOK'
  BY TypeKept
<1>2. WordAccounted'
  <2>1. CASE LockNext
    <3>1. BitsAccounted' /\ lock'.readers = Cardinality(Readers')
      BY <2>1, BitsStep, ReadersStep DEF RwMutexInv, TypeOK
    <3>2. QED
      BY <3>1 DEF WordAccounted, BitsAccounted
  <2>2. CASE UNCHANGED rwVars
    BY <2>2 DEF RwMutexInv, rwVars, WordAccounted, Readers, UOwners, WOwners, Upgraders, AtMostOne
  <2>3. QED
    BY <2>1, <2>2, StepOnWord DEF LockNext
<1>3. ProtocolInv'
  <2>1. QueueInv' /\ (ClientStep(t) \/ QueueStep(t))
    BY StepIsQueueStep, QueueFacts, QueueKept DEF QueueOK
  <2>2. QED
    BY <2>1, UndoAndDropKept, WaiterOpKept, QueueFacts, LastWakerKept DEF ProtocolInv
<1>4. QED
  BY <1>1, <1>2, <1>3 DEF RwMutexInv

\* It holds of a new lock on which no call has started.
LEMMA RwMutexInvInit == Init => RwMutexInv
<1> SUFFICES ASSUME Init PROVE RwMutexInv
  OBVIOUS
<1>1. LockTypeOK /\ WordAccounted
  BY AccountedInit DEF Init
<1>2. <<>> \in Seq(Threads \cup {Closed}) /\ 0 \in 0..MaxOps
  BY RwMutexAssumption
<1>3. QueueTypeOK
  BY <1>2, Zenon DEF Init, QueueInit, QueueTypeOK
<1>4. TypeOK
  BY <1>1, <1>2, <1>3 DEF Init, TypeOK
<1>5. QueueInv
  BY WaitQueueAssumption DEF Init, QueueInit, QueueInv, NumWakersIsLen, WokenIsUnparked, InQueue, Popped,
                             WakeSteps
<1>6. ProtocolInv
  BY <1>5 DEF Init, QueueInit, LockInit, ProtocolInv, LastWaker
<1>7. QED
  BY <1>1, <1>4, <1>6 DEF RwMutexInv

\* A step that changes nothing keeps it.
LEMMA RwMutexInvStutter == RwMutexInv /\ UNCHANGED vars => RwMutexInv'
<1> SUFFICES ASSUME RwMutexInv, UNCHANGED vars PROVE RwMutexInv'
  OBVIOUS
<1> USE DEF vars, wqVars, rwVars
<1>1. TypeOK'
  BY DEF RwMutexInv, TypeOK, QueueTypeOK, LockTypeOK
<1>2. WordAccounted'
  BY DEF RwMutexInv, WordAccounted, Readers, UOwners, WOwners, Upgraders, AtMostOne
<1>3. QueueInv'
  BY DEF RwMutexInv, ProtocolInv, QueueInv, NumWakersIsLen, WokenIsUnparked, InQueue, Popped
<1>4. ProtocolInv'
  BY <1>3 DEF RwMutexInv, ProtocolInv, LastWaker
<1>5. QED
  BY <1>1, <1>2, <1>4 DEF RwMutexInv

\* The inductive invariant holds in every behaviour of the sleeping lock.
THEOREM RwMutexInvHolds == Spec => []RwMutexInv
<1>1. RwMutexInv /\ [Next]_vars => RwMutexInv'
  BY RwMutexInvKept, RwMutexInvStutter DEF Next, Done
<1>2. QED
  BY <1>1, RwMutexInvInit, PTL DEF Spec

\* Every variable of the sleeping lock keeps its type: neither the reader count nor the
\* length of the queue goes below 0, whatever undos and drops overlap.
THEOREM RwMutexTyped == Spec => []TypeOK
<1>1. RwMutexInv => TypeOK
  BY DEF RwMutexInv
<1>2. QED
  BY <1>1, RwMutexInvHolds, PTL

=============================================================================
